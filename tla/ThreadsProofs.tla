---------------------------- MODULE ThreadsProofs ----------------------------
(***************************************************************************)
(* Theorems about the thread package, for any number of threads, locks,    *)
(* condition variables and wait queues, cooperative or preemptive.  The    *)
(* first part is type correctness and what interrupts do; the second, as   *)
(* long as the client does not destroy a wait queue somebody sleeps in,    *)
(* that queues, statuses, identifiers and locks stay consistent.           *)
(***************************************************************************)
EXTENDS Threads, QueueLemmas

(* The queue helpers of thread.c keep the type of a queue, and do not lose  *)
(* the last thread.                                                         *)

\* A queue is empty when its length is 0.
LEMMA NonEmpty == ASSUME NEW S, NEW q \in Seq(S) PROVE q = <<>> <=> Len(q) = 0
  BY EmptySeq

\* pop_queue leaves a queue of threads.
LEMMA TailType == ASSUME NEW S, NEW q \in Seq(S), q # <<>>
                  PROVE  Tail(q) \in Seq(S) /\ Len(Tail(q)) = Len(q) - 1 /\ Head(q) \in S
  OBVIOUS

\* A queue of more than one thread is not empty after pop_queue.
LEMMA LongTail == ASSUME NEW S, NEW q \in Seq(S), Len(q) > 1
                  PROVE  Tail(q) \in Seq(S) /\ Tail(q) # <<>> /\ q # <<>>
<1>1. q # <<>> OBVIOUS
<1>2. Tail(q) \in Seq(S) /\ Len(Tail(q)) # 0 BY <1>1, TailType
<1> QED BY <1>1, <1>2, NonEmpty

\* Appending one queue to another (thread_wakeup of all) gives a queue.
LEMMA ConcatType == ASSUME NEW S, NEW p \in Seq(S), NEW q \in Seq(S)
                    PROVE  /\ p \o q \in Seq(S)
                           /\ Len(p \o q) = Len(p) + Len(q)
                           /\ p # <<>> => p \o q # <<>>
  OBVIOUS

\* append_node_to_queue gives a queue that is not empty.
LEMMA AppendType == ASSUME NEW S, NEW q \in Seq(S), NEW x \in S
                    PROVE  Append(q, x) \in Seq(S) /\ Append(q, x) # <<>>
<1>1. Append(q, x) \in Seq(S) /\ Len(Append(q, x)) # 0 OBVIOUS
<1> QED BY <1>1, NonEmpty

\* move_head_to_end gives a queue that is not empty.
LEMMA RotateType == ASSUME NEW S, NEW q \in Seq(S), q # <<>>
                    PROVE  /\ move_head_to_end(q) \in Seq(S)
                           /\ Len(move_head_to_end(q)) = Len(q)
                           /\ move_head_to_end(q) # <<>>
<1>1. <<Head(q)>> \in Seq(S) /\ Len(<<Head(q)>>) = 1 BY TailType
<1>2. Len(q) \in Nat /\ Len(q) # 0 OBVIOUS
<1> QED BY <1>1, <1>2, TailType, ConcatType DEF move_head_to_end

\* move_to_head gives a queue that is not empty.
LEMMA MoveType == ASSUME NEW S, NEW q \in Seq(S), NEW i \in 1 .. Len(q)
                  PROVE  move_to_head(q, i) \in Seq(S) /\ move_to_head(q, i) # <<>>
<1>1. <<q[i]>> \in Seq(S) /\ <<q[i]>> # <<>> OBVIOUS
<1>2. SubSeq(q, 1, i - 1) \in Seq(S) /\ SubSeq(q, i + 1, Len(q)) \in Seq(S) OBVIOUS
<1>3. RemoveAt(q, i) \in Seq(S) BY <1>2, ConcatType DEF RemoveAt
<1> QED BY <1>1, <1>3, ConcatType DEF move_to_head

\* Changing the status of some threads keeps the type.
LEMMA StatusType == ASSUME NEW st \in [TCB -> Statuses], NEW S, NEW s \in Statuses
                    PROVE  set_thread_status(st, S, s) \in [TCB -> Statuses]
  BY DEF set_thread_status

\* The same for the status fields of the current state.
LEMMA StatusTypes ==
    ASSUME TypeOK
    PROVE  \A S : /\ set_thread_status(status, S, "READY") \in [TCB -> Statuses]
                  /\ set_thread_status(status, S, "BLOCKED") \in [TCB -> Statuses]
                  /\ set_thread_status(status, S, "RUNNING") \in [TCB -> Statuses]
  BY StatusType DEF TypeOK, Statuses

\* free_node for some threads keeps the type of the status fields.
LEMMA FreeType == ASSUME NEW st \in [TCB -> Statuses], NEW S
                  PROVE  [t \in TCB |-> IF t \in S THEN "FREE" ELSE st[t]] \in [TCB -> Statuses]
  BY DEF Statuses

\* While the program runs there is a running thread, and it has an identifier.
LEMMA CurType == ASSUME TypeOK, Active
                 PROVE  rq \in Seq(TCB) /\ rq # <<>> /\ Cur \in TCB /\ tid[Cur] \in Tid
<1>1. rq \in Seq(TCB) /\ rq # <<>> BY DEF TypeOK
<1>2. Cur \in TCB BY <1>1, TailType DEF Cur
<1> QED BY <1>1, <1>2 DEF TypeOK

\* A call of the package, or a turn of the loop of lock_acquire, happens while a thread runs.
LEMMA UserModes == ASSUME InUserCode \/ InLoop PROVE mode = "run" /\ Active
  BY DEF InUserCode, InLoop, Active

-----------------------------------------------------------------------------
(* Type correctness, one lemma per group of actions. *)

\* thread_init establishes the types.
LEMMA InitType == Init => TypeOK
<1> SUFFICES ASSUME Init PROVE TypeOK
  OBVIOUS
<1>1. PICK main \in TCB : Init!(main)
  BY DEF Init
<1>2. 0 \in Tid BY ConstantsAssumption DEF Tid
<1>3. <<main>> \in Seq(TCB) /\ <<main>> # <<>> /\ <<>> \in Seq(TCB) OBVIOUS
<1> QED BY <1>1, <1>2, <1>3, ConstantsAssumption
        DEF TypeOK, Statuses, PCs, Modes

\* thread_exit, whoever calls it: the ready queue is not empty unless the program ends.
LEMMA ExitType == ASSUME TypeOK, Active, exit_thread PROVE TypeOK'
<1> DEFINE w == waitq[tid[Cur]]
<1>1. rq \in Seq(TCB) /\ rq # <<>> /\ Cur \in TCB /\ tid[Cur] \in Tid BY CurType
<1>2. w \in Seq(TCB) BY <1>1 DEF TypeOK
<1>3. rq \o w \in Seq(TCB) /\ rq \o w # <<>> BY <1>1, <1>2, ConcatType
<1>4. Tail(rq \o w) \in Seq(TCB) BY <1>3, TailType
<1>5. Append(eq, Cur) \in Seq(TCB) BY <1>1, AppendType DEF TypeOK
<1>6. \A S : [t \in TCB |-> IF t \in S THEN "FREE" ELSE status[t]] \in [TCB -> Statuses]
  BY FreeType DEF TypeOK
<1>7. \A S : set_thread_status(status, S, "READY") \in [TCB -> Statuses]
  BY StatusType DEF TypeOK, Statuses
<1>8. <<>> \in Seq(TCB) OBVIOUS
<1>9. /\ rq' \in Seq(TCB) /\ (Active' => rq' # <<>>)
      /\ eq' \in Seq(TCB) /\ waitq' \in [Tid -> Seq(TCB)]
      /\ status' \in [TCB -> Statuses] /\ mode' \in Modes
  <2>1. CASE exit_program(Tail(rq \o w))
    BY <1>6, <1>8, <2>1 DEF exit_program, TypeOK, Modes, Active
  <2>2. CASE exit_switch(Tail(rq \o w))
    BY <1>4, <1>5, <1>7, <1>8, <2>2 DEF exit_switch, TypeOK, Modes, Active
  <2> QED BY <2>1, <2>2 DEF exit_thread
<1>10. threads' \in [Tid -> TCB \cup {NULL}] /\ holder' \in [Lock -> TCB \cup {NULL, Gone}]
  BY <1>1 DEF exit_thread, TypeOK
<1>11. pc' \in [TCB -> PCs] /\ want' \in [TCB -> Lock \cup TCB \cup {NULL}]
  BY <1>1 DEF exit_thread, TypeOK, PCs
<1> QED BY <1>9, <1>10, <1>11 DEF exit_thread, TypeOK

\* The common end of thread_yield: the types hold if the new ready queue is not empty.
LEMMA SwitchType == ASSUME TypeOK, NEW q \in Seq(TCB), q # <<>>, switch_to(q) PROVE TypeOK'
<1>1. status' \in [TCB -> Statuses] BY StatusType DEF switch_to, TypeOK, Statuses
<1> QED BY <1>1 DEF switch_to, TypeOK, Modes, lockVars

\* thread_wakeup of all threads of a queue keeps the types.
LEMMA WakeAllType ==
    ASSUME TypeOK, Active, NEW o \in Obj, wakeup_all(o)
    PROVE  /\ rq' \in Seq(TCB) /\ rq' # <<>>
           /\ wq' \in [Obj -> Seq(TCB)] /\ status' \in [TCB -> Statuses]
<1>1. rq \in Seq(TCB) /\ rq # <<>> /\ wq[o] \in Seq(TCB) /\ <<>> \in Seq(TCB) BY DEF TypeOK
<1>2. rq' \in Seq(TCB) /\ rq' # <<>> BY <1>1, ConcatType DEF wakeup_all
<1>3. status' \in [TCB -> Statuses] BY StatusType DEF wakeup_all, TypeOK, Statuses
<1> QED BY <1>1, <1>2, <1>3 DEF wakeup_all, TypeOK

\* thread_wakeup of the first thread of a queue keeps the types.
LEMMA WakeOneType ==
    ASSUME TypeOK, Active, NEW o \in Obj, wakeup_one(o)
    PROVE  /\ rq' \in Seq(TCB) /\ rq' # <<>>
           /\ wq' \in [Obj -> Seq(TCB)] /\ status' \in [TCB -> Statuses]
<1>1. rq \in Seq(TCB) /\ wq[o] \in Seq(TCB) /\ wq[o] # <<>> BY DEF TypeOK, wakeup_one
<1>2. Tail(wq[o]) \in Seq(TCB) /\ Head(wq[o]) \in TCB BY <1>1, TailType
<1>3. rq' \in Seq(TCB) /\ rq' # <<>> BY <1>1, <1>2, AppendType DEF wakeup_one
<1>4. status' \in [TCB -> Statuses] BY StatusType DEF wakeup_one, TypeOK, Statuses
<1> QED BY <1>2, <1>3, <1>4 DEF wakeup_one, TypeOK

\* thread_create, thread_yield, thread_kill, thread_wait and thread_exit.
LEMMA SchedulingType ==
    ASSUME TypeOK, Scheduling \/ interrupt_handler PROVE TypeOK'
<1> USE DEF TypeOK
<1>1. Active
  BY UserModes DEF Scheduling, interrupt_handler, thread_create, thread_yield_any, Active,
     thread_yield_self, thread_yield_tid, thread_kill, thread_wait, thread_exit
<1>2. rq \in Seq(TCB) /\ rq # <<>> /\ Cur \in TCB /\ tid[Cur] \in Tid BY <1>1, CurType
<1>3. ASSUME NEW t \in TCB, thread_create(t) PROVE TypeOK'
  <2>1. Append(rq, t) \in Seq(TCB) /\ Append(rq, t) # <<>> BY <1>2, AppendType
  <2>2. /\ status' \in [TCB -> Statuses] /\ pc' \in [TCB -> PCs]
        /\ tid' \in [TCB -> Tid] /\ threads' \in [Tid -> TCB \cup {NULL}]
    BY <1>3 DEF thread_create, Statuses, PCs
  <2>3. want' \in [TCB -> Lock \cup TCB \cup {NULL}] BY <1>3 DEF thread_create
  <2> QED BY <1>3, <2>1, <2>2, <2>3 DEF thread_create, lockVars
<1>4. CASE thread_yield_any \/ interrupt_handler
  BY <1>2, <1>4, RotateType, SwitchType DEF thread_yield_any, interrupt_handler
<1>5. CASE thread_yield_self BY <1>2, <1>5, SwitchType DEF thread_yield_self
<1>6. ASSUME NEW k \in Tid, thread_yield_tid(k) PROVE TypeOK'
  <2>1. PICK i \in 2 .. Len(rq) : switch_to(move_to_head(move_head_to_end(rq), i - 1))
    BY <1>6 DEF thread_yield_tid
  <2>2. move_head_to_end(rq) \in Seq(TCB) /\ Len(move_head_to_end(rq)) = Len(rq)
    BY <1>2, RotateType
  <2>3. i - 1 \in 1 .. Len(move_head_to_end(rq)) BY <2>2
  <2> QED BY <2>1, <2>2, <2>3, MoveType, SwitchType
<1>7. ASSUME NEW i \in Tid, thread_kill(i) PROVE TypeOK'
  BY <1>7 DEF thread_kill, Statuses, lockVars, Active
<1>8. ASSUME NEW i \in Tid, thread_wait(i) PROVE TypeOK'
  <2>1. threads[i] \in TCB BY <1>8 DEF thread_wait
  <2>2. CASE Len(rq) > 1
    <3>1. Tail(rq) \in Seq(TCB) /\ Tail(rq) # <<>> BY <1>2, <2>2, LongTail
    <3>2. Append(waitq[i], Cur) \in Seq(TCB) BY <1>2, AppendType
    <3>3. status' \in [TCB -> Statuses]
      BY <1>8, <2>2, StatusTypes DEF thread_wait, block
    <3>4. pc' \in [TCB -> PCs] /\ want' \in [TCB -> Lock \cup TCB \cup {NULL}]
      BY <1>8, <2>1, <2>2 DEF thread_wait, block, PCs
    <3>5. waitq' \in [Tid -> Seq(TCB)] BY <1>8, <2>2, <3>2 DEF thread_wait
    <3> QED BY <1>8, <2>2, <3>1, <3>3, <3>4, <3>5 DEF thread_wait, block, Modes, lockVars
  <2>3. CASE ~(Len(rq) > 1)
    <3>1. pc' \in [TCB -> PCs] /\ want' \in [TCB -> Lock \cup TCB \cup {NULL}]
      BY <1>2, <1>8, <2>1, <2>3 DEF thread_wait, PCs
    <3> QED BY <1>2, <1>8, <2>3, <3>1 DEF thread_wait, lockVars, Active
  <2> QED BY <2>2, <2>3
<1>9. CASE thread_exit BY <1>1, <1>9, ExitType DEF thread_exit
<1> QED BY <1>3, <1>4, <1>5, <1>6, <1>7, <1>8, <1>9 DEF Scheduling

\* wait_queue_create, wait_queue_destroy, thread_sleep and thread_wakeup.
LEMMA QueueingType == ASSUME TypeOK, Queueing PROVE TypeOK'
<1> USE DEF TypeOK
<1>1. PICK q \in WQ : \/ wait_queue_create(q) \/ wait_queue_destroy(q) \/ thread_sleep(q)
                      \/ \E all \in BOOLEAN : thread_wakeup(q, all)
  BY DEF Queueing
<1>2. Active
  BY <1>1, UserModes
     DEF wait_queue_create, wait_queue_destroy, thread_sleep, thread_wakeup
<1>3. rq \in Seq(TCB) /\ rq # <<>> /\ Cur \in TCB BY <1>2, CurType
<1>4. q \in Obj /\ <<>> \in Seq(TCB) /\ wq[q] \in Seq(TCB) BY DEF Obj
<1>5. CASE wait_queue_create(q) BY <1>4, <1>5 DEF wait_queue_create, tcbVars, Active
<1>6. CASE wait_queue_destroy(q)
  BY <1>4, <1>6, FreeType DEF wait_queue_destroy, Active
<1>7. CASE thread_sleep(q)
  <2>1. Tail(rq) \in Seq(TCB) /\ Tail(rq) # <<>> BY <1>3, <1>7, LongTail DEF thread_sleep
  <2>2. Append(wq[q], Cur) \in Seq(TCB) BY <1>3, <1>4, AppendType
  <2>3. status' \in [TCB -> Statuses] BY <1>7, StatusType DEF thread_sleep, block, Statuses
  <2>4. wq' \in [Obj -> Seq(TCB)] BY <1>4, <1>7, <2>2 DEF thread_sleep
  <2> QED BY <1>3, <1>7, <2>1, <2>3, <2>4 DEF thread_sleep, block, Modes, PCs, lockVars
<1>8. ASSUME NEW all \in BOOLEAN, thread_wakeup(q, all) PROVE TypeOK'
  <2>1. CASE wakeup_all(q)
    BY <1>2, <1>4, <1>8, <2>1, WakeAllType DEF thread_wakeup, lockVars, Active
  <2>2. CASE wakeup_one(q)
    BY <1>2, <1>4, <1>8, <2>2, WakeOneType DEF thread_wakeup, lockVars, Active
  <2> QED BY <1>8, <2>1, <2>2 DEF thread_wakeup
<1> QED BY <1>1, <1>5, <1>6, <1>7, <1>8

\* The other end of a switch, thread_stub and the loop of lock_acquire.
LEMMA KernelType == ASSUME TypeOK, Kernel PROVE TypeOK'
<1> USE DEF TypeOK
<1>1. Active
  BY UserModes
     DEF Kernel, resume_new, resume_killed, resume, stub_killed, stub_run, stub_free_node,
         stub_next_node, stub_main, wait_alone, acquire_sleep, acquire_spin, acquire_take, Active
<1>2. rq \in Seq(TCB) /\ rq # <<>> /\ Cur \in TCB /\ tid[Cur] \in Tid BY <1>1, CurType
<1>3. CASE resume_new BY <1>2, <1>3 DEF resume_new, PCs, Modes, lockVars
<1>4. CASE resume_killed \/ stub_killed BY <1>1, <1>4, ExitType DEF resume_killed, stub_killed
<1>5. CASE resume
  <2> DEFINE st == set_thread_status(status, {Cur}, "RUNNING")
  <2>1. st \in [TCB -> Statuses] BY StatusTypes
  <2>2. [t \in TCB |-> IF t \in Range(eq) THEN "FREE" ELSE st[t]] \in [TCB -> Statuses]
    BY <2>1, FreeType
  <2>3. status' \in [TCB -> Statuses]
    <3> HIDE DEF st
    <3> QED BY <1>5, <2>2 DEF resume, clear_eq, st
  <2>4. eq' \in Seq(TCB) /\ mode' \in Modes
    BY <1>5 DEF resume, clear_eq, Modes
  <2>5. pc' \in [TCB -> PCs] /\ want' \in [TCB -> Lock \cup TCB \cup {NULL}]
    BY <1>2, <1>5 DEF resume, PCs
  <2> QED BY <1>2, <1>5, <2>3, <2>4, <2>5 DEF resume, lockVars
<1>6. CASE stub_run
  BY <1>2, <1>6, StatusTypes DEF stub_run, PCs, lockVars, Active
<1>7. CASE stub_free_node
  <2>1. status' \in [TCB -> Statuses] BY <1>7 DEF stub_free_node, Statuses
  <2> QED BY <1>2, <1>7, <2>1 DEF stub_free_node, PCs, Modes, lockVars
<1>8. CASE stub_next_node
  BY <1>2, <1>8, TailType DEF stub_next_node, PCs, lockVars, Active
<1>9. CASE stub_main BY <1>2, <1>9 DEF stub_main, PCs, lockVars, Active
<1>10. ASSUME NEW l \in Lock, acquire_sleep(l) PROVE TypeOK'
  <2>1. Tail(rq) \in Seq(TCB) /\ Tail(rq) # <<>> BY <1>2, <1>10, LongTail DEF acquire_sleep
  <2>2. l \in Obj /\ wq[l] \in Seq(TCB) BY DEF Obj
  <2>3. Append(wq[l], Cur) \in Seq(TCB) BY <1>2, <2>2, AppendType
  <2>4. wq' \in [Obj -> Seq(TCB)] BY <1>10, <2>2, <2>3 DEF acquire_sleep
  <2>5. status' \in [TCB -> Statuses] BY <1>10, StatusTypes DEF acquire_sleep, block
  <2> QED BY <1>2, <1>10, <2>1, <2>4, <2>5 DEF acquire_sleep, block, PCs, Modes, lockVars
<1>11. ASSUME NEW l \in Lock, acquire_spin(l) PROVE TypeOK'
  BY <1>11 DEF acquire_spin, vars, Active
<1>12. ASSUME NEW l \in Lock, acquire_take(l) PROVE TypeOK'
  BY <1>2, <1>12 DEF acquire_take, PCs, Active
<1>13. CASE wait_alone BY <1>2, <1>13 DEF wait_alone, PCs, lockVars, Active
<1> QED BY <1>3, <1>4, <1>5, <1>6, <1>7, <1>8, <1>9, <1>10, <1>11, <1>12, <1>13 DEF Kernel

\* Locks and condition variables.
LEMMA LockingType == ASSUME TypeOK, Locking PROVE TypeOK'
<1> USE DEF TypeOK
<1>1. Active
  BY UserModes
     DEF Locking, lock_create, lock_destroy, lock_acquire, lock_release, cv_create, cv_destroy,
         cv_wait, cv_signal, cv_broadcast
<1>2. rq \in Seq(TCB) /\ rq # <<>> /\ Cur \in TCB /\ tid[Cur] \in Tid BY <1>1, CurType
<1>3. ASSUME NEW l \in Lock, lock_create(l) PROVE TypeOK'
  <2>1. l \in Obj /\ <<>> \in Seq(TCB) BY DEF Obj
  <2>2. /\ wq' \in [Obj -> Seq(TCB)] /\ made' \in SUBSET Obj /\ locked' \in [Lock -> BOOLEAN]
    BY <1>3, <2>1 DEF lock_create
  <2> QED BY <1>2, <1>3, <2>2 DEF lock_create, tcbVars, Active
<1>4. ASSUME NEW l \in Lock, lock_destroy(l) PROVE TypeOK'
  <2>1. l \in Obj /\ <<>> \in Seq(TCB) BY DEF Obj
  <2>2. wq' \in [Obj -> Seq(TCB)] BY <1>4, <2>1 DEF lock_destroy
  <2>3. status' \in [TCB -> Statuses] BY <1>4, FreeType, ZenonT(30) DEF lock_destroy
  <2>4. made' \in SUBSET Obj BY <1>4 DEF lock_destroy
  <2> QED BY <1>2, <1>4, <2>2, <2>3, <2>4 DEF lock_destroy, Active
<1>5. ASSUME NEW l \in Lock, lock_acquire(l) PROVE TypeOK'
  BY <1>2, <1>5 DEF lock_acquire, PCs, lockVars, Active
<1>6. ASSUME NEW l \in Lock, lock_release(l) PROVE TypeOK'
  <2>1. l \in Obj BY DEF Obj
  <2> QED BY <1>1, <1>6, <2>1, WakeAllType DEF lock_release, Active
<1>7. ASSUME NEW c \in CV, cv_create(c) \/ cv_destroy(c) PROVE TypeOK'
  <2>1. c \in Obj /\ <<>> \in Seq(TCB) BY DEF Obj
  <2>2. wq' \in [Obj -> Seq(TCB)] /\ made' \in SUBSET Obj
    BY <1>7, <2>1 DEF cv_create, cv_destroy
  <2> QED BY <1>2, <1>7, <2>2 DEF cv_create, cv_destroy, tcbVars, Active
<1>8. ASSUME NEW c \in CV, NEW l \in Lock, cv_wait(c, l) PROVE TypeOK'
  <2> DEFINE q == rq \o wq[l]
             st == set_thread_status(status, Range(wq[l]), "READY")
  <2>1. l \in Obj /\ c \in Obj /\ wq[l] \in Seq(TCB) /\ wq[c] \in Seq(TCB) BY DEF Obj
  <2>2. q \in Seq(TCB) BY <1>2, <2>1, ConcatType
  <2>3. locked' \in [Lock -> BOOLEAN] /\ holder' \in [Lock -> TCB \cup {NULL, Gone}]
    BY <1>8 DEF cv_wait
  <2>4. /\ pc' \in [TCB -> PCs] /\ want' \in [TCB -> Lock \cup TCB \cup {NULL}]
    BY <1>2, <1>8 DEF cv_wait, block, PCs
  <2>5. CASE Len(q) > 1
    <3>1. Tail(q) \in Seq(TCB) /\ Tail(q) # <<>> BY <2>2, <2>5, LongTail
    <3>2. Append(wq[c], Cur) \in Seq(TCB) BY <1>2, <2>1, AppendType
    <3>3. wq' \in [Obj -> Seq(TCB)]
      <4>1. c # l BY ConstantsAssumption
      <4>2. wq' = [wq EXCEPT ![l] = <<>>, ![c] = Append(@, Cur)] BY <1>8, <2>5 DEF cv_wait
      <4>3. [wq EXCEPT ![l] = <<>>] \in [Obj -> Seq(TCB)] BY <2>1
      <4>4. [wq EXCEPT ![l] = <<>>][c] = wq[c] BY <2>1, <4>1
      <4> QED BY <2>1, <3>2, <4>2, <4>3, <4>4
    <3>4. st \in [TCB -> Statuses] BY StatusTypes
    <3>5. set_thread_status(st, {Cur}, "BLOCKED") \in [TCB -> Statuses]
      BY <3>4, StatusType DEF Statuses
    <3>6. status' \in [TCB -> Statuses] BY <1>8, <2>5, <3>5 DEF cv_wait, block
    <3> QED BY <1>8, <2>3, <2>4, <2>5, <3>1, <3>3, <3>6 DEF cv_wait, block, Modes
  <2>6. CASE ~(Len(q) > 1) BY <1>2, <1>8, <2>3, <2>4, <2>6 DEF cv_wait, Active
  <2> QED BY <2>5, <2>6
<1>9. ASSUME NEW c \in CV, NEW l \in Lock, cv_signal(c, l) PROVE TypeOK'
  <2>1. c \in Obj BY DEF Obj
  <2> QED BY <1>1, <1>9, <2>1, WakeOneType DEF cv_signal, lockVars, Active
<1>10. ASSUME NEW c \in CV, NEW l \in Lock, cv_broadcast(c, l) PROVE TypeOK'
  <2>1. c \in Obj BY DEF Obj
  <2> QED BY <1>1, <1>10, <2>1, WakeAllType DEF cv_broadcast, lockVars, Active
<1> QED BY <1>3, <1>4, <1>5, <1>6, <1>7, <1>8, <1>9, <1>10 DEF Locking

\* Every step of the thread package keeps its state well formed; in particular
\* rq.head exists whenever a thread runs or is switched to, so the code may
\* dereference it without a test (thread_id, thread_yield, thread_exit).
THEOREM TypeCorrect == Spec => []TypeOK
<1>1. TypeOK /\ [Next]_vars => TypeOK'
  <2> SUFFICES ASSUME TypeOK, [Next]_vars PROVE TypeOK'
    OBVIOUS
  <2>1. CASE Terminated \/ UNCHANGED vars BY <2>1 DEF Terminated, vars, TypeOK, Active
  <2> QED BY <2>1, KernelType, SchedulingType, QueueingType, LockingType DEF Next
<1> QED BY <1>1, InitType, PTL DEF Spec

-----------------------------------------------------------------------------
(* Locks: the invariant is inductive with the types of the state. *)

\* No step leaves a thread asleep in the queue of a lock that is free.
LEMMA LockStep == ASSUME TypeOK, FreeLockNoSleepers, [Next]_vars PROVE FreeLockNoSleepers'
<1> SUFFICES ASSUME NEW k \in Lock, ~locked'[k] PROVE wq'[k] = <<>>
  BY DEF FreeLockNoSleepers
<1>0. ~locked[k] => wq[k] = <<>> BY DEF FreeLockNoSleepers
<1>1. k \in Obj /\ wq[k] \in Seq(TCB) /\ wq \in [Obj -> Seq(TCB)] /\ locked \in [Lock -> BOOLEAN]
  BY DEF Obj, TypeOK
<1>2. CASE UNCHANGED <<wq, locked>> BY <1>0, <1>2
<1>3. CASE Kernel
  <2>1. CASE exit_thread BY <2>1, <1>2 DEF exit_thread
  <2>2. CASE \E l \in Lock : acquire_sleep(l)
    BY <1>0, <1>1, <2>2 DEF acquire_sleep, lockVars
  <2>3. CASE \E l \in Lock : acquire_take(l)
    BY <1>0, <1>1, <2>3 DEF acquire_take
  <2> QED BY <1>2, <1>3, <2>1, <2>2, <2>3
          DEF Kernel, resume_new, resume_killed, resume, stub_killed, stub_run, stub_free_node,
              stub_next_node, stub_main, wait_alone, acquire_spin, lockVars, vars
<1>4. CASE Scheduling \/ interrupt_handler
  BY <1>2, <1>4
     DEF Scheduling, interrupt_handler, switch_to, thread_create, thread_yield_any,
         thread_yield_self, thread_yield_tid, thread_kill, thread_wait, thread_exit,
         exit_thread, lockVars
<1>5. CASE Queueing
  <2>1. PICK q \in WQ : \/ wait_queue_create(q) \/ wait_queue_destroy(q) \/ thread_sleep(q)
                        \/ \E all \in BOOLEAN : thread_wakeup(q, all)
    BY <1>5 DEF Queueing
  <2>2. k # q BY ConstantsAssumption
  <2> QED BY <1>0, <1>1, <2>1, <2>2
          DEF wait_queue_create, wait_queue_destroy, thread_sleep, thread_wakeup, wakeup_all,
              wakeup_one, lockVars
<1>6. CASE Locking
  <2>1. ASSUME NEW l \in Lock, lock_create(l) \/ lock_destroy(l) \/ lock_acquire(l) \/ lock_release(l)
        PROVE  wq'[k] = <<>>
    BY <1>0, <1>1, <2>1
       DEF lock_create, lock_destroy, lock_acquire, lock_release, wakeup_all, lockVars
  <2>2. ASSUME NEW c \in CV, cv_create(c) \/ cv_destroy(c) PROVE wq'[k] = <<>>
    BY <1>0, <1>1, <2>2, ConstantsAssumption DEF cv_create, cv_destroy
  <2>3. ASSUME NEW c \in CV, NEW l \in Lock, cv_wait(c, l) \/ cv_signal(c, l) \/ cv_broadcast(c, l)
        PROVE  wq'[k] = <<>>
    <3>1. k # c /\ c # l /\ c \in Obj /\ l \in Obj BY ConstantsAssumption DEF Obj
    <3>2. CASE cv_wait(c, l)
      <4>1. k # l => wq[k] = <<>> BY <1>0, <1>1, <3>2 DEF cv_wait
      <4>2. k = l => wq'[k] = <<>> \/ (wq' = wq /\ Len(rq \o wq[l]) <= 1)
        BY <1>1, <3>1, <3>2 DEF cv_wait, block
      <4>3. rq \in Seq(TCB) /\ rq # <<>> BY <3>2, UserModes, CurType DEF cv_wait
      <4>4. k = l /\ Len(rq \o wq[l]) <= 1 => wq[k] = <<>>
        <5>1. Len(rq) \in Nat \ {0} BY <4>3, NonEmpty
        <5>2. k = l => Len(rq \o wq[l]) = Len(rq) + Len(wq[k]) BY <1>1, <4>3, ConcatType
        <5> QED BY <1>1, <5>1, <5>2, NonEmpty
      <4>5. k # l => wq'[k] = wq[k] BY <1>1, <3>1, <3>2 DEF cv_wait, block
      <4> QED BY <4>1, <4>2, <4>4, <4>5
    <3>3. CASE cv_signal(c, l) \/ cv_broadcast(c, l)
      BY <1>0, <1>1, <3>1, <3>3 DEF cv_signal, cv_broadcast, wakeup_one, wakeup_all, lockVars
    <3> QED BY <2>3, <3>2, <3>3
  <2> QED BY <1>6, <2>1, <2>2, <2>3 DEF Locking
<1>7. CASE Terminated \/ UNCHANGED vars BY <1>2, <1>7 DEF Terminated, vars
<1> QED BY <1>3, <1>4, <1>5, <1>6, <1>7 DEF Next

\* A free lock has no sleepers: lock_release and cv_wait lose no wakeup of a
\* thread in lock_acquire, and lock_destroy frees no sleeping thread.
THEOREM NoLockWakeupLost == Spec => []FreeLockNoSleepers
<1>1. Init => FreeLockNoSleepers BY DEF Init, FreeLockNoSleepers, Obj
<1>2. TypeOK /\ FreeLockNoSleepers /\ [Next]_vars => FreeLockNoSleepers' BY LockStep
<1> QED BY <1>1, <1>2, TypeCorrect, PTL DEF Spec

-----------------------------------------------------------------------------
(* The queues as a whole.  Every operation of the package that moves nodes  *)
(* is a composition of the moves below, and each move keeps them apart.     *)

\* The threads in the table th.
Named(th) == Range(th) \ {NULL}

\* No queue holds a thread twice.
NoDuplicates(r, e, j, w) ==
    /\ IsInjective(r) /\ IsInjective(e)
    /\ \A i \in Tid : IsInjective(j[i])
    /\ \A o \in Obj : IsInjective(w[o])

\* No two of the queues of ready, joining and waiting threads share a thread.
NoneShared(r, j, w) ==
    \A t \in TCB :
        /\ \A i, k \in Tid : t \in Range(j[i]) /\ t \in Range(j[k]) => i = k
        /\ \A o, p \in Obj : t \in Range(w[o]) /\ t \in Range(w[p]) => o = p
        /\ \A i \in Tid : t \in Range(j[i]) => t \notin Range(r)
        /\ \A o \in Obj : t \in Range(w[o]) => t \notin Range(r)
        /\ \A i \in Tid, o \in Obj : ~(t \in Range(j[i]) /\ t \in Range(w[o]))

\* Exactly the threads of the table are in these queues, and none is in e.
AllQueued(r, e, j, w, th) ==
    \A t \in TCB :
        /\ t \in Named(th) <=> \/ t \in Range(r)
                               \/ \E i \in Tid : t \in Range(j[i])
                               \/ \E o \in Obj : t \in Range(w[o])
        /\ t \in Named(th) => t \notin Range(e)

\* OneQueueEach for given queues: r ready, e exited, j joining, w waiting.
QueuesApart(r, e, j, w, th) ==
    NoDuplicates(r, e, j, w) /\ NoneShared(r, j, w) /\ AllQueued(r, e, j, w, th)

\* The queues have the types of rq, eq, waitq, wq and threads.
QueueTypes(r, e, j, w, th) ==
    /\ r \in Seq(TCB) /\ e \in Seq(TCB)
    /\ j \in [Tid -> Seq(TCB)] /\ w \in [Obj -> Seq(TCB)]
    /\ th \in [Tid -> TCB \cup {NULL}]

\* The threads in the table are TCBs.
LEMMA NamedType ==
    ASSUME NEW th \in [Tid -> TCB \cup {NULL}]
    PROVE  /\ Named(th) \subseteq TCB
           /\ \A t \in TCB : t \in Named(th) <=> \E i \in Tid : th[i] = t
  BY ConstantsAssumption DEF Named, Range

\* The threads suspended in some of the queues j and w.
Suspended(j, w) == (UNION {Range(j[i]) : i \in Tid}) \cup (UNION {Range(w[o]) : o \in Obj})

LEMMA SuspendedMembers ==
    ASSUME NEW j, NEW w
    PROVE  \A t : t \in Suspended(j, w) <=> \/ \E i \in Tid : t \in Range(j[i])
                                            \/ \E o \in Obj : t \in Range(w[o])
<1> DEFINE joining == UNION {Range(j[i]) : i \in Tid}
           waiting == UNION {Range(w[o]) : o \in Obj}
<1>1. \A t : t \in joining <=> \E i \in Tid : t \in Range(j[i]) OBVIOUS
<1>2. \A t : t \in waiting <=> \E o \in Obj : t \in Range(w[o]) OBVIOUS
<1>3. Suspended(j, w) = joining \cup waiting BY DEF Suspended
<1> HIDE DEF joining, waiting
<1> QED BY <1>1, <1>2, <1>3

\* QueuesApart is the body of OneQueueEach.
LEMMA ApartMeans ==
    ASSUME NEW r, NEW e, NEW j, NEW w, NEW th, QueueTypes(r, e, j, w, th)
    PROVE  QueuesApart(r, e, j, w, th) <=>
             /\ IsInjective(r) /\ IsInjective(e)
             /\ \A i \in Tid : IsInjective(j[i])
             /\ \A o \in Obj : IsInjective(w[o])
             /\ \A i, k \in Tid : i # k => Range(j[i]) \cap Range(j[k]) = {}
             /\ \A o, p \in Obj : o # p => Range(w[o]) \cap Range(w[p]) = {}
             /\ \A i \in Tid, o \in Obj : Range(j[i]) \cap Range(w[o]) = {}
             /\ Named(th) = Range(r) \cup Suspended(j, w)
             /\ Range(r) \cap Suspended(j, w) = {}
             /\ Named(th) \cap Range(e) = {}
<1>1. /\ \A i \in Tid : Range(j[i]) \subseteq TCB
      /\ \A o \in Obj : Range(w[o]) \subseteq TCB
      /\ Range(r) \subseteq TCB /\ Named(th) \subseteq TCB
  BY QueueMembers, NamedType DEF QueueTypes
<1>2. \A t : t \in Suspended(j, w) <=> \/ \E i \in Tid : t \in Range(j[i])
                                       \/ \E o \in Obj : t \in Range(w[o])
  BY SuspendedMembers
<1>3. Named(th) = Range(r) \cup Suspended(j, w) /\ Named(th) \cap Range(e) = {}
      <=> AllQueued(r, e, j, w, th)
  <2>1. Range(r) \cup Suspended(j, w) \subseteq TCB BY <1>1, <1>2
  <2>2. Named(th) = Range(r) \cup Suspended(j, w)
        <=> \A t \in TCB : t \in Named(th) <=> t \in Range(r) \cup Suspended(j, w)
    BY <1>1, <2>1
  <2>3. Named(th) \cap Range(e) = {} <=> \A t \in TCB : t \in Named(th) => t \notin Range(e)
    BY <1>1
  <2> QED BY <1>2, <2>2, <2>3 DEF AllQueued
<1>4. /\ \A i, k \in Tid : i # k => Range(j[i]) \cap Range(j[k]) = {}
      /\ \A o, p \in Obj : o # p => Range(w[o]) \cap Range(w[p]) = {}
      /\ \A i \in Tid, o \in Obj : Range(j[i]) \cap Range(w[o]) = {}
      /\ Range(r) \cap Suspended(j, w) = {}
      <=> NoneShared(r, j, w)
  BY <1>1, <1>2 DEF NoneShared
<1> QED BY <1>3, <1>4 DEF QueuesApart, NoDuplicates

\* thread_yield: the ready queue is only permuted.
LEMMA ApartPermute ==
    ASSUME NEW r, NEW e, NEW j, NEW w, NEW th, QueuesApart(r, e, j, w, th),
           NEW r2, IsInjective(r2), Range(r2) = Range(r)
    PROVE  QueuesApart(r2, e, j, w, th)
  BY DEF QueuesApart, NoDuplicates, NoneShared, AllQueued

\* clear_queue(&eq), or one turn of its loop: exited threads are forgotten.
LEMMA ApartForget ==
    ASSUME NEW r, NEW e, NEW j, NEW w, NEW th, QueuesApart(r, e, j, w, th),
           NEW e2, IsInjective(e2), Range(e2) \subseteq Range(e)
    PROVE  QueuesApart(r, e2, j, w, th)
  BY DEF QueuesApart, NoDuplicates, NoneShared, AllQueued

\* thread_create: a new thread gets a free identifier and becomes ready.
LEMMA ApartCreate ==
    ASSUME NEW r, NEW e, NEW j, NEW w, NEW th, QueueTypes(r, e, j, w, th),
           QueuesApart(r, e, j, w, th),
           NEW t \in TCB, t \notin Named(th), t \notin Range(e), NEW i \in Tid, th[i] = NULL,
           NEW r2, r2 = Append(r, t), NEW th2, th2 = [th EXCEPT ![i] = t]
    PROVE  QueuesApart(r2, e, j, w, th2)
<1>1. t \notin Range(r) /\ (\A k \in Tid : t \notin Range(j[k])) /\ (\A o \in Obj : t \notin Range(w[o]))
  BY DEF QueuesApart, AllQueued
<1>2. Range(r2) = Range(r) \cup {t} /\ IsInjective(r2)
  BY <1>1, AppendQueue DEF QueuesApart, NoDuplicates, QueueTypes
<1>3. Named(th2) = Named(th) \cup {t}
  BY ConstantsAssumption DEF Named, Range, QueueTypes
<1>4. NoDuplicates(r2, e, j, w) BY <1>1, <1>2, <1>3 DEF QueuesApart, NoDuplicates
<1>5. NoneShared(r2, j, w) BY <1>1, <1>2, <1>3 DEF QueuesApart, NoneShared
<1>6. AllQueued(r2, e, j, w, th2) BY <1>1, <1>2, <1>3 DEF QueuesApart, AllQueued
<1> QED BY <1>4, <1>5, <1>6 DEF QueuesApart

\* thread_exit, when nobody waits any more: the running thread gives up its
\* identifier and goes to the exit queue.
LEMMA ApartExit ==
    ASSUME NEW r, NEW e, NEW j, NEW w, NEW th, QueueTypes(r, e, j, w, th),
           QueuesApart(r, e, j, w, th), r # <<>>,
           NEW i \in Tid, th[i] = Head(r), \A k \in Tid : th[k] = Head(r) => k = i,
           NEW r2, r2 = Tail(r), NEW e2, e2 = Append(e, Head(r)),
           NEW th2, th2 = [th EXCEPT ![i] = NULL]
    PROVE  QueuesApart(r2, e2, j, w, th2)
<1>1. Range(r2) = Range(r) \ {Head(r)} /\ IsInjective(r2) /\ Head(r) \in Range(r)
  BY TailQueue DEF QueuesApart, NoDuplicates, QueueTypes
<1>2. Head(r) \in TCB BY <1>1, QueueMembers DEF QueueTypes
<1>3. Head(r) \notin Range(e) BY <1>1, <1>2 DEF QueuesApart, AllQueued
<1>4. Range(e2) = Range(e) \cup {Head(r)} /\ IsInjective(e2)
  BY <1>2, <1>3, AppendQueue DEF QueuesApart, NoDuplicates, QueueTypes
<1>5. Named(th2) = Named(th) \ {Head(r)}
  BY <1>2, ConstantsAssumption DEF Named, Range, QueueTypes
<1>6. (\A k \in Tid : Head(r) \notin Range(j[k])) /\ (\A o \in Obj : Head(r) \notin Range(w[o]))
  BY <1>1, <1>2 DEF QueuesApart, NoneShared
<1>7. NoDuplicates(r2, e2, j, w) BY <1>1, <1>2, <1>3, <1>4, <1>5, <1>6 DEF QueuesApart, NoDuplicates
<1>8. NoneShared(r2, j, w) BY <1>1, <1>2, <1>3, <1>4, <1>5, <1>6 DEF QueuesApart, NoneShared
<1>9. AllQueued(r2, e2, j, w, th2) BY <1>1, <1>2, <1>3, <1>4, <1>5, <1>6 DEF QueuesApart, AllQueued
<1> QED BY <1>7, <1>8, <1>9 DEF QueuesApart

\* thread_sleep in the queue of o.
LEMMA ApartSleep ==
    ASSUME NEW r, NEW e, NEW j, NEW w, NEW th, QueueTypes(r, e, j, w, th),
           QueuesApart(r, e, j, w, th), r # <<>>, NEW o \in Obj,
           NEW r2, r2 = Tail(r), NEW w2, w2 = [w EXCEPT ![o] = Append(@, Head(r))]
    PROVE  QueuesApart(r2, e, j, w2, th)
<1>1. Range(r2) = Range(r) \ {Head(r)} /\ IsInjective(r2) /\ Head(r) \in Range(r)
  BY TailQueue DEF QueuesApart, NoDuplicates, QueueTypes
<1>2. Head(r) \in TCB BY <1>1, QueueMembers DEF QueueTypes
<1>3. (\A k \in Tid : Head(r) \notin Range(j[k])) /\ (\A p \in Obj : Head(r) \notin Range(w[p]))
  BY <1>1, <1>2 DEF QueuesApart, NoneShared
<1>4. /\ \A p \in Obj : p # o => w2[p] = w[p]
      /\ Range(w2[o]) = Range(w[o]) \cup {Head(r)} /\ IsInjective(w2[o])
  BY <1>2, <1>3, AppendQueue DEF QueuesApart, NoDuplicates, QueueTypes
<1>5. NoDuplicates(r2, e, j, w2) BY <1>1, <1>2, <1>3, <1>4 DEF QueuesApart, NoDuplicates
<1>6. NoneShared(r2, j, w2) BY <1>1, <1>2, <1>3, <1>4 DEF QueuesApart, NoneShared
<1>7. AllQueued(r2, e, j, w2, th) BY <1>1, <1>2, <1>3, <1>4 DEF QueuesApart, AllQueued
<1> QED BY <1>5, <1>6, <1>7 DEF QueuesApart

\* thread_wait: sleep in the queue of thread i.
LEMMA ApartJoin ==
    ASSUME NEW r, NEW e, NEW j, NEW w, NEW th, QueueTypes(r, e, j, w, th),
           QueuesApart(r, e, j, w, th), r # <<>>, NEW i \in Tid,
           NEW r2, r2 = Tail(r), NEW j2, j2 = [j EXCEPT ![i] = Append(@, Head(r))]
    PROVE  QueuesApart(r2, e, j2, w, th)
<1>1. Range(r2) = Range(r) \ {Head(r)} /\ IsInjective(r2) /\ Head(r) \in Range(r)
  BY TailQueue DEF QueuesApart, NoDuplicates, QueueTypes
<1>2. Head(r) \in TCB BY <1>1, QueueMembers DEF QueueTypes
<1>3. (\A k \in Tid : Head(r) \notin Range(j[k])) /\ (\A p \in Obj : Head(r) \notin Range(w[p]))
  BY <1>1, <1>2 DEF QueuesApart, NoneShared
<1>4. /\ \A k \in Tid : k # i => j2[k] = j[k]
      /\ Range(j2[i]) = Range(j[i]) \cup {Head(r)} /\ IsInjective(j2[i])
  BY <1>2, <1>3, AppendQueue DEF QueuesApart, NoDuplicates, QueueTypes
<1>5. NoDuplicates(r2, e, j2, w) BY <1>1, <1>2, <1>3, <1>4 DEF QueuesApart, NoDuplicates
<1>6. NoneShared(r2, j2, w) BY <1>1, <1>2, <1>3, <1>4 DEF QueuesApart, NoneShared
<1>7. AllQueued(r2, e, j2, w, th) BY <1>1, <1>2, <1>3, <1>4 DEF QueuesApart, AllQueued
<1> QED BY <1>5, <1>6, <1>7 DEF QueuesApart

\* thread_wakeup of all the threads in the queue of o.
LEMMA ApartWakeAll ==
    ASSUME NEW r, NEW e, NEW j, NEW w, NEW th, QueueTypes(r, e, j, w, th),
           QueuesApart(r, e, j, w, th), NEW o \in Obj,
           NEW r2, r2 = r \o w[o], NEW w2, w2 = [w EXCEPT ![o] = <<>>]
    PROVE  QueuesApart(r2, e, j, w2, th)
<1>1. Range(w[o]) \subseteq TCB BY QueueMembers DEF QueueTypes
<1>2. Range(r) \cap Range(w[o]) = {} BY <1>1 DEF QueuesApart, NoneShared
<1>3. Range(r2) = Range(r) \cup Range(w[o]) /\ IsInjective(r2)
  BY <1>2, ConcatQueue DEF QueuesApart, NoDuplicates, QueueTypes
<1>4. /\ \A p \in Obj : p # o => w2[p] = w[p]
      /\ Range(w2[o]) = {} /\ IsInjective(w2[o])
  BY EmptyQueue DEF QueueTypes
<1>5. NoDuplicates(r2, e, j, w2) BY <1>1, <1>2, <1>3, <1>4 DEF QueuesApart, NoDuplicates
<1>6. NoneShared(r2, j, w2) BY <1>1, <1>2, <1>3, <1>4 DEF QueuesApart, NoneShared
<1>7. AllQueued(r2, e, j, w2, th) BY <1>1, <1>2, <1>3, <1>4 DEF QueuesApart, AllQueued
<1> QED BY <1>5, <1>6, <1>7 DEF QueuesApart

\* thread_exit wakes all the threads that wait for thread i.
LEMMA ApartWakeJoined ==
    ASSUME NEW r, NEW e, NEW j, NEW w, NEW th, QueueTypes(r, e, j, w, th),
           QueuesApart(r, e, j, w, th), NEW i \in Tid,
           NEW r2, r2 = r \o j[i], NEW j2, j2 = [j EXCEPT ![i] = <<>>]
    PROVE  QueuesApart(r2, e, j2, w, th)
<1>1. Range(j[i]) \subseteq TCB BY QueueMembers DEF QueueTypes
<1>2. Range(r) \cap Range(j[i]) = {} BY <1>1 DEF QueuesApart, NoneShared
<1>3. Range(r2) = Range(r) \cup Range(j[i]) /\ IsInjective(r2)
  BY <1>2, ConcatQueue DEF QueuesApart, NoDuplicates, QueueTypes
<1>4. /\ \A k \in Tid : k # i => j2[k] = j[k]
      /\ Range(j2[i]) = {} /\ IsInjective(j2[i])
  BY EmptyQueue DEF QueueTypes
<1>5. NoDuplicates(r2, e, j2, w) BY <1>1, <1>2, <1>3, <1>4 DEF QueuesApart, NoDuplicates
<1>6. NoneShared(r2, j2, w) BY <1>1, <1>2, <1>3, <1>4 DEF QueuesApart, NoneShared
<1>7. AllQueued(r2, e, j2, w, th) BY <1>1, <1>2, <1>3, <1>4 DEF QueuesApart, AllQueued
<1> QED BY <1>5, <1>6, <1>7 DEF QueuesApart

\* thread_wakeup of the first thread in the queue of o.
LEMMA ApartWakeOne ==
    ASSUME NEW r, NEW e, NEW j, NEW w, NEW th, QueueTypes(r, e, j, w, th),
           QueuesApart(r, e, j, w, th), NEW o \in Obj, w[o] # <<>>,
           NEW r2, r2 = Append(r, Head(w[o])), NEW w2, w2 = [w EXCEPT ![o] = Tail(@)]
    PROVE  QueuesApart(r2, e, j, w2, th)
<1>1. /\ Range(Tail(w[o])) = Range(w[o]) \ {Head(w[o])} /\ IsInjective(Tail(w[o]))
      /\ Head(w[o]) \in Range(w[o])
  BY TailQueue DEF QueuesApart, NoDuplicates, QueueTypes
<1>2. Head(w[o]) \in TCB BY <1>1, QueueMembers DEF QueueTypes
<1>3. Head(w[o]) \notin Range(r) BY <1>1, <1>2 DEF QueuesApart, NoneShared
<1>4. Range(r2) = Range(r) \cup {Head(w[o])} /\ IsInjective(r2)
  BY <1>2, <1>3, AppendQueue DEF QueuesApart, NoDuplicates, QueueTypes
<1>5. /\ \A p \in Obj : p # o => w2[p] = w[p]
      /\ Range(w2[o]) = Range(w[o]) \ {Head(w[o])} /\ IsInjective(w2[o])
  BY <1>1 DEF QueueTypes
<1>6. NoDuplicates(r2, e, j, w2) BY <1>1, <1>2, <1>3, <1>4, <1>5 DEF QueuesApart, NoDuplicates
<1>7. NoneShared(r2, j, w2) BY <1>1, <1>2, <1>3, <1>4, <1>5 DEF QueuesApart, NoneShared
<1>8. AllQueued(r2, e, j, w2, th) BY <1>1, <1>2, <1>3, <1>4, <1>5 DEF QueuesApart, AllQueued
<1> QED BY <1>6, <1>7, <1>8 DEF QueuesApart

-----------------------------------------------------------------------------
(* The inductive invariant. *)

\* A thread that runs past the first line of thread_stub is RUNNING.
RunningStatus == mode = "run" /\ pc[Cur] # "stub" => status[Cur] = "RUNNING"

\* A node of the exit queue is freed and still queued only between the two
\* halves of the loop of clear_queue in thread_stub: one thread at most is
\* there, its node is the first one, and no other thread gets to client code
\* or to the loop of lock_acquire meanwhile (that would be a double free).
FreedOnce ==
    Active =>
      /\ mode = "run" /\ pc[Cur] \notin {"stub", "clear", "freed"}
           => \A t \in Range(eq) : status[t] # "FREE"
      /\ \A t \in Live : pc[t] = "freed" => eq # <<>> /\ status[Head(eq)] = "FREE"
      /\ \A t, u \in Live : pc[t] = "freed" /\ pc[u] = "freed" => t = u

\* A thread that was woken in thread_wait waited for one that has exited, and
\* only the queues of thread_wait hold threads that are still waiting there.
JoinDone ==
    Active =>
      /\ \A t \in Range(rq) : pc[t] = "join" => want[t] \notin Live
      /\ \A o \in Obj : \A t \in Range(wq[o]) : pc[t] # "join"

\* A lock whose holder is known is locked, its holder is alive, and owner is
\* its identifier; a lock that does not exist is not locked.
HolderLives ==
    \A l \in Lock :
      /\ holder[l] \in TCB => locked[l]
      /\ l \notin made => ~locked[l]
      /\ Active /\ holder[l] \in TCB => holder[l] \in Live /\ owner[l] = tid[holder[l]]

\* Nobody sleeps in a queue that does not exist, and nobody acquires a lock
\* that does not exist.
QueuesMade ==
    /\ \A o \in Obj \ made : wq[o] = <<>>
    /\ Active => \A t \in Live : pc[t] = "acquire" => want[t] \in Lock \cap made

IInv ==
    /\ TypeOK /\ FreeLockNoSleepers
    /\ OneQueueEach /\ TableExact /\ StatusMatchesQueue
    /\ RunningStatus /\ FreedOnce
    /\ WaitersHaveTarget /\ JoinDone
    /\ HolderLives /\ QueuesMade /\ CvSleepersHoldNoLock

\* The invariants that remain to be shown for a step, with the queues apart.
RestInv ==
    /\ TableExact /\ StatusMatchesQueue /\ RunningStatus /\ FreedOnce
    /\ WaitersHaveTarget /\ JoinDone /\ HolderLives /\ QueuesMade /\ CvSleepersHoldNoLock

\* What it means for the queues to be apart, member by member.
QueueView ==
    /\ Live \subseteq TCB /\ Range(rq) \subseteq TCB /\ Range(eq) \subseteq TCB
    /\ \A i \in Tid : Range(waitq[i]) \subseteq Sleepers
    /\ \A o \in Obj : Range(wq[o]) \subseteq Sleepers
    /\ \A t \in Sleepers : \/ \E i \in Tid : t \in Range(waitq[i])
                           \/ \E o \in Obj : t \in Range(wq[o])
    /\ Range(rq) \subseteq Live /\ Sleepers \subseteq Live
    /\ \A t \in Live : t \in Range(rq) \/ t \in Sleepers
    /\ \A t \in Live : t \notin Range(eq)
    /\ \A t \in Sleepers : t \notin Range(rq)
    /\ \A t \in TCB : t \in Live <=> \E i \in Tid : threads[i] = t
    /\ eq # <<>> => Head(eq) \in Range(eq)

\* The queues of the current state are apart.
LEMMA ViewNow ==
    ASSUME IInv, Active
    PROVE  /\ QueueTypes(rq, eq, waitq, wq, threads)
           /\ QueuesApart(rq, eq, waitq, wq, threads)
           /\ QueueView
<1>1. QueueTypes(rq, eq, waitq, wq, threads) BY DEF IInv, TypeOK, QueueTypes
<1>2. Live = Named(threads) /\ Sleepers = Suspended(waitq, wq)
  BY DEF Live, Named, Sleepers, Suspended
<1>3. QueuesApart(rq, eq, waitq, wq, threads)
  BY <1>1, <1>2, ApartMeans DEF IInv, OneQueueEach
<1>4. Live = Range(rq) \cup Sleepers /\ Range(rq) \cap Sleepers = {} /\ Live \cap Range(eq) = {}
  BY DEF IInv, OneQueueEach
<1>5. \A t : t \in Sleepers <=> \/ \E i \in Tid : t \in Range(waitq[i])
                                \/ \E o \in Obj : t \in Range(wq[o])
  BY <1>2, SuspendedMembers
<1>6. Live \subseteq TCB /\ \A t \in TCB : t \in Live <=> \E i \in Tid : threads[i] = t
  BY <1>1, <1>2, NamedType DEF QueueTypes
<1>7. /\ Range(rq) \subseteq TCB /\ Range(eq) \subseteq TCB
      /\ eq # <<>> => Head(eq) \in Range(eq)
  BY <1>1, QueueMembers DEF QueueTypes
<1> QED BY <1>1, <1>3, <1>4, <1>5, <1>6, <1>7 DEF QueueView

\* The running thread is live, is ready, and knows its identifier.
LEMMA RunningFacts ==
    ASSUME IInv, Active
    PROVE  /\ rq \in Seq(TCB) /\ rq # <<>> /\ Cur \in TCB /\ tid[Cur] \in Tid
           /\ Cur \in Range(rq) /\ Cur \in Live /\ Cur \notin Sleepers
           /\ \A t \in TCB : t \in Live <=> threads[tid[t]] = t
<1>1. rq \in Seq(TCB) /\ rq # <<>> /\ Cur \in TCB /\ tid[Cur] \in Tid BY CurType DEF IInv
<1>2. Cur \in Range(rq) BY <1>1, QueueMembers DEF Cur
<1>3. QueueView BY ViewNow
<1>4. \A t \in TCB : t \in Live <=> threads[tid[t]] = t
  BY <1>3 DEF IInv, TypeOK, TableExact, QueueView
<1> QED BY <1>1, <1>2, <1>3, <1>4 DEF QueueView

\* The same for the state after a step that keeps the queues apart.
LEMMA ViewNext ==
    ASSUME TypeOK', QueuesApart(rq', eq', waitq', wq', threads')
    PROVE  OneQueueEach' /\ QueueView'
<1>1. QueueTypes(rq', eq', waitq', wq', threads') BY DEF TypeOK, QueueTypes
<1>2. Live' = Named(threads') /\ Sleepers' = Suspended(waitq', wq')
  BY DEF Live, Named, Sleepers, Suspended
<1>3. OneQueueEach' BY <1>1, <1>2, ApartMeans, SMTT(30) DEF OneQueueEach
<1>4. /\ Live' = Range(rq') \cup Sleepers' /\ Live' \cap Range(eq') = {}
      /\ Range(rq') \cap Sleepers' = {}
  BY <1>1, <1>2, ApartMeans
<1>5. \A t : t \in Sleepers' <=> \/ \E i \in Tid : t \in Range(waitq'[i])
                                 \/ \E o \in Obj : t \in Range(wq'[o])
  BY <1>2, SuspendedMembers
<1>6. Live' \subseteq TCB /\ \A t \in TCB : t \in Live' <=> \E i \in Tid : threads'[i] = t
  BY <1>1, <1>2, NamedType DEF QueueTypes
<1>7. /\ Range(rq') \subseteq TCB /\ Range(eq') \subseteq TCB
      /\ eq' # <<>> => Head(eq') \in Range(eq')
  BY <1>1, QueueMembers DEF QueueTypes
<1> QED BY <1>3, <1>4, <1>5, <1>6, <1>7 DEF QueueView

-----------------------------------------------------------------------------
(* The steps that move no thread. *)

\* The running thread enters or leaves lock_acquire or a thread_wait that does
\* not sleep, or goes on in thread_stub.
LEMMA LocalStep ==
    ASSUME IInv, TypeOK',
           \/ \E l \in Lock : lock_acquire(l)
           \/ \E i \in Tid : thread_wait(i) /\ ~(Len(rq) > 1)
           \/ wait_alone \/ resume_new \/ stub_run \/ stub_main
    PROVE  OneQueueEach' /\ RestInv'
<1> USE DEF IInv
<1>1. Active /\ Active' /\ mode' = "run"
  BY UserModes DEF lock_acquire, thread_wait, wait_alone, resume_new, stub_run, stub_main, Active
<1>2. UNCHANGED <<tid, rq, eq, threads, waitq, wq, made, locked, owner, holder>>
  BY DEF lock_acquire, thread_wait, wait_alone, resume_new, stub_run, stub_main, lockVars
<1>3. Cur \in TCB /\ Cur \in Range(rq) /\ Cur \in Live /\ Cur \notin Sleepers BY <1>1, RunningFacts
<1>4. QueueView BY <1>1, ViewNow
<1>5. Live' = Live /\ Sleepers' = Sleepers /\ Cur' = Cur
  BY <1>2 DEF Live, Sleepers, Cur
<1>6. OneQueueEach'
  <2>1. QueuesApart(rq', eq', waitq', wq', threads') BY <1>1, <1>2, ViewNow
  <2> QED BY <2>1, ViewNext
<1>7. /\ \A t \in TCB \ {Cur} : status'[t] = status[t] /\ pc'[t] = pc[t] /\ want'[t] = want[t]
      /\ status'[Cur] # status[Cur] => status'[Cur] = "RUNNING" /\ status[Cur] # "EXITED"
      /\ pc'[Cur] \in {"acquire", "user", "alone", "stub", "clear"}
      /\ pc'[Cur] = "acquire" => want'[Cur] \in Lock \cap made
  BY <1>3, SMTT(30) DEF lock_acquire, thread_wait, wait_alone, resume_new, stub_run, stub_main, TypeOK,
     set_thread_status
<1>8. /\ pc'[Cur] # "stub" => status'[Cur] = "RUNNING"
      /\ pc'[Cur] \notin {"stub", "clear"} => \A t \in Range(eq) : status[t] # "FREE"
  <2>1. CASE \E l \in Lock : lock_acquire(l)
    BY <1>1, <1>3, <2>1 DEF lock_acquire, InUserCode, RunningStatus, FreedOnce
  <2>2. CASE wait_alone
    BY <1>1, <1>3, <2>2 DEF wait_alone, RunningStatus, FreedOnce
  <2>3. CASE stub_run
    BY <1>3, <2>3 DEF stub_run, set_thread_status, TypeOK
  <2>4. CASE stub_main
    BY <1>1, <1>3, <2>4, EmptyQueue DEF stub_main, RunningStatus, TypeOK
  <2>5. CASE resume_new BY <1>3, <2>5 DEF resume_new, TypeOK
  <2>6. CASE \E i \in Tid : thread_wait(i) /\ ~(Len(rq) > 1)
    BY <1>1, <1>3, <2>6 DEF thread_wait, InUserCode, RunningStatus, FreedOnce
  <2> QED BY <2>1, <2>2, <2>3, <2>4, <2>5, <2>6
<1>9. TableExact' BY <1>1, <1>2, <1>3, <1>4, <1>5, <1>7 DEF TableExact, QueueView
<1>10. StatusMatchesQueue' BY <1>1, <1>2, <1>3, <1>4, <1>5, <1>7 DEF StatusMatchesQueue, QueueView
<1>11. RunningStatus' BY <1>1, <1>2, <1>3, <1>5, <1>8 DEF RunningStatus
<1>12. FreedOnce' BY <1>1, <1>2, <1>3, <1>4, <1>5, <1>7, <1>8 DEF FreedOnce, QueueView
<1>13. WaitersHaveTarget' BY <1>1, <1>2, <1>3, <1>4, <1>5, <1>7 DEF WaitersHaveTarget, QueueView
<1>14. JoinDone' BY <1>1, <1>2, <1>3, <1>4, <1>5, <1>7 DEF JoinDone, QueueView
<1>15. HolderLives' BY <1>1, <1>2, <1>5 DEF HolderLives
<1>16. QueuesMade' BY <1>1, <1>2, <1>3, <1>4, <1>5, <1>7 DEF QueuesMade, QueueView
<1>17. CvSleepersHoldNoLock'
  BY <1>1, <1>2, <1>3, <1>4, <1>5, <1>7 DEF CvSleepersHoldNoLock, QueueView, Obj
<1> QED BY <1>6, <1>9, <1>10, <1>11, <1>12, <1>13, <1>14, <1>15, <1>16, <1>17 DEF RestInv

\* thread_kill only marks its victim, which is not the caller.
LEMMA KillStep ==
    ASSUME IInv, TypeOK', NEW i \in Tid, thread_kill(i)
    PROVE  OneQueueEach' /\ RestInv'
<1> USE DEF IInv
<1> DEFINE v == threads[i]
<1>1. Active /\ Active' /\ mode = "run" /\ pc[Cur] = "user"
  BY UserModes DEF thread_kill, Active, InUserCode
<1>2. UNCHANGED <<tid, pc, want, rq, eq, threads, waitq, wq, made, locked, owner, holder, mode>>
  BY DEF thread_kill, lockVars
<1>3. Cur \in TCB /\ Cur \in Range(rq) /\ Cur \in Live /\ Cur \notin Sleepers BY <1>1, RunningFacts
<1>4. QueueView BY <1>1, ViewNow
<1>5. Live' = Live /\ Sleepers' = Sleepers /\ Cur' = Cur
  BY <1>2 DEF Live, Sleepers, Cur
<1>6. OneQueueEach'
  <2>1. QueuesApart(rq', eq', waitq', wq', threads') BY <1>1, <1>2, ViewNow
  <2> QED BY <2>1, ViewNext
<1>7. v \in TCB /\ v \in Live BY <1>4 DEF thread_kill, QueueView, TypeOK
<1>8. v # Cur BY <1>1, <1>3, <1>7 DEF thread_kill, TableExact
<1>9. status'[v] = "EXITED" /\ \A t \in TCB \ {v} : status'[t] = status[t]
  BY <1>7 DEF thread_kill, TypeOK
<1> HIDE DEF v
<1>10. TableExact' BY <1>1, <1>2, <1>4, <1>5, <1>7, <1>9 DEF TableExact, QueueView
<1>11. StatusMatchesQueue' BY <1>1, <1>2, <1>4, <1>5, <1>7, <1>9 DEF StatusMatchesQueue, QueueView
<1>12. RunningStatus' BY <1>1, <1>2, <1>3, <1>5, <1>8, <1>9 DEF RunningStatus
<1>13. FreedOnce' BY <1>1, <1>2, <1>4, <1>5, <1>7, <1>9 DEF FreedOnce, QueueView
<1>14. WaitersHaveTarget' /\ JoinDone' BY <1>1, <1>2, <1>5 DEF WaitersHaveTarget, JoinDone
<1>15. HolderLives' /\ QueuesMade' /\ CvSleepersHoldNoLock'
  BY <1>1, <1>2, <1>5 DEF HolderLives, QueuesMade, CvSleepersHoldNoLock
<1> QED BY <1>6, <1>10, <1>11, <1>12, <1>13, <1>14, <1>15 DEF RestInv

\* Creating and destroying locks, condition variables and wait queues that
\* nobody sleeps in leaves all queues as they are.
LEMMA ObjectStep ==
    ASSUME IInv, TypeOK', ~DestroyBusy,
           \/ \E q \in WQ : wait_queue_create(q) \/ wait_queue_destroy(q)
           \/ \E l \in Lock : lock_create(l) \/ lock_destroy(l)
           \/ \E c \in CV : cv_create(c) \/ cv_destroy(c)
    PROVE  OneQueueEach' /\ RestInv'
<1> USE DEF IInv
<1>1. Active /\ Active'
  BY UserModes DEF wait_queue_create, wait_queue_destroy, lock_create, lock_destroy, cv_create,
     cv_destroy, Active
<1>2. UNCHANGED <<tid, pc, want, rq, eq, threads, waitq, mode, owner, holder>>
  BY DEF wait_queue_create, wait_queue_destroy, lock_create, lock_destroy, cv_create,
     cv_destroy, tcbVars
<1> DEFINE Empty(o) == /\ wq[o] = <<>>
                       /\ wq' \in {wq, [wq EXCEPT ![o] = <<>>]}
                       /\ \/ status' = status
                          \/ status' = [t \in TCB |-> IF t \in Range(wq[o]) THEN "FREE" ELSE status[t]]
           Create(o) == /\ made' = made \cup {o} /\ o \notin made
                        /\ \/ o \in Lock /\ locked' = [locked EXCEPT ![o] = FALSE]
                           \/ o \notin Lock /\ locked' = locked
           Destroy(o) == /\ made' = made \ {o} /\ locked' = locked
                         /\ o \in Lock => /\ ~locked[o]
                                          /\ \A t \in TCB : status[t] # "FREE" /\ pc[t] = "acquire"
                                                 /\ want[t] = o => t \in Range(wq[o])
<1>3. PICK o \in Obj : Empty(o) /\ (Create(o) \/ Destroy(o))
  <2>1. ASSUME NEW q \in WQ, wait_queue_create(q) \/ wait_queue_destroy(q) PROVE q \in Obj /\ Empty(q) /\ (Create(q) \/ Destroy(q))
    <3>1. q \in Obj /\ q \notin Lock BY ConstantsAssumption DEF Obj
    <3> QED BY <2>1, <3>1 DEF wait_queue_create, wait_queue_destroy, tcbVars, QueuesMade
  <2>2. ASSUME NEW l \in Lock, lock_create(l) \/ lock_destroy(l) PROVE l \in Obj /\ Empty(l) /\ (Create(l) \/ Destroy(l))
    <3>1. l \in Obj BY DEF Obj
    <3> QED BY <2>2, <3>1
            DEF lock_create, lock_destroy, tcbVars, QueuesMade, FreeLockNoSleepers
  <2>3. ASSUME NEW c \in CV, cv_create(c) \/ cv_destroy(c) PROVE c \in Obj /\ Empty(c) /\ (Create(c) \/ Destroy(c))
    <3>1. c \in Obj /\ c \notin Lock BY ConstantsAssumption DEF Obj
    <3> QED BY <2>3, <3>1 DEF cv_create, cv_destroy, tcbVars, QueuesMade
  <2> HIDE DEF Empty, Create, Destroy
  <2> QED BY <2>1, <2>2, <2>3
<1>4. wq' = wq /\ status' = status BY <1>3, EmptyQueue DEF TypeOK
<1>5. Live' = Live /\ Sleepers' = Sleepers /\ Cur' = Cur
  BY <1>2, <1>4 DEF Live, Sleepers, Cur
<1>6. QueueView BY <1>1, ViewNow
<1>7. OneQueueEach'
  <2>1. QueuesApart(rq', eq', waitq', wq', threads') BY <1>1, <1>2, <1>4, ViewNow
  <2> QED BY <2>1, ViewNext
<1>8. TableExact' /\ StatusMatchesQueue' /\ RunningStatus'
  BY <1>1, <1>2, <1>4, <1>5 DEF TableExact, StatusMatchesQueue, RunningStatus
<1>9. FreedOnce' /\ WaitersHaveTarget' /\ JoinDone' /\ CvSleepersHoldNoLock'
  BY <1>1, <1>2, <1>4, <1>5 DEF FreedOnce, WaitersHaveTarget, JoinDone, CvSleepersHoldNoLock
<1>10. HolderLives' BY <1>1, <1>2, <1>3, <1>5 DEF HolderLives, TypeOK
<1>11. QueuesMade'
  <2>1. \A p \in Obj \ made' : wq'[p] = <<>> BY <1>3, <1>4 DEF QueuesMade
  <2>2. ASSUME NEW t \in Live, pc[t] = "acquire" PROVE want[t] \in Lock \cap made'
    <3>1. t \in TCB /\ status[t] # "FREE" /\ want[t] \in Lock \cap made
      BY <1>1, <1>6, <2>2 DEF QueuesMade, TableExact, QueueView
    <3>2. t \notin Range(wq[o]) BY <1>3, EmptyQueue
    <3> QED BY <1>3, <2>2, <3>1, <3>2
  <2> QED BY <1>2, <1>5, <2>1, <2>2 DEF QueuesMade
<1> QED BY <1>7, <1>8, <1>9, <1>10, <1>11 DEF RestInv

\* One turn of the loop of clear_queue in thread_stub, first half.
LEMMA FreeNodeStep ==
    ASSUME IInv, TypeOK', stub_free_node
    PROVE  OneQueueEach' /\ RestInv'
<1> USE DEF IInv
<1>1. Active /\ mode = "run" /\ pc[Cur] = "clear" /\ mode' \in {"run", "ub"}
  BY DEF stub_free_node, Active
<1>2. UNCHANGED <<tid, want, rq, eq, threads, waitq, wq, made, locked, owner, holder>>
  BY DEF stub_free_node, lockVars
<1>3. Cur \in TCB /\ Cur \in Range(rq) /\ Cur \in Live /\ Cur \notin Sleepers BY <1>1, RunningFacts
<1>4. QueueView BY <1>1, ViewNow
<1>5. Live' = Live /\ Sleepers' = Sleepers /\ Cur' = Cur
  BY <1>2 DEF Live, Sleepers, Cur
<1>6. OneQueueEach'
  <2>1. QueuesApart(rq', eq', waitq', wq', threads') BY <1>1, <1>2, ViewNow
  <2> QED BY <2>1, ViewNext
<1>7. /\ eq # <<>> /\ Head(eq) \in TCB /\ Head(eq) \notin Live
      /\ status'[Head(eq)] = "FREE" /\ \A t \in TCB \ {Head(eq)} : status'[t] = status[t]
      /\ pc'[Cur] = "freed" /\ \A t \in TCB \ {Cur} : pc'[t] = pc[t]
  BY <1>3, <1>4 DEF stub_free_node, QueueView, TypeOK
<1>8. Active' => status[Head(eq)] # "FREE" BY DEF stub_free_node, Active
<1>9. TableExact' BY <1>1, <1>2, <1>4, <1>5, <1>7 DEF TableExact, QueueView
<1>10. StatusMatchesQueue'
  BY <1>1, <1>2, <1>4, <1>5, <1>7 DEF StatusMatchesQueue, QueueView, Active
<1>11. RunningStatus' BY <1>1, <1>3, <1>5, <1>7 DEF RunningStatus
<1>12. FreedOnce' BY <1>1, <1>2, <1>3, <1>4, <1>5, <1>7, <1>8 DEF FreedOnce, QueueView
<1>13. WaitersHaveTarget' BY <1>1, <1>2, <1>3, <1>4, <1>5, <1>7 DEF WaitersHaveTarget, QueueView
<1>14. JoinDone' BY <1>1, <1>2, <1>3, <1>4, <1>5, <1>7 DEF JoinDone, QueueView
<1>15. HolderLives' BY <1>1, <1>2, <1>5 DEF HolderLives
<1>16. QueuesMade' BY <1>1, <1>2, <1>4, <1>5, <1>7 DEF QueuesMade, QueueView
<1>17. CvSleepersHoldNoLock' BY <1>1, <1>2, <1>5 DEF CvSleepersHoldNoLock
<1> QED BY <1>6, <1>9, <1>10, <1>11, <1>12, <1>13, <1>14, <1>15, <1>16, <1>17 DEF RestInv

\* One turn of the loop of clear_queue in thread_stub, second half.
LEMMA NextNodeStep ==
    ASSUME IInv, TypeOK', stub_next_node
    PROVE  OneQueueEach' /\ RestInv'
<1> USE DEF IInv
<1>1. Active /\ Active' /\ mode = "run" /\ pc[Cur] = "freed" /\ mode' = "run"
  BY DEF stub_next_node, Active
<1>2. UNCHANGED <<status, tid, want, rq, threads, waitq, wq, made, locked, owner, holder>>
  BY DEF stub_next_node, lockVars
<1>3. Cur \in TCB /\ Cur \in Range(rq) /\ Cur \in Live /\ Cur \notin Sleepers BY <1>1, RunningFacts
<1>4. QueueView BY <1>1, ViewNow
<1>5. Live' = Live /\ Sleepers' = Sleepers /\ Cur' = Cur
  BY <1>2 DEF Live, Sleepers, Cur
<1>6. eq # <<>> /\ IsInjective(eq) /\ status[Head(eq)] = "FREE"
  BY <1>1, <1>3 DEF stub_next_node, FreedOnce, OneQueueEach
<1>7. Range(eq') = Range(eq) \ {Head(eq)} /\ IsInjective(eq')
  BY <1>6, TailQueue DEF stub_next_node, TypeOK
<1>8. OneQueueEach'
  <2>1. QueuesApart(rq, eq, waitq, wq, threads) BY <1>1, ViewNow
  <2>2. QueuesApart(rq, eq', waitq, wq, threads) BY <1>7, <2>1, ApartForget
  <2> QED BY <1>2, <2>2, ViewNext
<1>9. pc'[Cur] = "clear" /\ \A t \in TCB \ {Cur} : pc'[t] = pc[t]
  BY <1>3 DEF stub_next_node, TypeOK
<1>10. TableExact' BY <1>1, <1>2, <1>5, <1>6, <1>7 DEF TableExact
<1>11. StatusMatchesQueue' BY <1>1, <1>2, <1>5 DEF StatusMatchesQueue
<1>12. RunningStatus' BY <1>1, <1>2, <1>5 DEF RunningStatus
<1>13. FreedOnce' BY <1>1, <1>2, <1>3, <1>4, <1>5, <1>9 DEF FreedOnce, QueueView
<1>14. WaitersHaveTarget' BY <1>1, <1>2, <1>3, <1>4, <1>5, <1>9 DEF WaitersHaveTarget, QueueView
<1>15. JoinDone' BY <1>1, <1>2, <1>3, <1>4, <1>5, <1>9 DEF JoinDone, QueueView
<1>16. HolderLives' BY <1>1, <1>2, <1>5 DEF HolderLives
<1>17. QueuesMade' BY <1>1, <1>2, <1>4, <1>5, <1>9 DEF QueuesMade, QueueView
<1>18. CvSleepersHoldNoLock' BY <1>1, <1>2, <1>5 DEF CvSleepersHoldNoLock
<1> QED BY <1>8, <1>10, <1>11, <1>12, <1>13, <1>14, <1>15, <1>16, <1>17, <1>18 DEF RestInv

\* lock_acquire takes the lock, or cv_wait gives it up and does not sleep.
LEMMA LockStepLocal ==
    ASSUME IInv, TypeOK', NEW l \in Lock,
           \/ acquire_take(l)
           \/ \E c \in CV : cv_wait(c, l) /\ ~(Len(rq \o wq[l]) > 1)
    PROVE  OneQueueEach' /\ RestInv'
<1> USE DEF IInv
<1>1. Active /\ Active' /\ mode = "run" /\ mode' = "run"
      /\ pc[Cur] \in {"user", "acquire"}
  BY UserModes DEF acquire_take, cv_wait, Active, InUserCode, InLoop
<1>2. UNCHANGED <<status, tid, rq, eq, threads, waitq, wq, made>>
  BY DEF acquire_take, cv_wait
<1>3. Cur \in TCB /\ Cur \in Range(rq) /\ Cur \in Live /\ Cur \notin Sleepers BY <1>1, RunningFacts
<1>4. QueueView BY <1>1, ViewNow
<1>5. Live' = Live /\ Sleepers' = Sleepers /\ Cur' = Cur
  BY <1>2 DEF Live, Sleepers, Cur
<1>6. OneQueueEach'
  <2>1. QueuesApart(rq', eq', waitq', wq', threads') BY <1>1, <1>2, ViewNow
  <2> QED BY <2>1, ViewNext
<1>7. /\ pc'[Cur] \in {"user", "acquire"} /\ (pc'[Cur] = "acquire" => want'[Cur] \in Lock \cap made)
      /\ \A t \in TCB \ {Cur} : pc'[t] = pc[t] /\ want'[t] = want[t]
  BY <1>3 DEF acquire_take, cv_wait, OwnsLock, TypeOK
<1>8. /\ \A k \in Lock \ {l} : locked'[k] = locked[k] /\ holder'[k] = holder[k] /\ owner'[k] = owner[k]
      /\ l \in made
      /\ \/ locked'[l] /\ holder'[l] = Cur /\ owner'[l] = tid[Cur]
         \/ ~locked'[l] /\ holder'[l] = NULL
  <2>1. CASE acquire_take(l)
    <3>1. l \in made BY <1>1, <1>3, <2>1 DEF acquire_take, InLoop, QueuesMade
    <3> QED BY <2>1, <3>1 DEF acquire_take, TypeOK
  <2>2. ASSUME NEW c \in CV, cv_wait(c, l) PROVE <1>8
    BY <2>2 DEF cv_wait, OwnsLock, TypeOK
  <2> QED BY <2>1, <2>2
<1>9. TableExact' /\ StatusMatchesQueue' /\ RunningStatus'
  BY <1>1, <1>2, <1>5 DEF TableExact, StatusMatchesQueue, RunningStatus
<1>10. FreedOnce' BY <1>1, <1>2, <1>3, <1>4, <1>5, <1>7 DEF FreedOnce, QueueView
<1>11. WaitersHaveTarget' BY <1>1, <1>2, <1>3, <1>4, <1>5, <1>7 DEF WaitersHaveTarget, QueueView
<1>12. JoinDone' BY <1>1, <1>2, <1>3, <1>4, <1>5, <1>7 DEF JoinDone, QueueView
<1>13. HolderLives' BY <1>1, <1>2, <1>3, <1>5, <1>8, ConstantsAssumption DEF HolderLives
<1>14. QueuesMade' BY <1>1, <1>2, <1>3, <1>4, <1>5, <1>7 DEF QueuesMade, QueueView
<1>15. CvSleepersHoldNoLock'
  BY <1>1, <1>2, <1>3, <1>4, <1>5, <1>7, <1>8, ConstantsAssumption DEF CvSleepersHoldNoLock, QueueView, Obj
<1> QED BY <1>6, <1>9, <1>10, <1>11, <1>12, <1>13, <1>14, <1>15 DEF RestInv

-----------------------------------------------------------------------------
(* The steps that move threads between the queues. *)

\* The common end of thread_yield, when the ready queue is only permuted.
LEMMA SwitchStep ==
    ASSUME IInv, TypeOK', mode = "run",
           NEW q, switch_to(q), IsInjective(q), Range(q) = Range(rq)
    PROVE  OneQueueEach' /\ RestInv'
<1> USE DEF IInv
<1>1. Active /\ Active' /\ mode' = "switch" BY DEF switch_to, Active
<1>2. UNCHANGED <<tid, pc, want, eq, threads, waitq, wq, made, locked, owner, holder>>
  BY DEF switch_to, lockVars
<1>3. Cur \in TCB /\ Cur \in Range(rq) /\ Cur \in Live /\ Cur \notin Sleepers BY <1>1, RunningFacts
<1>4. QueueView BY <1>1, ViewNow
<1>5. Live' = Live /\ Sleepers' = Sleepers /\ Range(rq') = Range(rq)
  BY <1>2 DEF Live, Sleepers, switch_to
<1>6. OneQueueEach'
  <2>1. QueuesApart(rq, eq, waitq, wq, threads) BY <1>1, ViewNow
  <2>2. QueuesApart(q, eq, waitq, wq, threads) BY <2>1, ApartPermute
  <2>3. QueuesApart(rq', eq', waitq', wq', threads') BY <1>2, <2>2 DEF switch_to
  <2> QED BY <2>3, ViewNext
<1>7. /\ \A t \in TCB \ {Cur} : status'[t] = status[t]
      /\ status'[Cur] = IF status[Cur] = "EXITED" THEN "EXITED" ELSE "READY"
  BY <1>3 DEF switch_to, set_thread_status, TypeOK
<1>8. TableExact' BY <1>1, <1>2, <1>3, <1>4, <1>5, <1>7 DEF TableExact, QueueView
<1>9. StatusMatchesQueue'
  BY <1>1, <1>2, <1>3, <1>4, <1>5, <1>7 DEF StatusMatchesQueue, QueueView
<1>10. RunningStatus' BY <1>1 DEF RunningStatus
<1>11. FreedOnce' BY <1>1, <1>2, <1>3, <1>4, <1>5, <1>7 DEF FreedOnce, QueueView
<1>12. WaitersHaveTarget' /\ JoinDone' BY <1>1, <1>2, <1>5 DEF WaitersHaveTarget, JoinDone
<1>13. HolderLives' /\ QueuesMade' /\ CvSleepersHoldNoLock'
  BY <1>1, <1>2, <1>5 DEF HolderLives, QueuesMade, CvSleepersHoldNoLock
<1> QED BY <1>6, <1>8, <1>9, <1>10, <1>11, <1>12, <1>13 DEF RestInv

\* move_head_to_end permutes a queue.
LEMMA RotatePermutes ==
    ASSUME NEW S, NEW q \in Seq(S), q # <<>>, IsInjective(q)
    PROVE  /\ move_head_to_end(q) \in Seq(S) /\ Len(move_head_to_end(q)) = Len(q)
           /\ IsInjective(move_head_to_end(q))
           /\ Range(move_head_to_end(q)) = Range(q)
<1>1. Head(q) \in S /\ Tail(q) \in Seq(S) BY TailType
<1>2. move_head_to_end(q) = Append(Tail(q), Head(q)) BY <1>1 DEF move_head_to_end
<1>3. /\ Range(Tail(q)) = Range(q) \ {Head(q)} /\ IsInjective(Tail(q)) /\ Head(q) \in Range(q)
  BY TailQueue
<1> DEFINE p == Tail(q)
           x == Head(q)
<1> HIDE DEF p, x
<1>4. /\ Append(p, x) \in Seq(S) /\ Range(Append(p, x)) = Range(p) \cup {x}
      /\ IsInjective(Append(p, x))
  <2>1. p \in Seq(S) /\ x \in S /\ IsInjective(p) /\ x \notin Range(p) BY <1>1, <1>3 DEF p, x
  <2> QED BY <2>1, AppendQueue
<1>5. Range(Append(p, x)) = Range(q) BY <1>3, <1>4 DEF p, x
<1> QED BY <1>2, <1>4, <1>5, RotateType DEF p, x

\* move_to_head permutes a queue.
LEMMA MovePermutes ==
    ASSUME NEW S, NEW q \in Seq(S), IsInjective(q), NEW i \in 1 .. Len(q)
    PROVE  IsInjective(move_to_head(q, i)) /\ Range(move_to_head(q, i)) = Range(q)
<1>1. /\ RemoveAt(q, i) \in Seq(S) /\ Range(RemoveAt(q, i)) = Range(q) \ {q[i]}
      /\ IsInjective(RemoveAt(q, i)) /\ q[i] \in Range(q) /\ q[i] \in S
  BY RemoveQueue
<1>2. <<q[i]>> \in Seq(S) /\ Range(<<q[i]>>) = {q[i]} /\ IsInjective(<<q[i]>>)
  BY <1>1 DEF Range, IsInjective
<1> DEFINE p == <<q[i]>>
           r == RemoveAt(q, i)
<1>3. move_to_head(q, i) = p \o r BY DEF move_to_head
<1> HIDE DEF p, r
<1>4. p \in Seq(S) /\ r \in Seq(S) /\ IsInjective(p) /\ IsInjective(r)
  BY <1>1, <1>2 DEF p, r
<1>5. Range(p) \cap Range(r) = {} /\ Range(p) \cup Range(r) = Range(q) BY <1>1, <1>2 DEF p, r
<1>6. IsInjective(p \o r) BY <1>4, <1>5, ConcatQueue
<1>7. Range(p \o r) = Range(p) \cup Range(r) BY <1>4, ConcatQueue
<1> QED BY <1>3, <1>5, <1>6, <1>7

\* thread_yield and the timer's interrupt only permute the ready queue.
LEMMA YieldStep ==
    ASSUME IInv, TypeOK',
           \/ thread_yield_any \/ thread_yield_self \/ interrupt_handler
           \/ \E k \in Tid : thread_yield_tid(k)
    PROVE  OneQueueEach' /\ RestInv'
<1>1. mode = "run" /\ Active
  BY UserModes DEF thread_yield_any, thread_yield_self, interrupt_handler, thread_yield_tid, Active
<1>2. rq \in Seq(TCB) /\ rq # <<>> /\ IsInjective(rq)
  BY <1>1, RunningFacts DEF IInv, OneQueueEach
<1>3. CASE thread_yield_self BY <1>1, <1>2, <1>3, SwitchStep DEF thread_yield_self
<1>4. CASE thread_yield_any \/ interrupt_handler
  BY <1>1, <1>2, <1>4, RotatePermutes, SwitchStep DEF thread_yield_any, interrupt_handler
<1>5. ASSUME NEW k \in Tid, thread_yield_tid(k) PROVE OneQueueEach' /\ RestInv'
  <2>1. PICK i \in 2 .. Len(rq) : switch_to(move_to_head(move_head_to_end(rq), i - 1))
    BY <1>5 DEF thread_yield_tid
  <2> DEFINE q == move_head_to_end(rq)
  <2>2. q \in Seq(TCB) /\ Len(q) = Len(rq) /\ IsInjective(q) /\ Range(q) = Range(rq)
    BY <1>2, RotatePermutes
  <2>3. i - 1 \in 1 .. Len(q) BY <1>2, <2>2
  <2> HIDE DEF q
  <2>4. IsInjective(move_to_head(q, i - 1)) /\ Range(move_to_head(q, i - 1)) = Range(rq)
    BY <2>2, <2>3, MovePermutes
  <2> QED BY <1>1, <2>1, <2>4, SwitchStep DEF q
<1> QED BY <1>3, <1>4, <1>5

\* thread_wakeup moves some threads of one wait queue to the ready queue.
LEMMA WakeMoves ==
    ASSUME IInv, Active, NEW o \in Obj, wakeup_all(o) \/ wakeup_one(o),
           UNCHANGED <<eq, threads, waitq>>
    PROVE  /\ QueuesApart(rq', eq', waitq', wq', threads')
           /\ Cur' = Cur
           /\ \E M \in SUBSET Range(wq[o]) :
                /\ Range(rq') = Range(rq) \cup M
                /\ Range(wq'[o]) = Range(wq[o]) \ M
                /\ status' = set_thread_status(status, M, "READY")
           /\ \A p \in Obj \ {o} : wq'[p] = wq[p]
<1> USE DEF IInv
<1>1. /\ QueueTypes(rq, eq, waitq, wq, threads) /\ QueuesApart(rq, eq, waitq, wq, threads)
      /\ rq \in Seq(TCB) /\ rq # <<>> /\ wq \in [Obj -> Seq(TCB)]
      /\ wq[o] \in Seq(TCB) /\ IsInjective(wq[o])
  BY ViewNow, RunningFacts DEF TypeOK, OneQueueEach
<1>2. CASE wakeup_all(o)
  <2>1. QueuesApart(rq', eq', waitq', wq', threads')
    <3>1. QueuesApart(rq', eq, waitq, wq', threads) BY <1>1, <1>2, ApartWakeAll DEF wakeup_all
    <3> QED BY <3>1
  <2>2. Range(rq') = Range(rq) \cup Range(wq[o]) /\ Head(rq') = Head(rq)
    BY <1>1, <1>2, ConcatQueue DEF wakeup_all
  <2>3. wq'[o] = <<>> /\ \A p \in Obj \ {o} : wq'[p] = wq[p]
    BY <1>1, <1>2 DEF wakeup_all
  <2>4. status' = set_thread_status(status, Range(wq[o]), "READY") BY <1>2 DEF wakeup_all
  <2>5. Range(wq'[o]) = Range(wq[o]) \ Range(wq[o]) BY <2>3, EmptyQueue
  <2> QED BY <2>1, <2>2, <2>3, <2>4, <2>5 DEF Cur
<1>3. CASE wakeup_one(o)
  <2> DEFINE h == Head(wq[o])
  <2>1. QueuesApart(rq', eq', waitq', wq', threads')
    <3>1. QueuesApart(rq', eq, waitq, wq', threads) BY <1>1, <1>3, ApartWakeOne DEF wakeup_one
    <3> QED BY <3>1
  <2>2. h \in Range(wq[o]) /\ h \in TCB /\ Range(Tail(wq[o])) = Range(wq[o]) \ {h}
    BY <1>1, <1>3, TailQueue, TailType DEF wakeup_one
  <2>3. Range(rq') = Range(rq) \cup {h} /\ Head(rq') = Head(rq)
    BY <1>1, <1>3, <2>2, AppendQueue DEF wakeup_one
  <2>4. wq'[o] = Tail(wq[o]) /\ \A p \in Obj \ {o} : wq'[p] = wq[p]
    BY <1>1, <1>3 DEF wakeup_one
  <2>5. status' = set_thread_status(status, {h}, "READY") BY <1>3 DEF wakeup_one
  <2> HIDE DEF h
  <2> QED BY <2>1, <2>2, <2>3, <2>4, <2>5 DEF Cur
<1> QED BY <1>2, <1>3

\* thread_wakeup, cv_signal, cv_broadcast, and lock_release, which gives the lock up too.
LEMMA WakeStep ==
    ASSUME IInv, TypeOK', InUserCode, NEW o \in Obj, o \in made, wakeup_all(o) \/ wakeup_one(o),
           UNCHANGED <<tid, pc, want, eq, threads, waitq, made, owner, mode>>,
           \/ UNCHANGED <<locked, holder>>
           \/ \E l \in Lock : /\ locked' = [locked EXCEPT ![l] = FALSE]
                              /\ holder' = [holder EXCEPT ![l] = NULL]
    PROVE  OneQueueEach' /\ RestInv'
<1> USE DEF IInv
<1>1. Active /\ Active' /\ mode = "run" /\ mode' = "run" /\ pc[Cur] = "user"
  BY UserModes DEF Active, InUserCode
<1>2. Cur \in TCB /\ Cur \in Range(rq) /\ Cur \in Live /\ Cur \notin Sleepers BY <1>1, RunningFacts
<1>3. QueueView BY <1>1, ViewNow
<1>4. /\ QueuesApart(rq', eq', waitq', wq', threads')
      /\ Cur' = Cur
      /\ \A p \in Obj \ {o} : wq'[p] = wq[p]
  BY <1>1, WakeMoves
<1>5. PICK M \in SUBSET Range(wq[o]) :
        /\ Range(rq') = Range(rq) \cup M
        /\ Range(wq'[o]) = Range(wq[o]) \ M
        /\ status' = set_thread_status(status, M, "READY")
  BY <1>1, WakeMoves
<1>6. OneQueueEach' /\ QueueView' BY <1>4, ViewNext
<1>7. /\ \A t \in M : t \in TCB /\ t \in Sleepers /\ t \in Live /\ t # Cur
      /\ \A t \in TCB : status'[t] = IF t \in M /\ status[t] # "EXITED" THEN "READY" ELSE status[t]
  BY <1>2, <1>3, <1>5 DEF QueueView, set_thread_status
<1>8. Live' = Live BY DEF Live
<1>9. \A t \in Sleepers' : t \in Sleepers /\ t \notin M
  BY <1>3, <1>4, <1>5, <1>6 DEF QueueView
<1>10. TableExact' BY <1>1, <1>3, <1>7, <1>8 DEF TableExact, QueueView
<1>11. StatusMatchesQueue'
  <2>1. ASSUME NEW t \in Range(rq')
        PROVE  /\ status'[t] \in {"RUNNING", "READY", "EXITED"}
               /\ status'[t] = "RUNNING" => t = Cur
    <3>1. CASE t \in M
      BY <1>1, <1>7, <3>1 DEF StatusMatchesQueue
    <3>2. CASE t \notin M BY <1>1, <1>3, <1>5, <1>7, <2>1, <3>2 DEF StatusMatchesQueue, QueueView
    <3> QED BY <3>1, <3>2
  <2>2. ASSUME NEW t \in Sleepers' PROVE status'[t] \in {"BLOCKED", "EXITED"}
    BY <1>1, <1>3, <1>7, <1>9 DEF StatusMatchesQueue, QueueView
  <2> QED BY <1>1, <1>4, <2>1, <2>2 DEF StatusMatchesQueue
<1>12. RunningStatus' BY <1>1, <1>2, <1>4, <1>7 DEF RunningStatus
<1>13. FreedOnce' BY <1>1, <1>2, <1>3, <1>4, <1>7, <1>8 DEF FreedOnce, QueueView
<1>14. WaitersHaveTarget' BY <1>1 DEF WaitersHaveTarget
<1>15. JoinDone' BY <1>1, <1>4, <1>5, <1>8 DEF JoinDone
<1>16. HolderLives' BY <1>1, <1>8, ConstantsAssumption, ZenonT(30) DEF HolderLives, TypeOK
<1>17. QueuesMade' BY <1>1, <1>4, <1>8 DEF QueuesMade
<1>18. CvSleepersHoldNoLock'
  <2>1. ASSUME NEW c \in CV, NEW t \in Range(wq'[c]) PROVE want[t] \in Lock /\ holder'[want[t]] # t
    <3>1. c \in Obj /\ t \in Range(wq[c]) BY <1>4, <1>5, <2>1 DEF Obj
    <3>2. t \in TCB /\ want[t] \in Lock /\ holder[want[t]] # t
      BY <1>1, <1>3, <3>1 DEF CvSleepersHoldNoLock, QueueView
    <3> QED BY <3>2, ConstantsAssumption DEF TypeOK
  <2> QED BY <2>1 DEF CvSleepersHoldNoLock
<1> QED BY <1>6, <1>10, <1>11, <1>12, <1>13, <1>14, <1>15, <1>16, <1>17, <1>18 DEF RestInv

\* The common part of thread_sleep: the running thread leaves the ready queue
\* and blocks, after it has woken the threads in M.
LEMMA BlockStep ==
    ASSUME IInv, TypeOK', mode = "run", mode' = "switch", pc[Cur] \in {"user", "acquire"},
           QueuesApart(rq', eq', waitq', wq', threads'),
           UNCHANGED <<tid, eq, threads>>,
           NEW M \in SUBSET Sleepers, \A t \in M : pc[t] # "join",
           Range(rq') = (Range(rq) \cup M) \ {Cur},
           status' = set_thread_status(set_thread_status(status, M, "READY"), {Cur}, "BLOCKED"),
           NEW p \in {"user", "acquire", "join"}, pc' = [pc EXCEPT ![Cur] = p],
           NEW w, want' = [want EXCEPT ![Cur] = w],
           \A o \in Obj : \A t \in Range(wq'[o]) : t \in Range(wq[o]) \/ (t = Cur /\ p # "join")
    PROVE  /\ OneQueueEach' /\ QueueView' /\ Live' = Live /\ Active' /\ Cur \in TCB
           /\ \A t \in TCB \ {Cur} : pc'[t] = pc[t] /\ want'[t] = want[t]
           /\ pc'[Cur] = p /\ want'[Cur] = w
           /\ TableExact' /\ StatusMatchesQueue' /\ RunningStatus' /\ FreedOnce' /\ JoinDone'
<1> USE DEF IInv
<1>1. Active /\ Active' BY DEF Active
<1>2. Cur \in TCB /\ Cur \in Range(rq) /\ Cur \in Live /\ Cur \notin Sleepers BY <1>1, RunningFacts
<1>3. QueueView BY <1>1, ViewNow
<1>4. OneQueueEach' /\ QueueView' BY ViewNext
<1>5. Live' = Live BY DEF Live
<1>6. /\ \A t \in TCB \ {Cur} : pc'[t] = pc[t] /\ want'[t] = want[t]
      /\ pc'[Cur] = p /\ want'[Cur] = w
  BY <1>2 DEF TypeOK
<1>7. /\ M \subseteq TCB /\ Cur \notin M
      /\ status'[Cur] \in {"BLOCKED", "EXITED"}
      /\ \A t \in M : status'[t] \in {"READY", "EXITED"}
      /\ \A t \in TCB \ (M \cup {Cur}) : status'[t] = status[t]
  BY <1>2, <1>3 DEF set_thread_status, QueueView
<1>8. TableExact'
  <2>1. \A t \in M : t \in Live BY <1>3 DEF QueueView
  <2>2. \A t \in TCB : /\ t \in Live => status'[t] # "FREE" /\ threads[tid[t]] = t
                       /\ status'[t] # "FREE" => t \in Live \cup Range(eq)
    BY <1>1, <1>2, <1>7, <2>1 DEF TableExact
  <2> QED BY <1>1, <1>5, <2>2 DEF TableExact
<1>9. StatusMatchesQueue'
  <2>1. ASSUME NEW t \in Range(rq') PROVE status'[t] \in {"READY", "EXITED"}
    BY <1>1, <1>3, <1>7, ZenonT(30) DEF StatusMatchesQueue, QueueView
  <2>2. ASSUME NEW t \in Sleepers' PROVE status'[t] \in {"BLOCKED", "EXITED"}
    <3>1. t \in TCB /\ t \notin M /\ (t = Cur \/ t \in Sleepers)
      BY <1>2, <1>3, <1>4, <1>5 DEF QueueView
    <3> QED BY <1>1, <1>7, <3>1 DEF StatusMatchesQueue
  <2> QED BY <2>1, <2>2 DEF StatusMatchesQueue
<1>10. RunningStatus' BY DEF RunningStatus
<1>11. FreedOnce'
  <2>1. ~(mode' = "run") OBVIOUS
  <2>2. \A t \in Live : pc'[t] = "freed" => pc[t] = "freed" BY <1>3, <1>6 DEF QueueView
  <2>3. eq # <<>> /\ status[Head(eq)] = "FREE" => status'[Head(eq)] = "FREE"
    BY <1>2, <1>3, <1>7 DEF QueueView
  <2> QED BY <1>1, <1>5, <2>1, <2>2, <2>3 DEF FreedOnce
<1>12. JoinDone'
  <2>1. \A t \in Range(rq') : pc'[t] = "join" => want'[t] \notin Live'
    BY <1>1, <1>3, <1>5, <1>6, <1>7 DEF JoinDone, QueueView
  <2>2. \A o \in Obj : \A t \in Range(wq'[o]) : pc'[t] # "join"
    BY <1>1, <1>2, <1>3, <1>6 DEF JoinDone, QueueView
  <2> QED BY <2>1, <2>2 DEF JoinDone
<1> QED BY <1>1, <1>2, <1>4, <1>5, <1>6, <1>8, <1>9, <1>10, <1>11, <1>12

\* Waking nobody changes no status.
LEMMA NobodyWoken == ASSUME NEW st \in [TCB -> Statuses] PROVE set_thread_status(st, {}, "READY") = st
  BY DEF set_thread_status

\* thread_sleep in a queue of the client, or in the queue of a lock.
LEMMA SleepStep ==
    ASSUME IInv, TypeOK', NEW o \in Obj, NEW p \in {"user", "acquire"}, NEW w,
           \/ o \in WQ /\ thread_sleep(o) /\ p = "user" /\ w = NULL
           \/ o \in Lock /\ acquire_sleep(o) /\ p = "acquire" /\ w = o
    PROVE  OneQueueEach' /\ RestInv'
<1> USE DEF IInv
<1>1. /\ mode = "run" /\ mode' = "switch" /\ pc[Cur] \in {"user", "acquire"} /\ Active
      /\ Len(rq) > 1 /\ block(rq, status, p, w)
      /\ wq' = [wq EXCEPT ![o] = Append(@, Cur)]
      /\ UNCHANGED <<tid, eq, threads, waitq, made, locked, owner, holder>>
  BY DEF thread_sleep, acquire_sleep, block, lockVars, InUserCode, InLoop, Active
<1>2. o \in made /\ (p = "acquire" => w \in Lock \cap made)
  <2>1. CASE thread_sleep(o) /\ p = "user" BY <2>1 DEF thread_sleep
  <2>2. CASE o \in Lock /\ acquire_sleep(o) /\ w = o
    BY <1>1, <2>2, RunningFacts DEF acquire_sleep, InLoop, QueuesMade
  <2> QED BY <2>1, <2>2
<1>3. /\ rq \in Seq(TCB) /\ rq # <<>> /\ IsInjective(rq)
      /\ Cur \in TCB /\ Cur \notin Sleepers
      /\ QueueView /\ QueueTypes(rq, eq, waitq, wq, threads) /\ QueuesApart(rq, eq, waitq, wq, threads)
  BY <1>1, ViewNow, RunningFacts DEF OneQueueEach
<1>4. QueuesApart(rq', eq', waitq', wq', threads')
  <2>1. QueuesApart(rq', eq, waitq, wq', threads) BY <1>1, <1>3, ApartSleep DEF block, Cur
  <2> QED BY <1>1, <2>1
<1>5. Range(rq') = Range(rq) \ {Cur} BY <1>1, <1>3, TailQueue DEF block, Cur
<1>6. status' = set_thread_status(set_thread_status(status, {}, "READY"), {Cur}, "BLOCKED")
  BY <1>1, NobodyWoken DEF block, TypeOK
<1>7. /\ Range(wq'[o]) = Range(wq[o]) \cup {Cur} /\ wq'[o] # <<>>
      /\ \A q \in Obj \ {o} : wq'[q] = wq[q]
  <2>1. wq[o] \in Seq(TCB) BY DEF TypeOK
  <2>2. wq'[o] = Append(wq[o], Cur) /\ \A q \in Obj \ {o} : wq'[q] = wq[q] BY <1>1 DEF TypeOK
  <2> QED BY <1>3, <2>1, <2>2, AppendQueue, SMTT(30)
<1>8. /\ OneQueueEach' /\ QueueView' /\ Live' = Live /\ Active'
      /\ \A t \in TCB \ {Cur} : pc'[t] = pc[t] /\ want'[t] = want[t]
      /\ pc'[Cur] = p /\ want'[Cur] = w
      /\ TableExact' /\ StatusMatchesQueue' /\ RunningStatus' /\ FreedOnce' /\ JoinDone'
  <2>1. pc' = [pc EXCEPT ![Cur] = p] /\ want' = [want EXCEPT ![Cur] = w] BY <1>1 DEF block
  <2>2. \A q \in Obj : \A t \in Range(wq'[q]) : t \in Range(wq[q]) \/ (t = Cur /\ p # "join")
    BY <1>7
  <2>3. {} \in SUBSET Sleepers /\ Range(rq') = (Range(rq) \cup {}) \ {Cur}
        /\ (\A t \in {} : pc[t] # "join") /\ p \in {"user", "acquire", "join"}
    BY <1>5
  <2> QED BY <1>1, <1>4, <1>6, <2>1, <2>2, <2>3, BlockStep
<1>9. WaitersHaveTarget' BY <1>1, <1>3, <1>8 DEF WaitersHaveTarget, QueueView
<1>10. HolderLives' BY <1>1, <1>8 DEF HolderLives
<1>11. QueuesMade' BY <1>1, <1>2, <1>3, <1>7, <1>8 DEF QueuesMade, QueueView
<1>12. CvSleepersHoldNoLock'
  <2>1. o \notin CV BY ConstantsAssumption
  <2> QED BY <1>1, <1>3, <1>7, <1>8, <2>1 DEF CvSleepersHoldNoLock, QueueView, Obj
<1> QED BY <1>8, <1>9, <1>10, <1>11, <1>12 DEF RestInv

\* thread_wait that sleeps.
LEMMA JoinStep ==
    ASSUME IInv, TypeOK', NEW i \in Tid, thread_wait(i), Len(rq) > 1
    PROVE  OneQueueEach' /\ RestInv'
<1> USE DEF IInv
<1>1. /\ mode = "run" /\ mode' = "switch" /\ pc[Cur] \in {"user", "acquire"} /\ Active
      /\ threads[i] # NULL /\ i # tid[Cur] /\ block(rq, status, "join", threads[i])
      /\ waitq' = [waitq EXCEPT ![i] = Append(@, Cur)]
      /\ UNCHANGED <<tid, eq, threads, wq, made, locked, owner, holder>>
  BY DEF thread_wait, block, lockVars, InUserCode, Active
<1>2. /\ rq \in Seq(TCB) /\ rq # <<>> /\ IsInjective(rq)
      /\ Cur \in TCB /\ Cur \notin Sleepers
      /\ QueueView /\ QueueTypes(rq, eq, waitq, wq, threads) /\ QueuesApart(rq, eq, waitq, wq, threads)
  BY <1>1, ViewNow, RunningFacts DEF OneQueueEach
<1>3. QueuesApart(rq', eq', waitq', wq', threads')
  <2>1. QueuesApart(rq', eq, waitq', wq, threads) BY <1>1, <1>2, ApartJoin DEF block, Cur
  <2> QED BY <1>1, <2>1
<1>4. Range(rq') = Range(rq) \ {Cur} BY <1>1, <1>2, TailQueue DEF block, Cur
<1>5. status' = set_thread_status(set_thread_status(status, {}, "READY"), {Cur}, "BLOCKED")
  BY <1>1, NobodyWoken DEF block, TypeOK
<1>6. /\ Range(waitq'[i]) = Range(waitq[i]) \cup {Cur}
      /\ \A k \in Tid \ {i} : waitq'[k] = waitq[k]
  <2>1. waitq[i] \in Seq(TCB) BY DEF TypeOK
  <2>2. waitq'[i] = Append(waitq[i], Cur) /\ \A k \in Tid \ {i} : waitq'[k] = waitq[k] BY <1>1 DEF TypeOK
  <2> QED BY <1>2, <2>1, <2>2, AppendQueue
<1>7. /\ OneQueueEach' /\ QueueView' /\ Live' = Live /\ Active'
      /\ \A t \in TCB \ {Cur} : pc'[t] = pc[t] /\ want'[t] = want[t]
      /\ pc'[Cur] = "join" /\ want'[Cur] = threads[i]
      /\ TableExact' /\ StatusMatchesQueue' /\ RunningStatus' /\ FreedOnce' /\ JoinDone'
  <2>1. pc' = [pc EXCEPT ![Cur] = "join"] /\ want' = [want EXCEPT ![Cur] = threads[i]]
    BY <1>1 DEF block
  <2>2. \A q \in Obj : \A t \in Range(wq'[q]) : t \in Range(wq[q]) \/ (t = Cur /\ "join" # "join")
    BY <1>1
  <2>3. {} \in SUBSET Sleepers /\ Range(rq') = (Range(rq) \cup {}) \ {Cur}
        /\ (\A t \in {} : pc[t] # "join") /\ "join" \in {"user", "acquire", "join"}
    BY <1>4
  <2> QED BY <1>1, <1>3, <1>5, <2>1, <2>2, <2>3, BlockStep
<1>8. WaitersHaveTarget' BY <1>1, <1>2, <1>6, <1>7 DEF WaitersHaveTarget, QueueView
<1>9. HolderLives' BY <1>1, <1>7 DEF HolderLives
<1>10. QueuesMade' BY <1>1, <1>2, <1>7 DEF QueuesMade, QueueView
<1>11. CvSleepersHoldNoLock'
  BY <1>1, <1>2, <1>7 DEF CvSleepersHoldNoLock, QueueView, Obj
<1> QED BY <1>7, <1>8, <1>9, <1>10, <1>11 DEF RestInv

\* cv_wait that sleeps: it wakes all who sleep in lock_acquire and then sleeps itself.
LEMMA CvWaitStep ==
    ASSUME IInv, TypeOK', NEW c \in CV, NEW l \in Lock, cv_wait(c, l), Len(rq \o wq[l]) > 1
    PROVE  OneQueueEach' /\ RestInv'
<1> USE DEF IInv
<1> DEFINE q == rq \o wq[l]
           w1 == [wq EXCEPT ![l] = <<>>]
           M == Range(wq[l])
<1>1. /\ mode = "run" /\ mode' = "switch" /\ pc[Cur] \in {"user", "acquire"} /\ Active
      /\ c \in made /\ l \in made
      /\ locked' = [locked EXCEPT ![l] = FALSE] /\ holder' = [holder EXCEPT ![l] = NULL]
      /\ wq' = [wq EXCEPT ![l] = <<>>, ![c] = Append(@, Cur)]
      /\ rq' = Tail(q)
      /\ status' = set_thread_status(set_thread_status(status, M, "READY"), {Cur}, "BLOCKED")
      /\ pc' = [pc EXCEPT ![Cur] = "acquire"] /\ want' = [want EXCEPT ![Cur] = l]
      /\ UNCHANGED <<tid, eq, threads, waitq, made, owner>>
  BY DEF cv_wait, block, OwnsLock, InUserCode, Active
<1>2. /\ rq \in Seq(TCB) /\ rq # <<>> /\ IsInjective(rq)
      /\ Cur \in TCB /\ Cur \notin Sleepers /\ QueueView
      /\ QueueTypes(rq, eq, waitq, wq, threads) /\ QueuesApart(rq, eq, waitq, wq, threads)
  BY <1>1, ViewNow, RunningFacts DEF OneQueueEach
<1>3. c \in Obj /\ l \in Obj /\ c # l /\ wq \in [Obj -> Seq(TCB)] /\ wq[l] \in Seq(TCB)
  <2>1. c \in Obj /\ l \in Obj BY DEF Obj
  <2>2. c # l BY ConstantsAssumption
  <2> QED BY <2>1, <2>2 DEF TypeOK
<1>4. wq' = [w1 EXCEPT ![c] = Append(@, Cur)] BY <1>1, <1>3
<1>5. /\ w1 \in [Obj -> Seq(TCB)] /\ w1[l] = <<>>
      /\ \A p \in Obj \ {l} : w1[p] = wq[p]
  BY <1>3
<1>6. M \subseteq Sleepers /\ \A t \in M : pc[t] # "join" BY <1>1, <1>2, <1>3 DEF QueueView, JoinDone
<1>7. q \in Seq(TCB) /\ q # <<>> /\ Head(q) = Cur /\ Range(q) = Range(rq) \cup M
  BY <1>2, <1>3, ConcatQueue DEF Cur
<1>8. QueuesApart(q, eq, waitq, w1, threads) BY <1>2, <1>3, ApartWakeAll
<1> HIDE DEF q, w1, M
<1>9. Range(rq') = (Range(rq) \cup M) \ {Cur}
  <2>1. IsInjective(q) BY <1>8 DEF QueuesApart, NoDuplicates
  <2> QED BY <1>1, <1>7, <2>1, TailQueue
<1>10. QueuesApart(rq', eq', waitq', wq', threads')
  <2>1. QueueTypes(q, eq, waitq, w1, threads) BY <1>2, <1>5, <1>7 DEF QueueTypes
  <2>2. rq' = Tail(q) /\ wq' = [w1 EXCEPT ![c] = Append(@, Head(q))] BY <1>1, <1>4, <1>7
  <2>3. QueuesApart(rq', eq, waitq, wq', threads) BY <1>3, <1>7, <1>8, <2>1, <2>2, ApartSleep
  <2> QED BY <1>1, <2>3
<1>11. /\ Range(wq'[c]) = Range(wq[c]) \cup {Cur}
       /\ \A p \in Obj \ {c, l} : wq'[p] = wq[p]
       /\ Range(wq'[l]) = {}
  <2>1. wq'[c] = Append(wq[c], Cur) /\ wq[c] \in Seq(TCB) BY <1>3, <1>4, <1>5
  <2>2. wq'[l] = <<>> /\ \A p \in Obj \ {c, l} : wq'[p] = wq[p] BY <1>3, <1>4, <1>5
  <2> QED BY <1>2, <2>1, <2>2, AppendQueue, EmptyQueue
<1>12. /\ OneQueueEach' /\ QueueView' /\ Live' = Live /\ Active'
       /\ \A t \in TCB \ {Cur} : pc'[t] = pc[t] /\ want'[t] = want[t]
       /\ pc'[Cur] = "acquire" /\ want'[Cur] = l
       /\ TableExact' /\ StatusMatchesQueue' /\ RunningStatus' /\ FreedOnce' /\ JoinDone'
  <2>1. \A o \in Obj : \A t \in Range(wq'[o]) : t \in Range(wq[o]) \/ (t = Cur /\ "acquire" # "join")
    BY <1>11
  <2>2. M \in SUBSET Sleepers /\ "acquire" \in {"user", "acquire", "join"} BY <1>6
  <2> QED BY <1>1, <1>6, <1>9, <1>10, <2>1, <2>2, BlockStep
<1>13. WaitersHaveTarget' BY <1>1, <1>2, <1>12 DEF WaitersHaveTarget, QueueView
<1>14. HolderLives' BY <1>1, <1>12, ConstantsAssumption DEF HolderLives, TypeOK
<1>15. QueuesMade'
  <2>1. \A o \in Obj \ made' : wq'[o] = <<>> BY <1>1, <1>11 DEF QueuesMade
  <2>2. \A t \in Live : t \in TCB /\ (pc[t] = "acquire" => want[t] \in Lock \cap made)
    BY <1>1, <1>2 DEF QueuesMade, QueueView
  <2>3. \A t \in Live : pc'[t] = "acquire" => want'[t] \in Lock \cap made BY <1>1, <1>12, <2>2
  <2> QED BY <1>1, <1>12, <2>1, <2>3 DEF QueuesMade
<1>16. CvSleepersHoldNoLock'
  <2>1. ASSUME NEW d \in CV, NEW t \in Range(wq'[d]) PROVE want'[t] \in Lock /\ holder'[want'[t]] # t
    <3>1. holder'[l] = NULL /\ \A k \in Lock \ {l} : holder'[k] = holder[k] BY <1>1 DEF TypeOK
    <3>2. CASE t = Cur BY <1>2, <1>12, <3>1, <3>2, ConstantsAssumption
    <3>3. CASE t # Cur
      <4>1. d \in Obj /\ t \in Range(wq[d]) BY <1>11, <2>1, <3>3 DEF Obj
      <4>2. t \in TCB /\ want[t] \in Lock /\ holder[want[t]] # t
        BY <1>1, <1>2, <4>1 DEF CvSleepersHoldNoLock, QueueView
      <4> QED BY <1>12, <3>1, <3>3, <4>2, ConstantsAssumption
    <3> QED BY <3>2, <3>3
  <2> QED BY <2>1 DEF CvSleepersHoldNoLock
<1> QED BY <1>12, <1>13, <1>14, <1>15, <1>16 DEF RestInv

\* thread_create: no address that is still queued or named is given to the new thread.
LEMMA CreateStep ==
    ASSUME IInv, TypeOK', NEW n \in TCB, thread_create(n)
    PROVE  OneQueueEach' /\ RestInv'
<1> USE DEF IInv
<1>1. Active /\ Active' /\ mode = "run" /\ mode' = "run" /\ pc[Cur] = "user"
  BY UserModes DEF thread_create, Active, InUserCode
<1>2. PICK id \in Tid : /\ threads[id] = NULL
                        /\ tid' = [tid EXCEPT ![n] = id]
                        /\ threads' = [threads EXCEPT ![id] = n]
  BY DEF thread_create
<1>3. /\ status[n] = "FREE" /\ rq' = Append(rq, n)
      /\ UNCHANGED <<eq, waitq, wq, made, locked, owner, holder>>
  BY DEF thread_create, lockVars
<1>4. /\ rq \in Seq(TCB) /\ rq # <<>> /\ Cur \in TCB /\ QueueView
      /\ QueueTypes(rq, eq, waitq, wq, threads) /\ QueuesApart(rq, eq, waitq, wq, threads)
  BY <1>1, ViewNow, RunningFacts
<1>5. n \notin Live /\ n \notin Range(eq) BY <1>1, <1>3 DEF TableExact, FreedOnce
<1>6. QueuesApart(rq', eq', waitq', wq', threads')
  <2>1. n \notin Named(threads) BY <1>5 DEF Live, Named
  <2>2. QueuesApart(rq', eq, waitq, wq, threads') BY <1>2, <1>3, <1>4, <1>5, <2>1, ApartCreate
  <2> QED BY <1>3, <2>2
<1>7. OneQueueEach' /\ QueueView' BY <1>6, ViewNext
<1>8. Range(rq') = Range(rq) \cup {n} /\ Cur' = Cur BY <1>3, <1>4, AppendQueue DEF Cur
<1>9. Sleepers' = Sleepers BY <1>3 DEF Sleepers
<1>10. Live' = Live \cup {n}
  BY <1>3, <1>4, <1>7, <1>8, <1>9 DEF QueueView
<1>11. /\ status'[n] = "READY" /\ pc'[n] = "new" /\ want'[n] = NULL /\ tid'[n] = id
       /\ \A t \in TCB \ {n} : /\ status'[t] = status[t] /\ pc'[t] = pc[t] /\ tid'[t] = tid[t]
                               /\ want'[t] = IF want[t] = n THEN NULL ELSE want[t]
  BY <1>2 DEF thread_create, TypeOK
<1>12. threads'[id] = n /\ \A i \in Tid \ {id} : threads'[i] = threads[i] BY <1>2 DEF TypeOK
<1>13. TableExact'
  <2>1. \A t \in TCB : t \in Live' => status'[t] # "FREE" /\ threads'[tid'[t]] = t
    <3>1. ASSUME NEW t \in Live PROVE t \in TCB \ {n} /\ tid[t] \in Tid \ {id}
      BY <1>1, <1>2, <1>4, <1>5, ConstantsAssumption DEF TableExact, QueueView, TypeOK
    <3> QED BY <1>1, <1>10, <1>11, <1>12, <3>1 DEF TableExact
  <2>2. \A t \in TCB : status'[t] # "FREE" => t \in Live' \cup Range(eq')
    BY <1>1, <1>3, <1>10, <1>11 DEF TableExact
  <2>3. \A t \in TCB : \A i \in Tid : threads'[i] = t => tid'[t] = i
    BY <1>1, <1>4, <1>5, <1>11, <1>12 DEF TableExact, QueueView
  <2> QED BY <2>1, <2>2, <2>3 DEF TableExact
<1>14. StatusMatchesQueue'
  BY <1>1, <1>4, <1>5, <1>8, <1>9, <1>11 DEF StatusMatchesQueue, QueueView
<1>15. RunningStatus' BY <1>1, <1>4, <1>3, <1>8, <1>11 DEF RunningStatus
<1>16. FreedOnce'
  BY <1>1, <1>3, <1>4, <1>5, <1>8, <1>10, <1>11 DEF FreedOnce, QueueView
<1>17. WaitersHaveTarget'
  <2>1. ASSUME NEW i \in Tid, NEW t \in Range(waitq[i])
        PROVE  pc'[t] = "join" /\ want'[t] # NULL /\ want'[t] = threads'[i]
    <3>1. t \in Live /\ t \in TCB \ {n} BY <1>4, <1>5 DEF QueueView
    <3>2. pc[t] = "join" /\ want[t] # NULL /\ want[t] = threads[i] BY <1>1 DEF WaitersHaveTarget
    <3>3. i # id /\ threads[i] # n BY <1>2, <1>4, <1>5, <3>2 DEF QueueView
    <3> QED BY <1>11, <1>12, <3>1, <3>2, <3>3
  <2> QED BY <1>3, <2>1 DEF WaitersHaveTarget
<1>18. JoinDone'
  <2>1. NULL \notin Live' BY <1>7, ConstantsAssumption DEF QueueView
  <2> QED BY <1>1, <1>3, <1>4, <1>5, <1>8, <1>10, <1>11, <2>1 DEF JoinDone, QueueView
<1>19. HolderLives' BY <1>1, <1>3, <1>4, <1>5, <1>10, <1>11 DEF HolderLives, QueueView
<1>20. QueuesMade'
  BY <1>1, <1>3, <1>4, <1>5, <1>10, <1>11, ConstantsAssumption DEF QueuesMade, QueueView
<1>21. CvSleepersHoldNoLock'
  <2>1. ASSUME NEW c \in CV, NEW t \in Range(wq[c]) PROVE want'[t] \in Lock /\ holder[want'[t]] # t
    <3>1. c \in Obj /\ t \in TCB \ {n} BY <1>4, <1>5 DEF QueueView, Obj
    <3>2. want[t] \in Lock /\ holder[want[t]] # t BY <1>1 DEF CvSleepersHoldNoLock
    <3> QED BY <1>11, <3>1, <3>2, ConstantsAssumption
  <2> QED BY <1>3, <2>1 DEF CvSleepersHoldNoLock
<1> QED BY <1>7, <1>13, <1>14, <1>15, <1>16, <1>17, <1>18, <1>19, <1>20, <1>21 DEF RestInv

\* setcontext returns in a thread that was not killed: it frees the exited threads.
LEMMA ResumeStep ==
    ASSUME IInv, TypeOK', resume
    PROVE  OneQueueEach' /\ RestInv'
<1> USE DEF IInv
<1>1. Active /\ mode = "switch" /\ mode' \in {"run", "ub"} /\ status[Cur] # "EXITED"
  BY DEF resume, clear_eq, Active
<1>2. UNCHANGED <<tid, rq, threads, waitq, wq, made, locked, owner, holder>> /\ eq' = <<>>
  BY DEF resume, clear_eq, lockVars
<1>3. Cur \in TCB /\ Cur \in Range(rq) /\ Cur \in Live /\ Cur \notin Sleepers BY <1>1, RunningFacts
<1>4. QueueView BY <1>1, ViewNow
<1>5. Live' = Live /\ Sleepers' = Sleepers /\ Cur' = Cur
  BY <1>2 DEF Live, Sleepers, Cur
<1>6. Range(eq') = {} /\ IsInjective(eq') BY <1>2, EmptyQueue
<1>7. OneQueueEach'
  <2>1. QueuesApart(rq, eq, waitq, wq, threads) BY <1>1, ViewNow
  <2>2. QueuesApart(rq, eq', waitq, wq, threads) BY <1>6, <2>1, ApartForget
  <2> QED BY <1>2, <2>2, ViewNext
<1>8. /\ \A t \in Range(eq) : status'[t] = "FREE"
      /\ status'[Cur] = "RUNNING"
      /\ \A t \in TCB \ (Range(eq) \cup {Cur}) : status'[t] = status[t]
  <2>1. status' = [t \in TCB |-> IF t \in Range(eq) THEN "FREE"
                                 ELSE set_thread_status(status, {Cur}, "RUNNING")[t]]
    BY DEF resume, clear_eq
  <2> QED BY <1>1, <1>3, <1>4, <2>1 DEF set_thread_status, QueueView
<1>9. Active' => \A t \in Range(eq) : status[t] # "FREE" BY DEF resume, clear_eq, Active
<1>10. /\ \A t \in TCB \ {Cur} : pc'[t] = pc[t] /\ want'[t] = want[t]
       /\ pc'[Cur] # "join"
       /\ (pc'[Cur] = pc[Cur] /\ want'[Cur] = want[Cur]) \/ pc'[Cur] = "user"
  BY <1>3 DEF resume, TypeOK
<1>11. TableExact' BY <1>1, <1>2, <1>3, <1>4, <1>5, <1>8 DEF TableExact, QueueView
<1>12. StatusMatchesQueue'
  BY <1>1, <1>2, <1>3, <1>4, <1>5, <1>8 DEF StatusMatchesQueue, QueueView, Active
<1>13. RunningStatus' BY <1>5, <1>8 DEF RunningStatus
<1>14. FreedOnce'
  BY <1>1, <1>3, <1>4, <1>5, <1>6, <1>9, <1>10 DEF FreedOnce, QueueView
<1>15. WaitersHaveTarget' BY <1>1, <1>2, <1>3, <1>4, <1>5, <1>10 DEF WaitersHaveTarget, QueueView
<1>16. JoinDone' BY <1>1, <1>2, <1>3, <1>4, <1>5, <1>10 DEF JoinDone, QueueView
<1>17. HolderLives' BY <1>1, <1>2, <1>5 DEF HolderLives
<1>18. QueuesMade' BY <1>1, <1>2, <1>3, <1>4, <1>5, <1>10 DEF QueuesMade, QueueView
<1>19. CvSleepersHoldNoLock'
  BY <1>1, <1>2, <1>3, <1>4, <1>5, <1>10 DEF CvSleepersHoldNoLock, QueueView, Obj
<1> QED BY <1>7, <1>11, <1>12, <1>13, <1>14, <1>15, <1>16, <1>17, <1>18, <1>19 DEF RestInv

\* thread_exit, whoever calls it, when another thread is ready.
LEMMA ExitSwitchStep ==
    ASSUME IInv, TypeOK', Active, exit_thread, exit_switch(Tail(rq \o waitq[tid[Cur]]))
    PROVE  OneQueueEach' /\ RestInv'
<1> USE DEF IInv
<1> DEFINE i == tid[Cur]
           q == rq \o waitq[i]
           j == [waitq EXCEPT ![i] = <<>>]
           M == Range(waitq[i])
<1>1. /\ rq' = Tail(q) /\ eq' = Append(eq, Cur) /\ waitq' = j
      /\ status' = set_thread_status(status, M, "READY")
      /\ threads' = [threads EXCEPT ![i] = NULL]
      /\ mode' = "switch" /\ Active'
  BY DEF exit_thread, exit_switch, Active
<1>2. /\ holder' = [l \in Lock |-> IF holder[l] = Cur THEN Gone ELSE holder[l]]
      /\ UNCHANGED <<tid, wq, made, locked, owner>>
  BY DEF exit_thread
<1>3. /\ rq \in Seq(TCB) /\ rq # <<>> /\ Cur \in TCB /\ i \in Tid /\ threads[i] = Cur
      /\ Cur \in Live /\ Cur \notin Sleepers /\ QueueView
      /\ QueueTypes(rq, eq, waitq, wq, threads) /\ QueuesApart(rq, eq, waitq, wq, threads)
  BY ViewNow, RunningFacts
<1>4. /\ waitq[i] \in Seq(TCB) /\ waitq \in [Tid -> Seq(TCB)]
      /\ j \in [Tid -> Seq(TCB)] /\ j[i] = <<>> /\ \A k \in Tid \ {i} : j[k] = waitq[k]
  <2>1. waitq \in [Tid -> Seq(TCB)] /\ <<>> \in Seq(TCB) BY DEF TypeOK
  <2> QED BY <1>3, <2>1
<1>5. q \in Seq(TCB) /\ q # <<>> /\ Head(q) = Cur /\ Range(q) = Range(rq) \cup M
  BY <1>3, <1>4, ConcatQueue DEF Cur
<1>6. QueuesApart(q, eq, j, wq, threads) BY <1>3, ApartWakeJoined
<1>7. /\ M \subseteq Sleepers /\ \A t \in M : t \in TCB /\ want[t] = Cur
  BY <1>3 DEF QueueView, WaitersHaveTarget
<1> HIDE DEF i, q, j, M
<1>8. Range(rq') = (Range(rq) \cup M) \ {Cur}
  <2>1. IsInjective(q) BY <1>6 DEF QueuesApart, NoDuplicates
  <2> QED BY <1>1, <1>5, <2>1, TailQueue
<1>9. QueuesApart(rq', eq', waitq', wq', threads')
  <2>1. QueueTypes(q, eq, j, wq, threads) BY <1>3, <1>4, <1>5 DEF QueueTypes
  <2>2. threads[i] = Head(q) /\ \A k \in Tid : threads[k] = Head(q) => k = i
    BY <1>3, <1>5 DEF TableExact, i
  <2>3. rq' = Tail(q) /\ eq' = Append(eq, Head(q)) /\ threads' = [threads EXCEPT ![i] = NULL]
    BY <1>1, <1>5
  <2>4. QueuesApart(rq', eq', j, wq, threads') BY <1>3, <1>5, <1>6, <2>1, <2>2, <2>3, ApartExit
  <2> QED BY <1>1, <1>2, <2>4
<1>10. OneQueueEach' /\ QueueView' BY <1>9, ViewNext
<1>11. /\ Range(eq') = Range(eq) \cup {Cur} /\ eq' # <<>> /\ (eq # <<>> => Head(eq') = Head(eq))
  <2>1. eq \in Seq(TCB) BY DEF TypeOK
  <2> QED BY <1>1, <1>3, <2>1, AppendQueue
<1>12. threads'[i] = NULL /\ \A k \in Tid \ {i} : threads'[k] = threads[k]
  BY <1>1, <1>3 DEF TypeOK
<1>13. \A t \in TCB : t \in Live' <=> t \in Live /\ t # Cur
  <2>1. \A k \in Tid : threads[k] = Cur => k = i BY <1>3 DEF TableExact, i
  <2> QED BY <1>3, <1>10, <1>12, <2>1, ConstantsAssumption DEF QueueView
<1>14. Live' \subseteq Live \ {Cur} BY <1>10, <1>13 DEF QueueView
<1>15. /\ \A t \in M : t # Cur /\ t \in Live
       /\ \A t \in TCB : status'[t] = IF t \in M /\ status[t] # "EXITED" THEN "READY" ELSE status[t]
  BY <1>1, <1>3, <1>7 DEF set_thread_status, QueueView
<1>16. /\ \A t \in TCB \ {Cur} : pc'[t] = pc[t] /\ want'[t] = want[t]
  BY <1>3 DEF exit_thread, TypeOK
<1>17. TableExact'
  <2>1. \A t \in TCB : t \in Live' => status'[t] # "FREE" /\ threads'[tid[t]] = t
    <3>1. ASSUME NEW t \in TCB, t \in Live' PROVE t \in Live /\ tid[t] \in Tid \ {i} /\ t # Cur
      BY <1>3, <1>13, <3>1 DEF TableExact, TypeOK
    <3> QED BY <1>12, <1>15, <3>1 DEF TableExact
  <2>2. \A t \in TCB : status'[t] # "FREE" => t \in Live' \cup Range(eq')
    BY <1>11, <1>13, <1>15 DEF TableExact
  <2>3. \A t \in TCB : \A k \in Tid : threads'[k] = t => tid[t] = k
    BY <1>12, ConstantsAssumption DEF TableExact
  <2> QED BY <1>2, <2>1, <2>2, <2>3 DEF TableExact
<1>18. StatusMatchesQueue'
  <2>1. ASSUME NEW t \in Range(rq') PROVE status'[t] \in {"READY", "EXITED"}
    <3>1. CASE t \in M BY <1>7, <1>15, <3>1 DEF StatusMatchesQueue
    <3>2. CASE t \notin M BY <1>3, <1>8, <1>15, <2>1, <3>2 DEF StatusMatchesQueue, QueueView
    <3> QED BY <3>1, <3>2
  <2>2. ASSUME NEW t \in Sleepers' PROVE status'[t] \in {"BLOCKED", "EXITED"}
    <3>1. t \in TCB /\ t \notin M /\ t \in Sleepers
      BY <1>3, <1>8, <1>10, <1>14, <1>15 DEF QueueView
    <3> QED BY <1>15, <3>1 DEF StatusMatchesQueue
  <2> QED BY <2>1, <2>2 DEF StatusMatchesQueue
<1>19. RunningStatus' BY <1>1 DEF RunningStatus
<1>20. FreedOnce'
  <2>1. ASSUME NEW t \in Live', pc'[t] = "freed" PROVE eq' # <<>> /\ status'[Head(eq')] = "FREE"
    <3>1. t \in Live /\ pc[t] = "freed" BY <1>3, <1>14, <1>16, <2>1 DEF QueueView
    <3>2. eq # <<>> /\ status[Head(eq)] = "FREE" BY <3>1 DEF FreedOnce
    <3>3. Head(eq) \in TCB /\ Head(eq) \notin M BY <1>3, <1>15, <3>2 DEF QueueView
    <3> QED BY <1>11, <1>15, <3>2, <3>3
  <2>2. \A t, u \in Live' : pc'[t] = "freed" /\ pc'[u] = "freed" => t = u
    BY <1>3, <1>14, <1>16 DEF FreedOnce, QueueView
  <2> QED BY <1>1, <2>1, <2>2 DEF FreedOnce
<1>21. WaitersHaveTarget'
  <2>1. ASSUME NEW k \in Tid, NEW t \in Range(waitq'[k])
        PROVE  pc'[t] = "join" /\ want'[t] # NULL /\ want'[t] = threads'[k]
    <3>1. k # i /\ t \in Range(waitq[k]) BY <1>1, <1>4, <2>1, EmptyQueue
    <3>2. t \in TCB \ {Cur} BY <1>3, <3>1 DEF QueueView
    <3> QED BY <1>12, <1>16, <3>1, <3>2 DEF WaitersHaveTarget
  <2> QED BY <2>1 DEF WaitersHaveTarget
<1>22. JoinDone'
  <2>1. ASSUME NEW t \in Range(rq'), pc'[t] = "join" PROVE want'[t] \notin Live'
    <3>1. t \in TCB \ {Cur} BY <1>8, <1>10, <2>1 DEF QueueView
    <3>2. CASE t \in M BY <1>7, <1>14, <1>16, <3>1, <3>2
    <3>3. CASE t \in Range(rq) BY <1>14, <1>16, <2>1, <3>1, <3>3 DEF JoinDone
    <3> QED BY <1>8, <2>1, <3>2, <3>3
  <2>2. ASSUME NEW o \in Obj, NEW t \in Range(wq'[o]) PROVE pc'[t] # "join"
    BY <1>2, <1>3, <1>16, <2>2 DEF JoinDone, QueueView
  <2> QED BY <2>1, <2>2 DEF JoinDone
<1>23. HolderLives'
  BY <1>2, <1>3, <1>13, ConstantsAssumption DEF HolderLives
<1>24. QueuesMade'
  BY <1>2, <1>3, <1>14, <1>16 DEF QueuesMade, QueueView
<1>25. CvSleepersHoldNoLock'
  <2>1. ASSUME NEW c \in CV, NEW t \in Range(wq[c]) PROVE want'[t] \in Lock /\ holder'[want'[t]] # t
    <3>1. c \in Obj /\ t \in TCB \ {Cur} BY <1>3 DEF QueueView, Obj
    <3>2. want[t] \in Lock /\ holder[want[t]] # t BY DEF CvSleepersHoldNoLock
    <3> QED BY <1>2, <1>16, <3>1, <3>2, ConstantsAssumption
  <2> QED BY <1>2, <2>1 DEF CvSleepersHoldNoLock
<1> QED BY <1>10, <1>17, <1>18, <1>19, <1>20, <1>21, <1>22, <1>23, <1>24, <1>25 DEF RestInv

\* thread_exit, whoever calls it.
LEMMA ExitStep ==
    ASSUME IInv, TypeOK', Active, exit_thread
    PROVE  OneQueueEach' /\ RestInv'
<1> DEFINE q == Tail(rq \o waitq[tid[Cur]])
<1>1. CASE exit_program(q)
  <2>1. ~Active' /\ mode' # "run" BY <1>1 DEF exit_program, Active
  <2>2. /\ holder' = [l \in Lock |-> IF holder[l] = Cur THEN Gone ELSE holder[l]]
        /\ UNCHANGED <<wq, made, locked>>
    BY DEF exit_thread
  <2>3. HolderLives' BY <2>1, <2>2, ConstantsAssumption DEF IInv, HolderLives
  <2>4. QueuesMade' BY <2>1, <2>2 DEF IInv, QueuesMade
  <2>5. OneQueueEach' /\ TableExact' /\ StatusMatchesQueue' /\ RunningStatus'
    BY <2>1 DEF OneQueueEach, TableExact, StatusMatchesQueue, RunningStatus
  <2>6. FreedOnce' /\ WaitersHaveTarget' /\ JoinDone' /\ CvSleepersHoldNoLock'
    BY <2>1 DEF FreedOnce, WaitersHaveTarget, JoinDone, CvSleepersHoldNoLock
  <2> QED BY <2>3, <2>4, <2>5, <2>6 DEF RestInv
<1>2. CASE exit_switch(q) BY <1>2, ExitSwitchStep
<1> QED BY <1>1, <1>2 DEF exit_thread

-----------------------------------------------------------------------------
(* The induction. *)

\* thread_init establishes the invariant.
LEMMA InitIInv == Init => IInv
<1> SUFFICES ASSUME Init PROVE IInv OBVIOUS
<1>1. PICK main \in TCB : Init!(main) BY DEF Init
<1>2. TypeOK BY InitType
<1>3. 0 \in Tid BY ConstantsAssumption DEF Tid
<1>4. rq = <<main>> /\ Range(rq) = {main} /\ Range(eq) = {} /\ Cur = main
      /\ IsInjective(rq) /\ IsInjective(eq)
  BY <1>1 DEF Range, IsInjective, Cur
<1>5. /\ \A i \in Tid : waitq[i] = <<>> /\ Range(waitq[i]) = {} /\ IsInjective(waitq[i])
      /\ \A o \in Obj : wq[o] = <<>> /\ Range(wq[o]) = {} /\ IsInjective(wq[o])
  BY <1>1, EmptyQueue
<1>6. Live = {main} BY <1>1, <1>3, ConstantsAssumption DEF Live, Range
<1>7. Sleepers = {} BY <1>5 DEF Sleepers
<1>8. OneQueueEach BY <1>4, <1>5, <1>6, <1>7 DEF OneQueueEach
<1>9. TableExact BY <1>1, <1>3, <1>6, ConstantsAssumption DEF TableExact
<1>10. StatusMatchesQueue /\ RunningStatus
  BY <1>1, <1>4, <1>7 DEF StatusMatchesQueue, RunningStatus
<1>11. FreedOnce /\ JoinDone /\ WaitersHaveTarget
  BY <1>1, <1>4, <1>5, <1>6 DEF FreedOnce, JoinDone, WaitersHaveTarget
<1>12. HolderLives BY <1>1, ConstantsAssumption DEF HolderLives
<1>13. QueuesMade BY <1>1, <1>5, <1>6 DEF QueuesMade
<1>14. CvSleepersHoldNoLock BY <1>5 DEF CvSleepersHoldNoLock, Obj
<1>15. FreeLockNoSleepers BY <1>5 DEF FreeLockNoSleepers, Obj
<1> QED BY <1>2, <1>8, <1>9, <1>10, <1>11, <1>12, <1>13, <1>14, <1>15 DEF IInv

\* Every step of the package keeps the invariant.
LEMMA StepIInv == ASSUME ~DestroyBusy, IInv, [Next]_vars PROVE IInv'
<1>1. CASE Terminated \/ UNCHANGED vars
  <2>1. UNCHANGED vars BY <1>1 DEF Terminated
  <2>2. /\ TypeOK' /\ FreeLockNoSleepers' /\ OneQueueEach' /\ TableExact' /\ StatusMatchesQueue'
        /\ RunningStatus' /\ FreedOnce'
    BY <2>1 DEF IInv, vars, TypeOK, FreeLockNoSleepers, OneQueueEach, TableExact,
       StatusMatchesQueue, RunningStatus, FreedOnce, Live, Sleepers, Cur, Active
  <2>3. WaitersHaveTarget' /\ JoinDone' /\ HolderLives' /\ QueuesMade' /\ CvSleepersHoldNoLock'
    BY <2>1 DEF IInv, vars, WaitersHaveTarget, JoinDone, HolderLives, QueuesMade,
       CvSleepersHoldNoLock, Live, Active
  <2> QED BY <2>2, <2>3 DEF IInv
<1>2. CASE Next /\ ~UNCHANGED vars
  <2>1. TypeOK'
    BY <1>2, KernelType, SchedulingType, QueueingType, LockingType DEF Next, Terminated, IInv
  <2>2. FreeLockNoSleepers' BY LockStep DEF IInv
  <2> SUFFICES OneQueueEach' /\ RestInv' BY <2>1, <2>2 DEF IInv, RestInv
  <2>3. CASE Kernel
    <3>1. CASE resume_killed \/ stub_killed
      BY <2>1, <3>1, ExitStep DEF resume_killed, stub_killed, Active
    <3>2. CASE resume_new \/ stub_run \/ stub_main \/ wait_alone BY <2>1, <3>2, LocalStep
    <3>3. CASE resume BY <2>1, <3>3, ResumeStep
    <3>4. CASE stub_free_node BY <2>1, <3>4, FreeNodeStep
    <3>5. CASE stub_next_node BY <2>1, <3>5, NextNodeStep
    <3>6. ASSUME NEW l \in Lock, acquire_sleep(l) PROVE OneQueueEach' /\ RestInv'
      <4>1. l \in Obj BY DEF Obj
      <4> QED BY <2>1, <3>6, <4>1, SleepStep
    <3>7. ASSUME NEW l \in Lock, acquire_take(l) PROVE OneQueueEach' /\ RestInv'
      BY <2>1, <3>7, LockStepLocal
    <3>8. ~ \E l \in Lock : acquire_spin(l) BY <1>2 DEF acquire_spin
    <3> QED BY <2>3, <3>1, <3>2, <3>3, <3>4, <3>5, <3>6, <3>7, <3>8 DEF Kernel
  <2>4. CASE Scheduling \/ interrupt_handler
    <3>1. ASSUME NEW t \in TCB, thread_create(t) PROVE OneQueueEach' /\ RestInv'
      BY <2>1, <3>1, CreateStep
    <3>2. CASE thread_yield_any \/ thread_yield_self \/ interrupt_handler BY <2>1, <3>2, YieldStep
    <3>3. ASSUME NEW i \in Tid, thread_yield_tid(i) PROVE OneQueueEach' /\ RestInv'
      BY <2>1, <3>3, YieldStep
    <3>4. ASSUME NEW i \in Tid, thread_kill(i) PROVE OneQueueEach' /\ RestInv'
      BY <2>1, <3>4, KillStep
    <3>5. ASSUME NEW i \in Tid, thread_wait(i) PROVE OneQueueEach' /\ RestInv'
      BY <2>1, <3>5, JoinStep, LocalStep
    <3>6. CASE thread_exit BY <2>1, <3>6, UserModes, ExitStep DEF thread_exit
    <3> QED BY <2>4, <3>1, <3>2, <3>3, <3>4, <3>5, <3>6 DEF Scheduling
  <2>5. CASE Queueing
    <3>1. PICK q \in WQ : \/ wait_queue_create(q) \/ wait_queue_destroy(q) \/ thread_sleep(q)
                          \/ \E all \in BOOLEAN : thread_wakeup(q, all)
      BY <2>5 DEF Queueing
    <3>2. q \in Obj BY DEF Obj
    <3>3. CASE wait_queue_create(q) \/ wait_queue_destroy(q) BY <2>1, <3>3, ObjectStep
    <3>4. CASE thread_sleep(q) BY <2>1, <3>2, <3>4, SleepStep
    <3>5. ASSUME NEW all \in BOOLEAN, thread_wakeup(q, all) PROVE OneQueueEach' /\ RestInv'
      BY <2>1, <3>2, <3>5, WakeStep DEF thread_wakeup, lockVars
    <3> QED BY <3>1, <3>3, <3>4, <3>5
  <2>6. CASE Locking
    <3>1. ASSUME NEW l \in Lock, lock_create(l) \/ lock_destroy(l) PROVE OneQueueEach' /\ RestInv'
      BY <2>1, <3>1, ObjectStep
    <3>2. ASSUME NEW l \in Lock, lock_acquire(l) PROVE OneQueueEach' /\ RestInv'
      BY <2>1, <3>2, LocalStep
    <3>3. ASSUME NEW l \in Lock, lock_release(l) PROVE OneQueueEach' /\ RestInv'
      <4>1. l \in Obj BY DEF Obj
      <4> QED BY <2>1, <3>3, <4>1, WakeStep DEF lock_release, OwnsLock
    <3>4. ASSUME NEW c \in CV, cv_create(c) \/ cv_destroy(c) PROVE OneQueueEach' /\ RestInv'
      BY <2>1, <3>4, ObjectStep
    <3>5. ASSUME NEW c \in CV, NEW l \in Lock, cv_wait(c, l) PROVE OneQueueEach' /\ RestInv'
      BY <2>1, <3>5, CvWaitStep, LockStepLocal
    <3>6. ASSUME NEW c \in CV, NEW l \in Lock, cv_signal(c, l) \/ cv_broadcast(c, l)
          PROVE  OneQueueEach' /\ RestInv'
      <4>1. c \in Obj BY DEF Obj
      <4> QED BY <2>1, <3>6, <4>1, WakeStep DEF cv_signal, cv_broadcast, lockVars
    <3> QED BY <2>6, <3>1, <3>2, <3>3, <3>4, <3>5, <3>6 DEF Locking
  <2> QED BY <1>2, <2>3, <2>4, <2>5, <2>6 DEF Next, Terminated
<1> QED BY <1>1, <1>2

-----------------------------------------------------------------------------
(* The theorems.  A client that destroys a wait queue somebody sleeps in is  *)
(* left out (~DestroyBusy): wait_queue_destroy would free that thread.       *)

\* The invariant holds in every state the package can reach.
LEMMA AlwaysIInv == ASSUME ~DestroyBusy PROVE Spec => []IInv
<1>1. IInv /\ [Next]_vars => IInv' BY StepIInv
<1> QED BY <1>1, InitIInv, PTL DEF Spec

\* No operation loses a thread, queues it twice, or leaves an exited one where
\* it could be switched to: the queues of thread.c partition the threads.
THEOREM QueuesPartitionThreads == ASSUME ~DestroyBusy PROVE Spec => []OneQueueEach
<1>1. IInv => OneQueueEach BY DEF IInv
<1> QED BY <1>1, AlwaysIInv, PTL

\* Identifiers are unique, are not reused early, and never name freed memory.
THEOREM IdentifiersExact == ASSUME ~DestroyBusy PROVE Spec => []TableExact
<1>1. IInv => TableExact BY DEF IInv
<1> QED BY <1>1, AlwaysIInv, PTL

\* The status field of every thread tells the queue it is in.
THEOREM StatusTellsQueue == ASSUME ~DestroyBusy PROVE Spec => []StatusMatchesQueue
<1>1. IInv => StatusMatchesQueue BY DEF IInv
<1> QED BY <1>1, AlwaysIInv, PTL

\* A killed thread never executes client code again and never takes a lock.
THEOREM KilledIsStopped == ASSUME ~DestroyBusy PROVE Spec => []KilledNeverRuns
<1>1. IInv => KilledNeverRuns BY DEF IInv, RunningStatus, KilledNeverRuns
<1> QED BY <1>1, AlwaysIInv, PTL

\* Whoever sleeps in thread_wait sleeps in the queue of a thread that is alive.
THEOREM JoinersHaveTarget == ASSUME ~DestroyBusy PROVE Spec => []WaitersHaveTarget
<1>1. IInv => WaitersHaveTarget BY DEF IInv
<1> QED BY <1>1, AlwaysIInv, PTL

\* Nobody sleeps in cv_wait with the lock that cv_wait was to release.
THEOREM CvWaitReleases == ASSUME ~DestroyBusy PROVE Spec => []CvSleepersHoldNoLock
<1>1. IInv => CvSleepersHoldNoLock BY DEF IInv
<1> QED BY <1>1, AlwaysIInv, PTL

\* A thread_wait that slept returns only after the thread it waited for has
\* exited, even if the identifier belongs to a new thread by then.
THEOREM JoinMeansExited == ASSUME ~DestroyBusy PROVE Spec => SleptJoinMeansExited
<1> DEFINE Returns == \A t \in TCB : pc[t] = "join" /\ pc'[t] = "user" /\ mode' = "run"
                                       => want[t] \notin Live
<1>1. ASSUME IInv, Next, NEW t \in TCB, pc[t] = "join", pc'[t] = "user", mode' = "run"
      PROVE  want[t] \notin Live
  <2>1. CASE resume
    <3>1. Active BY <2>1 DEF resume, Active
    <3>2. Cur \in TCB /\ Cur \in Range(rq) BY <1>1, <3>1, RunningFacts
    <3>3. t = Cur BY <1>1, <2>1, <3>2 DEF resume, IInv, TypeOK
    <3> QED BY <1>1, <3>1, <3>2, <3>3 DEF IInv, JoinDone
  <2>2. CASE exit_thread
    BY <1>1, <2>2 DEF exit_thread, exit_program, exit_switch
  <2>3. CASE Kernel
    <3>1. CASE resume_killed \/ stub_killed BY <2>2, <3>1 DEF resume_killed, stub_killed
    <3>2. CASE \/ resume_new \/ stub_run \/ stub_free_node \/ stub_next_node \/ stub_main \/ wait_alone
               \/ \E l \in Lock : acquire_sleep(l) \/ acquire_spin(l) \/ acquire_take(l)
      BY <1>1, <3>2 DEF resume_new, stub_run, stub_free_node, stub_next_node, stub_main, wait_alone,
         acquire_sleep, acquire_spin, acquire_take, InLoop, block, vars, IInv, TypeOK
    <3> QED BY <2>1, <2>3, <3>1, <3>2 DEF Kernel
  <2>4. CASE Scheduling \/ interrupt_handler
    BY <1>1, <2>2, <2>4 DEF Scheduling, interrupt_handler, switch_to, thread_create, thread_yield_any,
       thread_yield_self, thread_yield_tid, thread_kill, thread_wait, thread_exit, block, IInv, TypeOK
  <2>5. CASE Queueing
    BY <1>1, <2>5 DEF Queueing, wait_queue_create, wait_queue_destroy, thread_sleep, thread_wakeup,
       block, InUserCode, tcbVars, IInv, TypeOK
  <2>6. CASE Locking
    BY <1>1, <2>6 DEF Locking, lock_create, lock_destroy, lock_acquire, lock_release, cv_create,
       cv_destroy, cv_wait, cv_signal, cv_broadcast, block, InUserCode, tcbVars, IInv, TypeOK
  <2>7. CASE Terminated BY <1>1, <2>7 DEF Terminated, vars
  <2> QED BY <1>1, <2>3, <2>4, <2>5, <2>6, <2>7 DEF Next
<1>2. IInv /\ [Next]_vars => [Returns]_vars BY <1>1
<1> QED BY <1>2, AlwaysIInv, PTL DEF Spec, SleptJoinMeansExited

\* Only the thread that acquired a lock releases it, for as long as it is alive.
THEOREM HolderReleases == ASSUME ~DestroyBusy PROVE Spec => OnlyHolderReleases
<1> DEFINE ByHolder == \A l \in Lock : holder[l] \in TCB /\ holder'[l] # holder[l] => holder[l] = Cur
<1>1. ASSUME IInv, Next, NEW k \in Lock, holder[k] \in TCB, holder'[k] # holder[k]
      PROVE  holder[k] = Cur
  <2>0. holder \in [Lock -> TCB \cup {NULL, Gone}] /\ locked[k] BY <1>1 DEF IInv, TypeOK, HolderLives
  <2>1. ASSUME NEW l \in Lock, Active, OwnsLock(l), k = l PROVE holder[k] = Cur
    <3>1. holder[k] \in Live /\ owner[k] = tid[holder[k]] BY <1>1, <2>1 DEF IInv, HolderLives
    <3>2. Cur \in TCB /\ Cur \in Live BY <1>1, <2>1, RunningFacts
    <3>3. \A t \in TCB : t \in Live => threads[tid[t]] = t BY <1>1, <2>1 DEF IInv, TableExact
    <3>4. tid[holder[k]] = tid[Cur] BY <2>1, <3>1 DEF OwnsLock
    <3> QED BY <1>1, <3>1, <3>2, <3>3, <3>4
  <2>2. CASE exit_thread BY <1>1, <2>0, <2>2 DEF exit_thread
  <2>3. CASE Kernel
    <3>1. CASE resume_killed \/ stub_killed BY <2>2, <3>1 DEF resume_killed, stub_killed
    <3>2. ASSUME NEW l \in Lock, acquire_take(l) PROVE holder[k] = Cur
      BY <1>1, <2>0, <3>2 DEF acquire_take
    <3>3. CASE \/ resume_new \/ resume \/ stub_run \/ stub_free_node \/ stub_next_node \/ stub_main
               \/ wait_alone \/ \E l \in Lock : acquire_sleep(l) \/ acquire_spin(l)
      BY <1>1, <3>3 DEF resume_new, resume, stub_run, stub_free_node, stub_next_node, stub_main,
         wait_alone, acquire_sleep, acquire_spin, lockVars, vars
    <3> QED BY <2>3, <3>1, <3>2, <3>3 DEF Kernel
  <2>4. CASE Scheduling \/ interrupt_handler
    BY <1>1, <2>2, <2>4 DEF Scheduling, interrupt_handler, switch_to, thread_create, thread_yield_any,
       thread_yield_self, thread_yield_tid, thread_kill, thread_wait, thread_exit, lockVars
  <2>5. CASE Queueing
    BY <1>1, <2>5 DEF Queueing, wait_queue_create, wait_queue_destroy, thread_sleep, thread_wakeup,
       lockVars
  <2>6. CASE Locking
    <3>1. ASSUME NEW l \in Lock, lock_release(l) \/ \E c \in CV : cv_wait(c, l) PROVE holder[k] = Cur
      <4>1. Active /\ OwnsLock(l) BY <3>1, UserModes DEF lock_release, cv_wait
      <4>2. k = l BY <1>1, <2>0, <3>1 DEF lock_release, cv_wait
      <4> QED BY <2>1, <4>1, <4>2
    <3>2. UNCHANGED holder
          \/ \E l \in Lock : lock_release(l) \/ \E c \in CV : cv_wait(c, l)
      BY <2>6 DEF Locking, lock_create, lock_destroy, lock_acquire, cv_create,
         cv_destroy, cv_signal, cv_broadcast, lockVars
    <3> QED BY <1>1, <3>1, <3>2
  <2>7. CASE Terminated BY <1>1, <2>7 DEF Terminated, vars
  <2> QED BY <1>1, <2>3, <2>4, <2>5, <2>6, <2>7 DEF Next
<1>2. IInv /\ [Next]_vars => [ByHolder]_vars BY <1>1
<1> QED BY <1>2, AlwaysIInv, PTL DEF Spec, OnlyHolderReleases

=============================================================================
