---------------------------- MODULE RequestQueue ----------------------------
(***************************************************************************)
(* What the web server promises about the connections it accepts: a        *)
(* bounded first-in first-out queue between the main thread and the        *)
(* workers, in which every connection is served at most once, until the    *)
(* queue is closed by the exit of the server.  webserver/server_thread.c   *)
(* (module WebServer) implements it.                                       *)
(***************************************************************************)
EXTENDS Naturals, Sequences

CONSTANTS
    Server,     \* who serves: the workers and the main thread
    Main,       \* the main thread, which serves by itself when there is no queue
    Capacity,   \* connections the queue can hold
    MaxConn,    \* bound: connections accepted in a behaviour
    NoConn      \* nothing in hand

VARIABLES
    accepted,   \* connections accepted so far; they are numbered from 1
    queue,      \* those that wait
    inHand,     \* the one each server has
    served,     \* how often each has been served
    closed      \* the server is exiting

qvars == <<accepted, queue, inHand, served, closed>>

QInit ==
    /\ accepted = 0
    /\ queue = <<>>
    /\ inHand = [s \in Server |-> NoConn]
    /\ served = [c \in 1 .. MaxConn |-> 0]
    /\ closed = FALSE

\* The next connection enters the queue.
Put ==
    /\ ~closed
    /\ accepted < MaxConn
    /\ Len(queue) < Capacity
    /\ accepted' = accepted + 1
    /\ queue' = Append(queue, accepted')
    /\ UNCHANGED <<inHand, served, closed>>

\* The next connection is served by the main thread itself.
PutInHand ==
    /\ ~closed
    /\ accepted < MaxConn
    /\ inHand[Main] = NoConn
    /\ accepted' = accepted + 1
    /\ inHand' = [inHand EXCEPT ![Main] = accepted']
    /\ UNCHANGED <<queue, served, closed>>

\* An idle server takes the oldest connection.
Take(s) ==
    /\ ~closed
    /\ queue # <<>>
    /\ inHand[s] = NoConn
    /\ inHand' = [inHand EXCEPT ![s] = Head(queue)]
    /\ queue' = Tail(queue)
    /\ UNCHANGED <<accepted, served, closed>>

Serve(s) ==
    /\ inHand[s] # NoConn
    /\ served' = [served EXCEPT ![inHand[s]] = @ + 1]
    /\ inHand' = [inHand EXCEPT ![s] = NoConn]
    /\ UNCHANGED <<accepted, queue, closed>>

\* The server exits: what waits is dropped, and so may be what is in hand.
Close ==
    /\ ~closed
    /\ closed' = TRUE
    /\ queue' = <<>>
    /\ inHand' \in {[s \in Server |-> IF s \in D THEN NoConn ELSE inHand[s]] : D \in SUBSET Server}
    /\ UNCHANGED <<accepted, served>>

QNext == Put \/ PutInHand \/ Close \/ \E s \in Server : Take(s) \/ Serve(s)

QSpec == QInit /\ [][QNext]_qvars
=============================================================================
