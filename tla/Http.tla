--------------------------------- MODULE Http ---------------------------------
(***************************************************************************)
(* One request of the web server from end to end: the client programs      *)
(* (client.c, client_simple.c), the worker that serves a connection        *)
(* (do_server_request with request.c, without the cache) and the robust    *)
(* input and output of common.c between them.                              *)
(*                                                                         *)
(* A connection is two sequences of units in flight.  read and write move  *)
(* any part of what is there (short reads and writes), close ends one      *)
(* side, and an error of either is the exit of the whole process: all      *)
(* threads of client.c are one process, all workers another.  Threads      *)
(* are the threads of client.c, Simple the runs of client_simple (or of    *)
(* another client, which may send another method); a Simple client can be  *)
(* killed at any time.  Every connection has its own worker here: how      *)
(* connections are handed to workers is the module WebServer, the file     *)
(* cache is FileCache.                                                     *)
(*                                                                         *)
(* A unit is a pair: a byte of a file, or a whole line of a header with    *)
(* its value and its newline.  The empty line is the unit NL, which a file *)
(* may hold too, so only the lines of a body are cut by reads and writes.  *)
(***************************************************************************)
EXTENDS Integers, Sequences, SequencesExt, FiniteSetsExt

CONSTANTS
    Threads, Simple,  \* the connections: threads of client.c, other clients
    Files,            \* file names, as model values
    Asks,             \* the requests <<method, file>> each client may make
    Orig,             \* what each file held when the file set was made
    Versions,         \* what each file may become later
    Absent,           \* a file that is missing, unreadable or refused by its name
    ErrorBody,        \* the page request_error sends
    Garbage,          \* the bytes an uninitialised buffer can hold
    RIO_BUFSIZE,      \* units one read() delivers at most
    SockSize,         \* units a socket holds
    MAXBUF,           \* MAXLINE and MAXBUF: units of a line buffer
    NrTimes,          \* requests of each thread of client.c
    MaxChanges        \* bound: changes of files while the programs run

Conns == Threads \cup Simple
Byte(v) == <<"byte", v>>
NL == Byte(10)
Bytes == {"byte"} \X Nat
EndsLine(u) == u = NL \/ u[1] # "byte"

ASSUME HttpAssumption ==
    /\ Threads \cap Simple = {}
    /\ RIO_BUFSIZE \in Nat \ {0} /\ SockSize \in Nat \ {0} /\ MAXBUF \in Nat \ {0}
    /\ NrTimes \in Nat \ {0} /\ MaxChanges \in Nat
    /\ Absent \notin Files
    /\ Orig \in [Files -> Seq(Bytes)] /\ \A f \in Files : Orig[f] # Absent
    /\ \A f \in Files : \A v \in Versions[f] : v = Absent \/ v \in Seq(Bytes)
    /\ ErrorBody \in Seq(Bytes) /\ Garbage \subseteq Bytes
    /\ \A c \in Threads \cup Simple : Asks[c] \subseteq {"GET", "PUT"} \X Files
    /\ \A c \in Threads : Asks[c] \subseteq {"GET"} \X Files

VARIABLES
    disk,       \* the files: contents or Absent
    changes,    \* how often a file has changed
    sock,       \* the connections: units in flight, the two ends, reset
    cl,         \* the client threads
    sv,         \* the workers
    served,     \* history: the body each worker set out to send
    recv,       \* history: the body each client has read
    disturbed   \* history: a file was changed or a client killed

vars == <<disk, changes, sock, cl, sv, served, recv, disturbed>>

-----------------------------------------------------------------------------
(* Messages. *)

\* The trivial checksum of request_sendfile, request_error and client_print.
CsumUpTo(body) ==
    LET csum[i \in 0 .. Len(body)] == IF i = 0 THEN 0 ELSE csum[i - 1] + body[i][2]
    IN  csum

Csum(body) == CsumUpTo(body)[Len(body)]

\* Mutant: the empty line is forgotten.
Request_unfinished(r) == <<r, <<"host", 0>>>>

\* What client_send writes for the request r.
Request(r) == <<r, <<"host", 0>>, NL>>

\* The header and the body that request_sendfile and request_error write.
\* The lines no client looks at are one line.
Response(body) ==
    <<<<"status", 0>>, <<"length", Len(body)>>, <<"csum", Csum(body)>>, NL>> \o body

-----------------------------------------------------------------------------
(* The robust input and output of common.c. *)

\* rio_init: buf is what rio_bufptr and rio_cnt delimit, line what
\* rio_readlineb has copied so far.
rio_init == [buf |-> <<>>, line |-> <<>>]

\* The loop of rio_readlineb over what is buffered: up to a newline, the end
\* of the line buffer, or the end of the data.  The terminator it puts after the
\* line, past the buffer of the caller when the line has maxlen bytes, is not
\* modelled, and a line of a header, being one unit, is never cut.
rio_readlineb(r) ==
    LET room == MAXBUF - Len(r.line)
        k    == Min({Len(r.buf), room} \cup {i \in DOMAIN r.buf : EndsLine(r.buf[i])})
    IN  [buf |-> SubSeq(r.buf, k + 1, Len(r.buf)), line |-> r.line \o SubSeq(r.buf, 1, k)]

\* rio_readlineb stops without an end of file.
LineDone(r) == Len(r.line) = MAXBUF \/ (r.line # <<>> /\ EndsLine(Last(r.line)))

\* rio_readb refills the buffer with what one read() of q returns (k units).
rio_readb(r, q, k) == rio_readlineb([buf |-> SubSeq(q, 1, k), line |-> r.line])

\* The next call of rio_readlineb, over what is left in the buffer.
NextLine(r) == rio_readlineb([buf |-> r.buf, line |-> <<>>])

\* What one write() of out into the stream q can take.
Writable(out, q) == {k \in 1 .. Len(out) : Len(q) + k <= SockSize}

\* Mutant: a short write counts as a whole one.
rio_write_once(out, k) == <<>>

\* rio_write: the units after the first k are still to be written.
rio_write(out, k) == SubSeq(out, k + 1, Len(out))

Readable(q) == {k \in 1 .. RIO_BUFSIZE : k <= Len(q)}

-----------------------------------------------------------------------------
(* Processes and their ends. *)

NoConn == [up |-> <<>>, down |-> <<>>, cl |-> "none", sv |-> "none", rst |-> FALSE]

Idle == [pc |-> "start", method |-> "GET", file |-> Absent, out |-> <<>>, rio |-> rio_init,
         length |-> 0, csum |-> 0, length_received |-> 0, csum_received |-> 0,
         left |-> 0]

NoWork == [pc |-> "none", file |-> Absent, out |-> <<>>, rio |-> rio_init, size |-> 0]

Init ==
    /\ disk = Orig /\ changes = 0 /\ disturbed = FALSE
    /\ sock = [c \in Conns |-> NoConn]
    /\ cl = [c \in Conns |-> [Idle EXCEPT !.left = IF c \in Threads THEN NrTimes ELSE 1]]
    /\ sv = [c \in Conns |-> NoWork]
    /\ served = [c \in Conns |-> <<>>]
    /\ recv = [c \in Conns |-> <<>>]

Reading(c) == cl[c].pc \in {"first", "head", "body"}
Working(c) == sv[c].pc \in {"request", "header", "headers", "stat", "load", "send"}
ServerUp   == \A c \in Conns : sv[c].pc # "dead"
ClientUp   == \A c \in Threads : cl[c].pc # "dead"

\* The connections of the process of client c.
Process(c) == IF c \in Threads THEN Threads ELSE {c}

\* unix_error, SYS or a failed assertion: the process ends, and with it every
\* thread and every connection it has.
ClientExit(c) ==
    /\ cl' = [x \in Conns |-> IF x \in Process(c) THEN [cl[x] EXCEPT !.pc = "dead"] ELSE cl[x]]
    /\ sock' = [x \in Conns |-> IF x \in Process(c) /\ sock[x].cl = "open"
                                THEN [sock[x] EXCEPT !.cl = "closed", !.down = <<>>]
                                ELSE sock[x]]
    /\ UNCHANGED <<disk, changes, sv, served, recv>>

\* One end of a connection is closed by the server; data it has not read
\* makes the kernel reset the connection.
SvClosed(s) == [s EXCEPT !.sv = "closed", !.up = <<>>, !.rst = s.up # <<>>]

ServerExit ==
    /\ sv' = [x \in Conns |-> [sv[x] EXCEPT !.pc = "dead"]]
    /\ sock' = [x \in Conns |-> IF sock[x].sv = "open" THEN SvClosed(sock[x]) ELSE sock[x]]
    /\ UNCHANGED <<disk, changes, cl, served, recv, disturbed>>

-----------------------------------------------------------------------------
(* The clients. *)

\* The condition of the loop of client_request; the other clients make one.
MoreRequests(c) == cl[c].left > 0

\* open_clientfd and the arguments of client_send: a random file of the set.
\* The server accepts the connection and a worker will serve it.
open_clientfd(c) ==
    /\ cl[c].pc \in {"start", "ok"} /\ MoreRequests(c)
    /\ \/ /\ ServerUp
          /\ \E r \in Asks[c] :
                cl' = [cl EXCEPT ![c] = [Idle EXCEPT !.pc = "send", !.method = r[1], !.file = r[2],
                                            !.out = Request(r), !.left = cl[c].left - 1]]
          /\ sock' = [sock EXCEPT ![c] = [NoConn EXCEPT !.cl = "open", !.sv = "open"]]
          /\ sv' = [sv EXCEPT ![c] = [NoWork EXCEPT !.pc = "request"]]
          /\ served' = [served EXCEPT ![c] = <<>>]
          /\ recv' = [recv EXCEPT ![c] = <<>>]
          /\ UNCHANGED <<disk, changes, disturbed>>
       \/ ~ServerUp /\ ClientExit(c) /\ UNCHANGED disturbed

\* client_send: rio_write until all is written.  A connection that the server
\* has closed takes the data once, and is reset, or refuses it.
client_send(c) ==
    /\ cl[c].pc = "send"
    /\ LET advance(rest) == [cl EXCEPT ![c].out = rest,
                                       ![c].pc = IF rest = <<>> THEN "first" ELSE "send"]
       IN  \/ /\ sock[c].sv = "open"
              /\ \E k \in Writable(cl[c].out, sock[c].up) :
                    /\ cl' = advance(rio_write(cl[c].out, k))
                    /\ sock' = [sock EXCEPT ![c].up = @ \o SubSeq(cl[c].out, 1, k)]
              /\ UNCHANGED <<disk, changes, sv, served, recv, disturbed>>
           \/ /\ sock[c].sv = "closed"
              /\ cl' = advance(<<>>)
              /\ sock' = [sock EXCEPT ![c].rst = TRUE]
              /\ UNCHANGED <<disk, changes, sv, served, recv, disturbed>>
           \/ sock[c].sv = "closed" /\ ClientExit(c) /\ UNCHANGED disturbed

\* read() inside rio_readb, in the process of the client.
client_read(c) ==
    /\ Reading(c) /\ ~LineDone(cl[c].rio)
    /\ \/ /\ \E k \in Readable(sock[c].down) :
                /\ cl' = [cl EXCEPT ![c].rio = rio_readb(@, sock[c].down, k)]
                /\ sock' = [sock EXCEPT ![c].down = SubSeq(@, k + 1, Len(@))]
          /\ UNCHANGED <<disk, changes, sv, served, recv, disturbed>>
       \/ sock[c].rst /\ ClientExit(c) /\ UNCHANGED disturbed

\* The end of the data: read() returns 0.
ClientEOF(c) == sock[c].down = <<>> /\ sock[c].sv = "closed" /\ ~sock[c].rst

\* The tags client_print looks for in a header line.
Tag(line, name, old) ==
    IF line # <<>> /\ line[1][1] = name THEN line[1][2] ELSE old

\* rio_readlineb returns n units to client_print.  The first line is read
\* before the loop over the header and is not searched for tags.
client_print(c) ==
    LET line == cl[c].rio.line
        n    == Len(line)
    IN  /\ Reading(c)
        /\ LineDone(cl[c].rio) \/ ClientEOF(c)
        /\ \/ /\ cl[c].pc \in {"first", "head"}
              /\ cl' = [cl EXCEPT ![c].rio = NextLine(@),
                            ![c].pc = IF line = <<NL>> \/ n = 0 THEN "body" ELSE "head",
                            ![c].length = IF cl[c].pc = "head" THEN Tag(line, "length", @) ELSE @,
                            ![c].csum = IF cl[c].pc = "head" THEN Tag(line, "csum", @) ELSE @]
              /\ UNCHANGED recv
           \/ /\ cl[c].pc = "body"
              /\ cl' = [cl EXCEPT ![c].rio = NextLine(@),
                            ![c].pc = IF n > 0 THEN "body" ELSE "check",
                            ![c].length_received = @ + n,
                            ![c].csum_received = @ + Csum(line)]
              /\ recv' = [recv EXCEPT ![c] = @ \o line]
        /\ UNCHANGED <<disk, changes, sock, sv, served, disturbed>>

\* Mutant: the client believes the header.
AssertsHold_trusting(c) ==
    /\ Csum(Orig[cl[c].file]) = cl[c].csum
    /\ Len(Orig[cl[c].file]) = cl[c].length

\* The assertions at the end of client_print in client.c ...
AssertsHold(c) ==
    /\ Csum(Orig[cl[c].file]) = cl[c].csum
    /\ Len(Orig[cl[c].file]) = cl[c].length
    /\ cl[c].length = cl[c].length_received
    /\ cl[c].csum = cl[c].csum_received

\* ... and in client_simple.c.
SimpleAssertHolds(c) == cl[c].length # 0 => cl[c].length = cl[c].length_received

client_close(c) ==
    /\ cl[c].pc = "check"
    /\ LET ok == IF c \in Threads THEN AssertsHold(c) ELSE SimpleAssertHolds(c)
       IN  \/ /\ ok
              /\ cl' = [cl EXCEPT ![c].pc = "ok", ![c].rio = rio_init]
              /\ sock' = [sock EXCEPT ![c].cl = "closed"]
              /\ UNCHANGED <<disk, changes, sv, served, recv>>
           \/ ~ok /\ ClientExit(c)
    /\ UNCHANGED disturbed

ClientStep(c) ==
    \/ open_clientfd(c) \/ client_send(c) \/ client_read(c) \/ client_print(c)
    \/ client_close(c)

-----------------------------------------------------------------------------
(* The worker. *)

\* The answer the worker starts to write.
Answer(c, body) ==
    /\ sv' = [sv EXCEPT ![c] = [NoWork EXCEPT !.pc = "send", !.out = Response(body)]]
    /\ served' = [served EXCEPT ![c] = body]

\* read() inside rio_readb, in the process of the server.
server_read(c) ==
    /\ sv[c].pc \in {"request", "header", "headers"} /\ ~LineDone(sv[c].rio)
    /\ \E k \in Readable(sock[c].up) :
          /\ sv' = [sv EXCEPT ![c].rio = rio_readb(@, sock[c].up, k)]
          /\ sock' = [sock EXCEPT ![c].up = SubSeq(@, k + 1, Len(@))]
    /\ UNCHANGED <<disk, changes, cl, served, recv, disturbed>>

ServerEOF(c) == sock[c].up = <<>> /\ sock[c].cl = "closed"

\* request_init: the request line, and 501 for a method other than GET.  With
\* no data at all buf is not initialised and can hold an older request.
request_init(c) ==
    LET line == sv[c].rio.line
    IN  /\ sv[c].pc = "request"
        /\ LineDone(sv[c].rio) \/ ServerEOF(c)
        /\ \E m \in {"GET", "PUT"}, f \in Files :
              /\ line # <<>> => line[1] = <<m, f>>
              /\ \/ /\ m = "GET"
                    /\ sv' = [sv EXCEPT ![c].pc = "header", ![c].file = f, ![c].rio = NextLine(@)]
                    /\ UNCHANGED served
                 \/ m # "GET" /\ Answer(c, ErrorBody)
        /\ UNCHANGED <<disk, changes, sock, cl, recv, disturbed>>

\* Mutant: the header ends with the first line.
request_read_headers_short(c) ==
    /\ sv[c].pc \in {"header", "headers"}
    /\ LineDone(sv[c].rio) \/ ServerEOF(c)
    /\ sv' = [sv EXCEPT ![c].pc = "stat", ![c].rio = rio_init]
    /\ UNCHANGED <<disk, changes, sock, cl, served, recv, disturbed>>

\* request_read_headers: lines are discarded up to an empty one.  At the end
\* of the data buf keeps its contents: on the first call it is not
\* initialised, later it is a line that was not empty and the loop never ends.
request_read_headers(c) ==
    LET line == sv[c].rio.line
    IN  /\ sv[c].pc \in {"header", "headers"}
        /\ \/ /\ LineDone(sv[c].rio) \/ (ServerEOF(c) /\ line # <<>>)
              /\ sv' = [sv EXCEPT ![c].pc = IF line = <<NL>> THEN "stat" ELSE "headers",
                                  ![c].rio = IF line = <<NL>> THEN rio_init ELSE NextLine(@)]
           \/ /\ ServerEOF(c) /\ line = <<>> /\ sv[c].pc = "header"
              /\ \E next \in {"stat", "headers"} :
                    sv' = [sv EXCEPT ![c].pc = next, ![c].rio = rio_init]
        /\ UNCHANGED <<disk, changes, sock, cl, served, recv, disturbed>>

\* request_readfile up to stat: 404 or 403, an empty file, or a size.
request_stat(c) ==
    LET content == disk[sv[c].file]
    IN  /\ sv[c].pc = "stat"
        /\ \/ content = Absent /\ Answer(c, ErrorBody)
           \/ content = <<>> /\ Answer(c, <<>>)
           \/ /\ content \notin {Absent, <<>>}
              /\ sv' = [sv EXCEPT ![c].pc = "load", ![c].size = Len(content)]
              /\ UNCHANGED served
        /\ UNCHANGED <<disk, changes, sock, cl, recv, disturbed>>

\* The rest of request_readfile: open, which must not fail any more, and
\* Rio_read into a buffer of the size stat has told.  What a file that has
\* become shorter does not fill stays uninitialised.
request_load(c) ==
    LET content == disk[sv[c].file]
        size    == sv[c].size
    IN  /\ sv[c].pc = "load"
        /\ \/ content = Absent /\ ServerExit
           \/ /\ content # Absent
              /\ \E g \in [1 .. (size - Min({size, Len(content)})) -> Garbage] :
                    Answer(c, SubSeq(content, 1, Min({size, Len(content)})) \o g)
              /\ UNCHANGED <<disk, changes, sock, cl, recv, disturbed>>

\* request_sendfile and request_error write the answer with Rio_write.  A
\* connection the client has closed takes the data once or ends the process.
request_sendfile(c) ==
    /\ sv[c].pc = "send" /\ sv[c].out # <<>>
    /\ \/ /\ sock[c].cl = "open"
          /\ \E k \in Writable(sv[c].out, sock[c].down) :
                /\ sv' = [sv EXCEPT ![c].out = rio_write(@, k)]
                /\ sock' = [sock EXCEPT ![c].down = @ \o SubSeq(sv[c].out, 1, k)]
          /\ UNCHANGED <<disk, changes, cl, served, recv, disturbed>>
       \/ /\ sock[c].cl = "closed"
          /\ sv' = [sv EXCEPT ![c].out = <<>>]
          /\ UNCHANGED <<disk, changes, sock, cl, served, recv, disturbed>>
       \/ sock[c].cl = "closed" /\ ServerExit

\* Mutant: the connection is never closed.
request_destroy_leaks(c) ==
    /\ sv[c].pc = "send" /\ sv[c].out = <<>>
    /\ sv' = [sv EXCEPT ![c].pc = "done"]
    /\ UNCHANGED <<disk, changes, sock, cl, served, recv, disturbed>>

\* request_destroy: close(rq->fd).
request_destroy(c) ==
    /\ sv[c].pc = "send" /\ sv[c].out = <<>>
    /\ sv' = [sv EXCEPT ![c].pc = "done"]
    /\ sock' = [sock EXCEPT ![c] = SvClosed(@)]
    /\ UNCHANGED <<disk, changes, cl, served, recv, disturbed>>

ServerStep(c) ==
    \/ server_read(c) \/ request_init(c) \/ request_read_headers(c) \/ request_stat(c)
    \/ request_load(c) \/ request_sendfile(c) \/ request_destroy(c)

-----------------------------------------------------------------------------
(* The surroundings. *)

\* Somebody writes or removes a file while the server runs.
ChangeFile(f) ==
    /\ changes < MaxChanges
    /\ \E v \in Versions[f] : disk' = [disk EXCEPT ![f] = v]
    /\ changes' = changes + 1 /\ disturbed' = TRUE
    /\ UNCHANGED <<sock, cl, sv, served, recv>>

\* A client other than client.c is interrupted.
KillClient(c) ==
    /\ c \in Simple /\ sock[c].cl = "open"
    /\ ClientExit(c) /\ disturbed' = TRUE

Next ==
    \/ \E c \in Conns : ClientStep(c) \/ ServerStep(c) \/ KillClient(c)
    \/ \E f \in Files : ChangeFile(f)

\* Every thread of both processes runs when it can; read and write return once
\* there is data, room or an end.  Nobody has to change files or kill clients.
Fairness == \A c \in Conns : WF_vars(ClientStep(c)) /\ WF_vars(ServerStep(c))

Spec == Init /\ [][Next]_vars /\ Fairness

-----------------------------------------------------------------------------
(* Properties. *)

Unit == {"byte", "GET", "PUT", "host", "status", "length", "csum"} \X (Nat \cup Files)

\* Types of the connections, the clients and the workers.
TypeOK ==
    /\ \A c \in Conns :
        /\ sock[c].up \in Seq(Unit) /\ sock[c].down \in Seq(Unit)
        /\ Len(sock[c].up) <= SockSize /\ Len(sock[c].down) <= SockSize
        /\ sock[c].cl \in {"none", "open", "closed"} /\ sock[c].sv \in {"none", "open", "closed"}
        /\ sock[c].rst \in BOOLEAN
        /\ cl[c].pc \in {"start", "send", "first", "head", "body", "check", "ok", "dead"}
        /\ sv[c].pc \in {"none", "request", "header", "headers", "stat", "load", "send",
                         "done", "dead"}
        /\ cl[c].left \in 0 .. NrTimes /\ cl[c].method \in {"GET", "PUT"} /\ cl[c].file \in Files \cup {Absent}
        /\ Len(cl[c].rio.line) <= MAXBUF /\ Len(sv[c].rio.line) <= MAXBUF
        /\ Len(cl[c].rio.buf) <= RIO_BUFSIZE /\ Len(sv[c].rio.buf) <= RIO_BUFSIZE

\* Units between the line the client has taken and the end of the answer.
InFlight(c) == cl[c].rio.line \o cl[c].rio.buf \o sock[c].down \o sv[c].out

\* However reads, writes and lines cut the stream, nothing of an answer is lost,
\* repeated or reordered between request_sendfile and client_print: what is on
\* the way is the rest of the answer, and together with what client_print has
\* counted it is the body (common.c: rio_write, rio_readb, rio_readlineb).
StreamExact ==
    \A c \in Conns :
        sv[c].pc \in {"send", "done"} /\ sock[c].cl = "open" =>
            /\ IsSuffix(InFlight(c), Response(served[c]))
            /\ cl[c].pc \in {"body", "check"} => recv[c] \o InFlight(c) = served[c]

\* As long as nobody changes a file or kills a client, no GET fails, whatever
\* else is asked for at the same time: every assertion of client_print holds
\* (client.c, client_simple.c), and no system call (common.c: unix_error) ends
\* the server, client.c or another client that sent a GET.  A client that sends
\* another method may well end: request_init answers 501 and closes with header
\* lines unread, which resets the connection.
UndisturbedSucceeds ==
    ~disturbed =>
        /\ ServerUp /\ ClientUp
        /\ \A c \in Simple : cl[c].pc = "dead" => cl[c].method # "GET"

\* A thread of client.c that goes on to its next request has the whole body of
\* one answer, as long as the file set says, even if the server process ended in
\* the middle of it; only an empty file is accepted without an answer.
AcceptedIsWhole ==
    \A c \in Threads :
        cl[c].pc = "ok" =>
            /\ Len(recv[c]) = Len(Orig[cl[c].file]) /\ Csum(recv[c]) = Csum(Orig[cl[c].file])
            /\ recv[c] = served[c] \/ recv[c] = <<>>

\* A connection whose client went away before it had sent its whole request.
Cut(c) == sock[c].cl = "closed" /\ cl[c].out # <<>>

\* A worker finishes every request, unless the client left in the middle of the
\* request: then request_read_headers may loop for ever.
WorkersReturn == \A c \in Conns : Working(c) ~> (~Working(c) \/ Cut(c))

\* client.c comes to its end: each of its threads finishes its requests, or a
\* failure ends the process; no thread waits for ever for an answer.
ClientEnds == <>(\A c \in Threads : cl[c].pc = "dead" \/ (cl[c].pc = "ok" /\ cl[c].left = 0))

=============================================================================
