------------------------------ MODULE HttpProofs ------------------------------
(***************************************************************************)
(* Theorems about one request of the web server from end to end, for any   *)
(* number of clients, any files, any sizes of the buffers and however      *)
(* reads and writes cut the two streams of a connection.                   *)
(*                                                                         *)
(* The invariant is stated for the values of one connection (k the socket, *)
(* l the client, w the worker, b the body served, v the body received), so *)
(* that a step of one connection says nothing about the others.            *)
(***************************************************************************)
EXTENDS Http, QueueLemmas

Rios == [buf : Seq(Unit), line : Seq(Unit)]

Ends == {"none", "open", "closed"}

Socks == [up : Seq(Unit), down : Seq(Unit), cl : Ends, sv : Ends, rst : BOOLEAN]

Clients ==
    [pc : {"start", "send", "first", "head", "body", "check", "ok", "dead"},
     method : {"GET", "PUT"}, file : Files \cup {Absent}, out : Seq(Unit), rio : Rios,
     length : Nat, csum : Nat, length_received : Nat, csum_received : Nat,
     left : 0 .. NrTimes]

Workers ==
    [pc : {"none", "request", "header", "headers", "stat", "load", "send", "done", "dead"},
     file : Files \cup {Absent}, out : Seq(Unit), rio : Rios, size : Nat]

\* The input buffers of both sides: no line goes past its end, and while a
\* line is not complete nothing is left in the buffer.
RioOK(r) ==
    /\ r \in Rios /\ Len(r.buf) <= RIO_BUFSIZE /\ Len(r.line) <= MAXBUF
    /\ \A i \in 1 .. Len(r.line) - 1 : ~EndsLine(r.line[i])
    /\ r.buf = <<>> \/ LineDone(r)

\* s is what stands in R after the first n units.
Seg(s, R, n) ==
    /\ n + Len(s) <= Len(R)
    /\ \A i \in 1 .. Len(s) : s[i] = R[n + i]

\* The values of one connection by themselves.
Shape(k, l, w, b, v) ==
    /\ k \in Socks /\ l \in Clients /\ w \in Workers /\ b \in Seq(Bytes) /\ v \in Seq(Bytes)
    /\ RioOK(l.rio) /\ RioOK(w.rio)
    /\ Len(k.up) <= SockSize /\ Len(k.down) <= SockSize
    /\ l.length_received = Len(v) /\ l.csum_received = Csum(v)

\* Where the two ends of a connection and the two programs stand.
Phases(k, l, w) ==
    /\ k.cl = "open" <=> l.pc \in {"send", "first", "head", "body", "check"}
    /\ k.cl = "closed" => l.pc \in {"ok", "dead"}
    /\ l.pc = "ok" => k.cl = "closed" /\ k.sv = "closed"
    /\ k.cl = "none" => l.pc \in {"start", "dead"}
    /\ k.sv = "open" <=> w.pc \in {"request", "header", "headers", "stat", "load", "send"}
    /\ k.sv = "closed" => w.pc \in {"done", "dead"}
    /\ k.sv = "none" => w.pc \in {"none", "dead"}
    /\ k.cl = "none" <=> k.sv = "none"
    /\ k.rst => k.sv = "closed"
    /\ w.pc \notin {"send", "dead"} => w.out = <<>>
    /\ w.pc \in {"header", "headers", "stat", "load"} => w.file \in Files
    /\ l.pc = "send" => l.out # <<>>

\* One direction of a connection: the reader has taken n units of R, and what
\* it has buffered (r), what is in flight (q) and what the writer has still to
\* write (out) follow in this order.
StreamAt(r, q, out, R, n) ==
    /\ Seg(r.line, R, n)
    /\ Seg(r.buf, R, n + Len(r.line))
    /\ Seg(q, R, n + Len(r.line) + Len(r.buf))
    /\ Seg(out, R, n + Len(r.line) + Len(r.buf) + Len(q))

\* The units a reader has still to take.
Ahead(r, q, out) == Len(r.line) + Len(r.buf) + Len(q) + Len(out)

\* The client has read n units of the answer to the body b.
AnswerAt(k, l, w, b, v, n) ==
    /\ StreamAt(l.rio, k.down, w.out, Response(b), n)
    /\ w.pc \in {"send", "done"} => n + Ahead(l.rio, k.down, w.out) = 4 + Len(b)
    /\ l.pc \in {"send", "first"} => n = 0
    /\ l.pc = "head" => n \in 1 .. 3
    /\ l.pc \in {"send", "first", "head"} =>
            /\ v = <<>>
            /\ l.length = IF n < 2 THEN 0 ELSE Len(b)
            /\ l.csum = IF n < 3 THEN 0 ELSE Csum(b)
    /\ l.pc \in {"body", "check"} =>
            /\ n = 4 + Len(v) /\ Seg(v, b, 0) /\ l.length = Len(b) /\ l.csum = Csum(b)

\* The server process ended before the header of the answer was written.
EarlyEnd(k, l, w, v) ==
    /\ l.pc \in {"body", "check"} /\ w.pc = "dead"
    /\ v = <<>> /\ k.down = <<>> /\ l.rio = rio_init

\* The answer, on a connection the client has open.
AnswerOK(k, l, w, b, v) ==
    k.cl = "open" =>
        /\ EarlyEnd(k, l, w, v) \/ \E n \in 0 .. 4 + Len(v) : AnswerAt(k, l, w, b, v, n)
        /\ l.pc = "send" => l.rio = rio_init
        /\ l.pc = "check" => l.rio = rio_init /\ k.down = <<>> /\ k.sv = "closed"
        /\ w.pc \in {"request", "header", "headers", "stat", "load"} =>
                l.pc \in {"send", "first"} /\ l.rio = rio_init /\ k.down = <<>>

\* The client asks with GET, as every thread of client.c does.
Gets(c, l) == c \in Threads \/ l.method = "GET"

\* The worker has read m lines of the request r.
RequestAt(c, k, l, w, r, m) ==
    /\ r \in Asks[c] /\ l.method = r[1] /\ l.file = r[2]
    /\ StreamAt(w.rio, k.up, l.out, Request(r), m)
    /\ m + Ahead(w.rio, k.up, l.out) = 3
    /\ w.pc = "request" => m = 0
    /\ w.pc = "header" => m = 1
    /\ w.pc = "headers" => m = 2
    /\ w.pc \in {"header", "headers"} => r[1] = "GET" /\ w.file = r[2]

\* The request, on a connection the client has open: a GET is read to its end
\* before it is answered.
RequestOK(c, k, l, w) ==
    k.cl = "open" =>
        /\ w.pc \in {"request", "header", "headers"} =>
                \E r \in Asks[c], m \in 0 .. 2 : RequestAt(c, k, l, w, r, m)
        /\ w.pc \in {"stat", "load"} => k.up = <<>> /\ l.out = <<>> /\ w.file = l.file
        /\ Gets(c, l) /\ w.pc \in {"send", "done"} => k.up = <<>> /\ l.out = <<>>

\* What a thread of client.c has accepted.
AcceptOK(c, l, b, v) ==
    c \in Threads /\ l.pc = "ok" =>
        /\ Len(v) = Len(Orig[l.file]) /\ Csum(v) = Csum(Orig[l.file])
        /\ v = b \/ v = <<>>

\* A connection while no file has been changed and no client killed.
QuietConn(c, k, l, w, b) ==
    /\ w.pc # "dead"
    /\ Gets(c, l) => l.pc # "dead" /\ ~k.rst
    /\ k.cl = "closed" => w.pc = "done"
    /\ w.pc = "load" => w.size = Len(Orig[w.file])
    /\ Gets(c, l) /\ k.cl = "open" /\ w.pc \in {"send", "done"} => b = Orig[l.file]

ConnOK(c, k, l, w, b, v) ==
    /\ Shape(k, l, w, b, v)
    /\ Phases(k, l, w)
    /\ AnswerOK(k, l, w, b, v)
    /\ RequestOK(c, k, l, w)
    /\ AcceptOK(c, l, b, v)

Conn(c) == ConnOK(c, sock[c], cl[c], sv[c], served[c], recv[c])

Quiet(c) == QuietConn(c, sock[c], cl[c], sv[c], served[c])

Funs ==
    /\ sock \in [Conns -> Socks] /\ cl \in [Conns -> Clients] /\ sv \in [Conns -> Workers]
    /\ served \in [Conns -> Seq(Bytes)] /\ recv \in [Conns -> Seq(Bytes)]
    /\ disturbed \in BOOLEAN
    /\ DOMAIN disk = Files /\ \A f \in Files : disk[f] = Absent \/ disk[f] \in Seq(Bytes)
    /\ disk = [f \in Files |-> disk[f]]

\* The inductive invariant.
HInv ==
    /\ Funs
    /\ \A c \in Conns : Conn(c)
    /\ ~disturbed => disk = Orig /\ \A c \in Conns : Quiet(c)

-----------------------------------------------------------------------------
(* The checksum. *)

\* The checksum after each unit of a body.
LEMMA CsumSteps ==
    ASSUME NEW q \in Seq(Bytes)
    PROVE  /\ CsumUpTo(q) \in [0 .. Len(q) -> Nat]
           /\ CsumUpTo(q)[0] = 0
           /\ \A i \in 1 .. Len(q) : CsumUpTo(q)[i] = CsumUpTo(q)[i - 1] + q[i][2]
<1> DEFINE L == Len(q)
           st == [i \in 1 .. L |-> [a \in Nat |-> a + q[i][2]]]
           val(f, i) == IF i = 0 THEN 0 ELSE f[i - 1] + q[i][2]
           body(f) == [i \in 0 .. L |-> val(f, i)]
           k == CsumUpTo(q)
<1>1. L \in Nat /\ 0 \in Nat OBVIOUS
<1>2. \A i \in 1 .. L : q[i][2] \in Nat BY DEF Bytes
<1>3. st \in [1 .. L -> [Nat -> Nat]]
  <2>1. \A i \in 1 .. L : [a \in Nat |-> a + q[i][2]] \in [Nat -> Nat] BY <1>2
  <2> HIDE DEF L
  <2> QED BY <2>1
<1>4. \A i \in 1 .. L : \A a \in Nat : st[i][a] = a + q[i][2] OBVIOUS
<1>5. k = CHOOSE g : g = body(g) BY DEF CsumUpTo
<1> HIDE DEF st, L, k
<1>6. PICK f \in [0 .. L -> Nat] : f[0] = 0 /\ \A i \in 1 .. L : f[i] = st[i][f[i - 1]]
  <2>1. HasSteps(Nat, 0, L, st) BY <1>1, <1>3, StepsExist
  <2> QED BY <2>1 DEF HasSteps
<1>7. f = body(f)
  <2>1. \A i \in 1 .. L : i - 1 \in 0 .. L /\ f[i - 1] \in Nat BY <1>1
  <2>2. \A i \in 1 .. L : f[i] = f[i - 1] + q[i][2] BY <1>4, <1>6, <2>1
  <2>3. \A i \in 0 .. L : i = 0 \/ i \in 1 .. L BY <1>1
  <2>4. \A i \in 0 .. L : f[i] = val(f, i) BY <1>6, <2>2, <2>3
  <2>5. f = [i \in 0 .. L |-> f[i]] OBVIOUS
  <2> HIDE DEF val
  <2> QED BY <2>4, <2>5, Zenon
<1>8. k = body(k)
  <2> HIDE DEF body
  <2> QED BY <1>5, <1>7
<1>9. (\A i \in 0 .. L : k[i] = val(k, i)) /\ DOMAIN k = 0 .. L
  <2> HIDE DEF val
  <2> QED BY <1>8, Zenon
<1>10. k[0] = 0 BY <1>1, <1>9
<1>11. \A i \in 1 .. L : k[i] = k[i - 1] + q[i][2]
  <2>1. \A i \in 1 .. L : i \in 0 .. L /\ i # 0 BY <1>1
  <2> QED BY <1>9, <2>1, Zenon
<1>12. k = [i \in 0 .. L |-> k[i]]
  <2> HIDE DEF val
  <2> QED BY <1>8, <1>9
<1> HIDE DEF body, val
<1> DEFINE T == {i \in 0 .. L : k[i] \in Nat}
<1>13. 0 \in T BY <1>1, <1>10
<1>14. ASSUME NEW i \in 1 .. L, i - 1 \in T PROVE i \in T
  <2>1. i \in 0 .. L /\ q[i][2] \in Nat BY <1>1, <1>2
  <2>2. k[i - 1] \in Nat BY <1>14
  <2>3. k[i] \in Nat BY <1>11, <2>1, <2>2
  <2> QED BY <2>1, <2>3
<1>15. \A i \in 0 .. L : i \in T
  <2> HIDE DEF T
  <2> QED BY <1>1, <1>13, <1>14, UpTo
<1>16. k \in [0 .. L -> Nat] BY <1>12, <1>15
<1> QED BY <1>10, <1>11, <1>16 DEF L, k

\* A checksum is a number, and 0 for an empty body.
LEMMA CsumNumber ==
    /\ \A q \in Seq(Bytes) : Csum(q) \in Nat
    /\ Csum(<<>>) = 0
<1>1. ASSUME NEW q \in Seq(Bytes) PROVE Csum(q) \in Nat
  <2>1. CsumUpTo(q) \in [0 .. Len(q) -> Nat] BY CsumSteps
  <2>2. Len(q) \in 0 .. Len(q) OBVIOUS
  <2> QED BY <2>1, <2>2 DEF Csum
<1>2. <<>> \in Seq(Bytes) /\ Len(<<>>) = 0 OBVIOUS
<1>3. CsumUpTo(<<>>)[0] = 0 BY <1>2, CsumSteps
<1> QED BY <1>1, <1>2, <1>3 DEF Csum

\* The client adds up the checksums of the lines it reads.
LEMMA CsumConcat ==
    ASSUME NEW p \in Seq(Bytes), NEW q \in Seq(Bytes)
    PROVE  Csum(p \o q) = Csum(p) + Csum(q)
<1> DEFINE a == p \o q
           T1 == {i \in 0 .. Len(p) : CsumUpTo(a)[i] = CsumUpTo(p)[i]}
           T2 == {i \in 0 .. Len(q) : CsumUpTo(a)[Len(p) + i] = Csum(p) + CsumUpTo(q)[i]}
<1>1. /\ a \in Seq(Bytes) /\ Len(a) = Len(p) + Len(q) /\ Len(p) \in Nat /\ Len(q) \in Nat
      /\ \A i \in 1 .. Len(p) : a[i] = p[i]
      /\ \A i \in 1 .. Len(q) : a[Len(p) + i] = q[i]
  OBVIOUS
<1> HIDE DEF a
<1>2. /\ CsumUpTo(a) \in [0 .. Len(a) -> Nat] /\ CsumUpTo(a)[0] = 0
      /\ \A i \in 1 .. Len(a) : CsumUpTo(a)[i] = CsumUpTo(a)[i - 1] + a[i][2]
  BY <1>1, CsumSteps
<1>3. /\ CsumUpTo(p) \in [0 .. Len(p) -> Nat] /\ CsumUpTo(p)[0] = 0
      /\ \A i \in 1 .. Len(p) : CsumUpTo(p)[i] = CsumUpTo(p)[i - 1] + p[i][2]
  BY CsumSteps
<1>4. /\ CsumUpTo(q) \in [0 .. Len(q) -> Nat] /\ CsumUpTo(q)[0] = 0
      /\ \A i \in 1 .. Len(q) : CsumUpTo(q)[i] = CsumUpTo(q)[i - 1] + q[i][2]
  BY CsumSteps
<1>5. \A i \in 0 .. Len(p) : i \in T1
  <2>1. 0 \in T1 BY <1>1, <1>2, <1>3
  <2>2. ASSUME NEW i \in 1 .. Len(p), i - 1 \in T1 PROVE i \in T1
    <3>1. i \in 1 .. Len(a) /\ i \in 0 .. Len(p) BY <1>1
    <3>2. CsumUpTo(a)[i - 1] = CsumUpTo(p)[i - 1] BY <2>2
    <3>3. CsumUpTo(a)[i] = CsumUpTo(a)[i - 1] + a[i][2] BY <1>2, <3>1
    <3>4. CsumUpTo(p)[i] = CsumUpTo(p)[i - 1] + p[i][2] BY <1>3
    <3>5. a[i] = p[i] BY <1>1
    <3>6. CsumUpTo(a)[i] = CsumUpTo(p)[i] BY <3>2, <3>3, <3>4, <3>5
    <3> QED BY <3>1, <3>6
  <2> HIDE DEF T1
  <2> QED BY <1>1, <2>1, <2>2, UpTo
<1>6. CsumUpTo(a)[Len(p)] = Csum(p)
  <2>1. Len(p) \in T1 BY <1>1, <1>5
  <2> QED BY <2>1 DEF Csum
<1>7. Csum(p) \in Nat BY CsumNumber
<1>8. \A i \in 0 .. Len(q) : i \in T2
  <2>1. 0 \in T2 BY <1>1, <1>4, <1>6, <1>7
  <2>2. ASSUME NEW i \in 1 .. Len(q), i - 1 \in T2 PROVE i \in T2
    <3>1. Len(p) + i \in 1 .. Len(a) /\ i \in 0 .. Len(q) /\ i - 1 \in 0 .. Len(q) BY <1>1
    <3>2. CsumUpTo(a)[Len(p) + (i - 1)] = Csum(p) + CsumUpTo(q)[i - 1] BY <2>2
    <3>3. CsumUpTo(a)[Len(p) + i] = CsumUpTo(a)[(Len(p) + i) - 1] + a[Len(p) + i][2]
      BY <1>2, <3>1
    <3>4. CsumUpTo(q)[i] = CsumUpTo(q)[i - 1] + q[i][2] BY <1>4
    <3>5. a[Len(p) + i] = q[i] BY <1>1
    <3>6. q[i][2] \in Nat /\ CsumUpTo(q)[i - 1] \in Nat
      <4>1. q[i] \in Bytes OBVIOUS
      <4>2. q[i][2] \in Nat BY <4>1 DEF Bytes
      <4> QED BY <1>4, <3>1, <4>2
    <3>7. Len(p) + (i - 1) = (Len(p) + i) - 1 BY <1>1
    <3>8. CsumUpTo(a)[Len(p) + i] = (Csum(p) + CsumUpTo(q)[i - 1]) + q[i][2]
      BY <3>2, <3>3, <3>5, <3>7
    <3>9. CsumUpTo(a)[Len(p) + i] = Csum(p) + CsumUpTo(q)[i] BY <1>7, <3>4, <3>6, <3>8
    <3> QED BY <3>1, <3>9
  <2> HIDE DEF T2
  <2> QED BY <1>1, <2>1, <2>2, UpTo
<1>9. Len(q) \in T2 BY <1>1, <1>8
<1>10. CsumUpTo(a)[Len(a)] = Csum(p) + CsumUpTo(q)[Len(q)] BY <1>1, <1>9
<1> QED BY <1>10 DEF Csum, a

-----------------------------------------------------------------------------
(* Streams of units. *)

\* The least of a set of numbers.
LEMMA MinOf ==
    ASSUME NEW T, T \subseteq Nat, T # {}
    PROVE  Min(T) \in T /\ \A y \in T : Min(T) <= y
  BY LeastNumber DEF Min

\* The two parts of a piece.
LEMMA SegSplit ==
    ASSUME NEW S, NEW s \in Seq(S), NEW R \in Seq(S), NEW n \in Nat, Seg(s, R, n),
           NEW k \in 0 .. Len(s)
    PROVE  /\ SubSeq(s, 1, k) \in Seq(S) /\ Len(SubSeq(s, 1, k)) = k
           /\ SubSeq(s, k + 1, Len(s)) \in Seq(S) /\ Len(SubSeq(s, k + 1, Len(s))) = Len(s) - k
           /\ Seg(SubSeq(s, 1, k), R, n)
           /\ Seg(SubSeq(s, k + 1, Len(s)), R, n + k)
<1> DEFINE p == SubSeq(s, 1, k)
           q == SubSeq(s, k + 1, Len(s))
<1>1. /\ p \in Seq(S) /\ Len(p) = k /\ \A i \in 1 .. k : p[i] = s[i]
      /\ q \in Seq(S) /\ Len(q) = Len(s) - k /\ \A i \in 1 .. Len(s) - k : q[i] = s[k + i]
      /\ Len(s) \in Nat /\ Len(R) \in Nat
  BY SMTT(30)
<1> HIDE DEF p, q
<1>2. n + Len(s) <= Len(R) /\ \A i \in 1 .. Len(s) : s[i] = R[n + i] BY DEF Seg
<1>3. Seg(p, R, n) BY <1>1, <1>2 DEF Seg
<1>4. Seg(q, R, n + k)
  <2>1. ASSUME NEW i \in 1 .. Len(q) PROVE q[i] = R[(n + k) + i]
    <3>1. k + i \in 1 .. Len(s) /\ n + (k + i) = (n + k) + i BY <1>1
    <3> QED BY <1>1, <1>2, <3>1
  <2> QED BY <1>1, <1>2, <2>1 DEF Seg
<1> QED BY <1>1, <1>3, <1>4 DEF p, q

\* Two pieces, one behind the other.
LEMMA SegConcat ==
    ASSUME NEW S, NEW s \in Seq(S), NEW t \in Seq(S), NEW R \in Seq(S), NEW n \in Nat,
           Seg(s, R, n), Seg(t, R, n + Len(s))
    PROVE  s \o t \in Seq(S) /\ Len(s \o t) = Len(s) + Len(t) /\ Seg(s \o t, R, n)
<1> DEFINE a == s \o t
<1>1. /\ a \in Seq(S) /\ Len(a) = Len(s) + Len(t)
      /\ \A i \in 1 .. Len(s) : a[i] = s[i]
      /\ \A i \in 1 .. Len(t) : a[Len(s) + i] = t[i]
      /\ Len(s) \in Nat /\ Len(t) \in Nat /\ Len(R) \in Nat
  OBVIOUS
<1> HIDE DEF a
<1>2. (n + Len(s)) + Len(t) <= Len(R) /\ \A i \in 1 .. Len(t) : t[i] = R[(n + Len(s)) + i]
  BY DEF Seg
<1>3. \A i \in 1 .. Len(s) : s[i] = R[n + i] BY DEF Seg
<1>4. ASSUME NEW i \in 1 .. Len(a) PROVE a[i] = R[n + i]
  <2>1. CASE i <= Len(s) BY <1>1, <1>3, <2>1
  <2>2. CASE i > Len(s)
    <3> DEFINE j == i - Len(s)
    <3>1. j \in 1 .. Len(t) /\ Len(s) + j = i /\ (n + Len(s)) + j = n + i BY <1>1, <2>2
    <3> HIDE DEF j
    <3> QED BY <1>1, <1>2, <3>1
  <2> QED BY <1>1, <2>1, <2>2
<1>5. Seg(a, R, n) BY <1>1, <1>2, <1>4 DEF Seg
<1> QED BY <1>1, <1>5 DEF a

\* Nothing is a piece of everything.
LEMMA SegEmpty ==
    ASSUME NEW S, NEW R \in Seq(S), NEW n \in 0 .. Len(R)
    PROVE  Seg(<<>>, R, n)
  BY DEF Seg

\* A piece from the beginning that is as long as the whole.
LEMMA SegWhole ==
    ASSUME NEW S, NEW s \in Seq(S), NEW R \in Seq(S), Seg(s, R, 0), Len(s) = Len(R)
    PROVE  s = R
  BY DEF Seg

\* A piece up to the end.
LEMMA SegSuffix ==
    ASSUME NEW S, NEW s \in Seq(S), NEW R \in Seq(S), NEW n \in Nat, Seg(s, R, n),
           n + Len(s) = Len(R)
    PROVE  IsSuffix(s, R)
<1> DEFINE p == Reverse(s)
           q == Reverse(R)
<1>1. Len(s) \in Nat /\ Len(R) \in Nat OBVIOUS
<1>2. p \in Seq(S) /\ Len(p) = Len(s) /\ \A i \in 1 .. Len(s) : p[i] = s[(Len(s) - i) + 1]
  <2>1. \A i \in 1 .. Len(s) : (Len(s) - i) + 1 \in 1 .. Len(s) BY <1>1
  <2>2. p \in [1 .. Len(s) -> S] BY <2>1 DEF Reverse
  <2> QED BY <1>1, <2>2 DEF Reverse
<1>3. q \in Seq(S) /\ Len(q) = Len(R) /\ \A i \in 1 .. Len(R) : q[i] = R[(Len(R) - i) + 1]
  <2>1. \A i \in 1 .. Len(R) : (Len(R) - i) + 1 \in 1 .. Len(R) BY <1>1
  <2>2. q \in [1 .. Len(R) -> S] BY <2>1 DEF Reverse
  <2> QED BY <1>1, <2>2 DEF Reverse
<1> HIDE DEF p, q
<1>4. ASSUME NEW i \in 1 .. Len(s) PROVE p[i] = q[i]
  <2> DEFINE j == (Len(s) - i) + 1
  <2>1. j \in 1 .. Len(s) /\ n + j = (Len(R) - i) + 1 /\ i \in 1 .. Len(R) BY <1>1
  <2>2. s[j] = R[n + j] BY <2>1 DEF Seg
  <2>3. p[i] = s[j] BY <1>2
  <2> HIDE DEF j
  <2> QED BY <1>3, <2>1, <2>2, <2>3
<1>5. SubSeq(p, 1, Len(p)) = SubSeq(q, 1, Len(p))
  <2>1. Len(p) <= Len(q) BY <1>1, <1>2, <1>3
  <2>2. /\ SubSeq(p, 1, Len(p)) \in Seq(S) /\ Len(SubSeq(p, 1, Len(p))) = Len(p)
        /\ \A i \in 1 .. Len(p) : SubSeq(p, 1, Len(p))[i] = p[i]
    BY <1>2
  <2>3. /\ SubSeq(q, 1, Len(p)) \in Seq(S) /\ Len(SubSeq(q, 1, Len(p))) = Len(p)
        /\ \A i \in 1 .. Len(p) : SubSeq(q, 1, Len(p))[i] = q[i]
    BY <1>2, <1>3, <2>1
  <2> QED BY <1>2, <1>4, <2>2, <2>3
<1>6. Len(p) <= Len(q) BY <1>1, <1>2, <1>3
<1> QED BY <1>5, <1>6 DEF IsSuffix, IsPrefix, p, q

\* rio_readlineb over a buffer, for a line that has not come to an end.
LEMMA ReadLine ==
    ASSUME NEW buf \in Seq(Unit), NEW line \in Seq(Unit),
           Len(buf) <= RIO_BUFSIZE, Len(line) < MAXBUF,
           \A i \in 1 .. Len(line) : ~EndsLine(line[i])
    PROVE  \E j \in 0 .. Len(buf) :
             /\ rio_readlineb([buf |-> buf, line |-> line])
                  = [buf |-> SubSeq(buf, j + 1, Len(buf)), line |-> line \o SubSeq(buf, 1, j)]
             /\ RioOK(rio_readlineb([buf |-> buf, line |-> line]))
             /\ buf # <<>> => j # 0
<1> DEFINE r == [buf |-> buf, line |-> line]
           room == MAXBUF - Len(line)
           E == {i \in DOMAIN buf : EndsLine(buf[i])}
           T == {Len(buf), room} \cup E
           j == Min(T)
           nb == SubSeq(buf, j + 1, Len(buf))
           nl == line \o SubSeq(buf, 1, j)
           x == rio_readlineb(r)
<1>1. /\ Len(buf) \in Nat /\ Len(line) \in Nat /\ DOMAIN buf = 1 .. Len(buf)
      /\ MAXBUF \in Nat /\ RIO_BUFSIZE \in Nat
  BY HttpAssumption
<1>2. room \in Nat \ {0} BY <1>1
<1>3. T \subseteq Nat /\ T # {} /\ E \subseteq 1 .. Len(buf) BY <1>1, <1>2
<1>4. j \in T /\ \A y \in T : j <= y
  <2> HIDE DEF T
  <2> QED BY <1>3, MinOf
<1>5. x = [buf |-> nb, line |-> nl] BY DEF rio_readlineb
<1> HIDE DEF x, j
<1>6. j \in 0 .. Len(buf) /\ j <= room
  <2>1. j \in Nat BY <1>3, <1>4
  <2>2. Len(buf) \in T /\ room \in T OBVIOUS
  <2>3. j <= Len(buf) /\ j <= room BY <1>4, <2>2
  <2> QED BY <1>1, <2>1, <2>3
<1>7. \A i \in 1 .. Len(buf) : i < j => ~EndsLine(buf[i])
  <2> SUFFICES ASSUME NEW i \in 1 .. Len(buf), i < j, EndsLine(buf[i]) PROVE FALSE OBVIOUS
  <2>1. i \in T BY <1>1
  <2>2. j <= i BY <1>4, <2>1
  <2> QED BY <1>6, <2>2
<1>8. j = Len(buf) \/ j = room \/ (j \in 1 .. Len(buf) /\ EndsLine(buf[j]))
  BY <1>1, <1>4
<1> HIDE DEF T, E
<1>9. /\ nb \in Seq(Unit) /\ Len(nb) = Len(buf) - j
      /\ SubSeq(buf, 1, j) \in Seq(Unit) /\ Len(SubSeq(buf, 1, j)) = j
      /\ \A i \in 1 .. j : SubSeq(buf, 1, j)[i] = buf[i]
  BY <1>6
<1>10. /\ nl \in Seq(Unit) /\ Len(nl) = Len(line) + j
       /\ \A i \in 1 .. Len(line) : nl[i] = line[i]
       /\ \A i \in 1 .. j : nl[Len(line) + i] = buf[i]
  <2> DEFINE p == SubSeq(buf, 1, j)
  <2>1. /\ p \in Seq(Unit) /\ Len(p) = j /\ \A i \in 1 .. j : p[i] = buf[i] BY <1>9
  <2> HIDE DEF p
  <2>2. ASSUME NEW s \in Seq(Unit)
        PROVE  /\ line \o s \in Seq(Unit) /\ Len(line \o s) = Len(line) + Len(s)
               /\ \A i \in 1 .. Len(line) : (line \o s)[i] = line[i]
               /\ \A i \in 1 .. Len(s) : (line \o s)[Len(line) + i] = s[i]
    BY ONLY line \in Seq(Unit), s \in Seq(Unit)
  <2> QED BY <2>1, <2>2 DEF p
<1> HIDE DEF nb, nl
<1>11. \A i \in 1 .. Len(nl) - 1 : ~EndsLine(nl[i])
  <2> SUFFICES ASSUME NEW i \in 1 .. Len(nl) - 1 PROVE ~EndsLine(nl[i]) OBVIOUS
  <2>1. CASE i <= Len(line)
    <3>1. i \in 1 .. Len(line) BY <1>1, <1>10, <2>1
    <3>2. ~EndsLine(line[i]) BY <3>1
    <3> QED BY <1>10, <3>1, <3>2
  <2>2. CASE i > Len(line)
    <3> DEFINE h == i - Len(line)
    <3>1. /\ h \in 1 .. j /\ h < j /\ h \in 1 .. Len(buf) /\ Len(line) + h = i
      BY <1>1, <1>6, <1>10, <2>2
    <3> HIDE DEF h
    <3>2. ~EndsLine(buf[h]) BY <1>7, <3>1
    <3> QED BY <1>10, <3>1, <3>2
  <2> QED BY <1>1, <1>6, <1>10, <2>1, <2>2
<1>12. nb = <<>> \/ LineDone(x)
  <2>1. CASE j = Len(buf) BY <1>1, <1>9, <2>1
  <2>2. CASE j = room
    <3>1. Len(nl) = MAXBUF BY <1>1, <1>10, <2>2
    <3>2. x.line = nl BY <1>5
    <3> QED BY <3>1, <3>2 DEF LineDone
  <2>3. CASE j \in 1 .. Len(buf) /\ EndsLine(buf[j])
    <3>1. nl # <<>> /\ Last(nl) = nl[Len(line) + j] BY <1>1, <1>10, <2>3 DEF Last
    <3>2. nl[Len(line) + j] = buf[j] BY <1>6, <1>10, <2>3
    <3>3. x.line = nl BY <1>5
    <3> QED BY <2>3, <3>1, <3>2, <3>3 DEF LineDone
  <2> QED BY <1>8, <2>1, <2>2, <2>3
<1>13. RioOK(x)
  <2>1. x.buf = nb /\ x.line = nl /\ x \in Rios BY <1>5, <1>9, <1>10 DEF Rios
  <2>2. Len(nb) <= RIO_BUFSIZE BY <1>1, <1>6, <1>9
  <2>3. Len(nl) <= MAXBUF BY <1>1, <1>6, <1>10
  <2> HIDE DEF r
  <2> QED BY <1>11, <1>12, <2>1, <2>2, <2>3 DEF RioOK
<1>14. buf # <<>> => j # 0
  <2> SUFFICES ASSUME buf # <<>>, j = 0 PROVE FALSE OBVIOUS
  <2>1. Len(buf) # 0 OBVIOUS
  <2> QED BY <1>2, <1>8, <2>1
<1> QED BY <1>5, <1>6, <1>13, <1>14 DEF x, nb, nl

\* Lines that have not come to an end hold no end of a line.
LEMMA OpenLine ==
    ASSUME NEW r, RioOK(r), ~LineDone(r)
    PROVE  /\ r.buf = <<>> /\ r.line \in Seq(Unit) /\ Len(r.line) < MAXBUF
           /\ \A i \in 1 .. Len(r.line) : ~EndsLine(r.line[i])
<1>1. r.buf = <<>> /\ r.line \in Seq(Unit) BY DEF RioOK, Rios
<1>2. Len(r.line) \in Nat /\ MAXBUF \in Nat BY <1>1, HttpAssumption
<1>3. Len(r.line) # MAXBUF /\ Len(r.line) <= MAXBUF BY DEF RioOK, LineDone
<1>4. Len(r.line) < MAXBUF BY <1>2, <1>3
<1>5. ASSUME NEW i \in 1 .. Len(r.line) PROVE ~EndsLine(r.line[i])
  <2>1. CASE i = Len(r.line)
    <3>1. r.line # <<>> BY <1>1, <1>2
    <3>2. ~EndsLine(Last(r.line)) BY <3>1 DEF LineDone
    <3> QED BY <2>1, <3>2 DEF Last
  <2>2. CASE i # Len(r.line)
    <3>1. i \in 1 .. Len(r.line) - 1 BY <1>2, <2>2
    <3> QED BY <3>1 DEF RioOK
  <2> QED BY <2>1, <2>2
<1> QED BY <1>1, <1>4, <1>5

\* The types of a buffer.
LEMMA RioType ==
    ASSUME NEW r, RioOK(r)
    PROVE  /\ r \in Rios /\ r.buf \in Seq(Unit) /\ r.line \in Seq(Unit)
           /\ Len(r.buf) \in Nat /\ Len(r.line) \in Nat
<1>1. r \in Rios BY DEF RioOK
<1>2. r.buf \in Seq(Unit) /\ r.line \in Seq(Unit) BY <1>1 DEF Rios
<1> QED BY <1>1, <1>2

\* An empty buffer.
LEMMA RioInit == RioOK(rio_init) /\ ~LineDone(rio_init) /\ rio_init \in Rios
<1>1. MAXBUF \in Nat \ {0} /\ RIO_BUFSIZE \in Nat BY HttpAssumption
<1>2. /\ rio_init \in Rios /\ rio_init.buf = <<>> /\ rio_init.line = <<>>
  BY DEF rio_init, Rios
<1>3. Len(<<>>) = 0 OBVIOUS
<1>4. 1 .. (0 - 1) = {} OBVIOUS
<1>5. RioOK(rio_init) BY <1>1, <1>2, <1>3, <1>4 DEF RioOK
<1>6. ~LineDone(rio_init) BY <1>1, <1>2, <1>3 DEF LineDone
<1> QED BY <1>2, <1>5, <1>6

\* read() and the loop of rio_readlineb: some of the units read go to the line,
\* the others stay in the buffer.
LEMMA ReadBuf ==
    ASSUME NEW r, RioOK(r), ~LineDone(r), NEW q \in Seq(Unit), NEW k \in Readable(q)
    PROVE  /\ k \in 1 .. Len(q)
           /\ RioOK(rio_readb(r, q, k))
           /\ SubSeq(q, k + 1, Len(q)) \in Seq(Unit)
           /\ Len(SubSeq(q, k + 1, Len(q))) <= Len(q)
           /\ \E j \in 0 .. k :
                rio_readb(r, q, k) = [buf |-> SubSeq(SubSeq(q, 1, k), j + 1, k),
                                      line |-> r.line \o SubSeq(SubSeq(q, 1, k), 1, j)]
<1>1. k \in 1 .. Len(q) /\ k <= RIO_BUFSIZE /\ Len(q) \in Nat
  BY HttpAssumption DEF Readable
<1> DEFINE s == SubSeq(q, 1, k)
<1>2. s \in Seq(Unit) /\ Len(s) = k BY <1>1
<1>3. SubSeq(q, k + 1, Len(q)) \in Seq(Unit) /\ Len(SubSeq(q, k + 1, Len(q))) = Len(q) - k
  BY <1>1
<1>4. Len(SubSeq(q, k + 1, Len(q))) <= Len(q) BY <1>1, <1>3
<1>5. rio_readb(r, q, k) = rio_readlineb([buf |-> s, line |-> r.line]) BY DEF rio_readb
<1> HIDE DEF s
<1>6. /\ r.line \in Seq(Unit) /\ Len(r.line) < MAXBUF
      /\ \A i \in 1 .. Len(r.line) : ~EndsLine(r.line[i])
  BY OpenLine
<1>7. \E j \in 0 .. Len(s) :
        /\ rio_readlineb([buf |-> s, line |-> r.line])
             = [buf |-> SubSeq(s, j + 1, Len(s)), line |-> r.line \o SubSeq(s, 1, j)]
        /\ RioOK(rio_readlineb([buf |-> s, line |-> r.line]))
  <2>1. Len(s) <= RIO_BUFSIZE BY <1>1, <1>2
  <2> QED BY <1>2, <1>6, <2>1, ReadLine
<1> QED BY <1>1, <1>2, <1>3, <1>4, <1>5, <1>7 DEF s

\* The next line, from what is left in the buffer.
LEMMA NextBuf ==
    ASSUME NEW r, RioOK(r)
    PROVE  /\ RioOK(NextLine(r))
           /\ \E j \in 0 .. Len(r.buf) :
                /\ NextLine(r) = [buf |-> SubSeq(r.buf, j + 1, Len(r.buf)),
                                  line |-> <<>> \o SubSeq(r.buf, 1, j)]
                /\ r.buf # <<>> => j # 0
<1>1. /\ r.buf \in Seq(Unit) /\ Len(r.buf) <= RIO_BUFSIZE BY RioType DEF RioOK
<1>2. <<>> \in Seq(Unit) /\ Len(<<>>) = 0 /\ 0 < MAXBUF BY HttpAssumption
<1>3. \A i \in 1 .. Len(<<>>) : ~EndsLine(<<>>[i]) BY <1>2
<1>4. \E j \in 0 .. Len(r.buf) :
         /\ rio_readlineb([buf |-> r.buf, line |-> <<>>])
              = [buf |-> SubSeq(r.buf, j + 1, Len(r.buf)), line |-> <<>> \o SubSeq(r.buf, 1, j)]
         /\ RioOK(rio_readlineb([buf |-> r.buf, line |-> <<>>]))
         /\ r.buf # <<>> => j # 0
  BY <1>1, <1>2, <1>3, ReadLine
<1> QED BY <1>4 DEF NextLine

\* The next line of an empty buffer is empty.
LEMMA NextEmpty ==
    ASSUME NEW r, RioOK(r), r.buf = <<>>
    PROVE  NextLine(r) = rio_init
<1>1. PICK j \in 0 .. Len(r.buf) :
          NextLine(r) = [buf |-> SubSeq(r.buf, j + 1, Len(r.buf)), line |-> <<>> \o SubSeq(r.buf, 1, j)]
  BY NextBuf
<1>2. j = 0 /\ Len(r.buf) = 0 OBVIOUS
<1>3. SubSeq(<<>>, 1, 0) = <<>> /\ <<>> \o <<>> = <<>> OBVIOUS
<1> QED BY <1>1, <1>2, <1>3 DEF rio_init

\* Reading keeps a stream as it is.
LEMMA StreamRead ==
    ASSUME NEW r, RioOK(r), ~LineDone(r), NEW q \in Seq(Unit), NEW k \in Readable(q),
           NEW out \in Seq(Unit), NEW R \in Seq(Unit), NEW n \in Nat, StreamAt(r, q, out, R, n)
    PROVE  /\ StreamAt(rio_readb(r, q, k), SubSeq(q, k + 1, Len(q)), out, R, n)
           /\ Ahead(rio_readb(r, q, k), SubSeq(q, k + 1, Len(q)), out) = Ahead(r, q, out)
<1> DEFINE x == rio_readb(r, q, k)
           y == SubSeq(q, k + 1, Len(q))
           s == SubSeq(q, 1, k)
<1>1. /\ k \in 1 .. Len(q) /\ RioOK(x) BY ReadBuf
<1>2. PICK j \in 0 .. k : x = [buf |-> SubSeq(s, j + 1, k), line |-> r.line \o SubSeq(s, 1, j)]
  BY ReadBuf
<1>3. r.buf = <<>> /\ r.line \in Seq(Unit) /\ Len(r.line) \in Nat BY OpenLine, RioType
<1>4. Len(<<>>) = 0 /\ Len(q) \in Nat /\ Len(out) \in Nat OBVIOUS
<1> DEFINE n1 == n + Len(r.line)
<1>5. n1 \in Nat BY <1>3
<1>6. Seg(r.line, R, n) /\ Seg(q, R, n1) /\ Seg(out, R, n1 + Len(q))
  <2>1. /\ Seg(q, R, (n + Len(r.line)) + 0)
        /\ Seg(out, R, ((n + Len(r.line)) + 0) + Len(q))
    BY <1>3, <1>4 DEF StreamAt
  <2>2. (n + Len(r.line)) + 0 = n1 BY <1>3
  <2> QED BY <2>1, <2>2 DEF StreamAt
<1> HIDE DEF x
<1>7. /\ s \in Seq(Unit) /\ Len(s) = k /\ y \in Seq(Unit) /\ Len(y) = Len(q) - k
      /\ Seg(s, R, n1) /\ Seg(y, R, n1 + k)
  <2>1. k \in 0 .. Len(q) BY <1>1, <1>4
  <2> HIDE DEF n1
  <2> QED BY <1>5, <1>6, <2>1, SegSplit
<1> HIDE DEF s, y
<1> DEFINE p == SubSeq(s, 1, j)
           u == SubSeq(s, j + 1, Len(s))
<1>8. /\ p \in Seq(Unit) /\ Len(p) = j /\ u \in Seq(Unit) /\ Len(u) = k - j
      /\ Seg(p, R, n1) /\ Seg(u, R, n1 + j)
  <2>1. j \in 0 .. Len(s) BY <1>7
  <2> HIDE DEF n1
  <2>2. s \in Seq(Unit) /\ Seg(s, R, n1) /\ n1 \in Nat BY <1>5, <1>7
  <2>3. /\ p \in Seq(Unit) /\ Len(p) = j /\ u \in Seq(Unit) /\ Len(u) = Len(s) - j
        /\ Seg(p, R, n1) /\ Seg(u, R, n1 + j)
    <3>1. /\ SubSeq(s, 1, j) \in Seq(Unit) /\ Len(SubSeq(s, 1, j)) = j
          /\ SubSeq(s, j + 1, Len(s)) \in Seq(Unit)
          /\ Len(SubSeq(s, j + 1, Len(s))) = Len(s) - j
          /\ Seg(SubSeq(s, 1, j), R, n1) /\ Seg(SubSeq(s, j + 1, Len(s)), R, n1 + j)
      BY ONLY <2>1, <2>2, R \in Seq(Unit), SegSplit
    <3> QED BY <3>1
  <2> QED BY <1>7, <2>3
<1> HIDE DEF p, u
<1>9. /\ r.line \o p \in Seq(Unit) /\ Len(r.line \o p) = Len(r.line) + j
      /\ Seg(r.line \o p, R, n)
  BY <1>3, <1>6, <1>8, SegConcat
<1>10. x.line = r.line \o p /\ x.buf = u BY <1>2, <1>7 DEF p, u
<1>11. j \in Nat /\ k \in Nat BY <1>1, <1>2
<1> DEFINE L == Len(r.line)
<1>12. /\ Len(x.line) = L + j /\ Len(x.buf) = k - j /\ L \in Nat BY <1>3, <1>8, <1>9, <1>10
<1>13. Seg(x.line, R, n) BY <1>9, <1>10
<1>14. Seg(x.buf, R, n + Len(x.line))
  <2>1. n + (L + j) = n1 + j BY <1>11, <1>12
  <2> QED BY <1>8, <1>10, <1>12, <2>1
<1>15. (n + (L + j)) + (k - j) = n1 + k BY <1>11, <1>12
<1>16. Seg(y, R, n + Len(x.line) + Len(x.buf)) BY <1>7, <1>12, <1>15
<1>17. Seg(out, R, n + Len(x.line) + Len(x.buf) + Len(y))
  <2>1. (n1 + k) + (Len(q) - k) = n1 + Len(q) BY <1>4, <1>5, <1>11
  <2> QED BY <1>6, <1>7, <1>12, <1>15, <2>1
<1>18. Ahead(x, y, out) = Ahead(r, q, out)
  <2>1. Len(r.buf) = 0 BY <1>3, <1>4
  <2>2. (((L + j) + (k - j)) + (Len(q) - k)) + Len(out) = ((L + 0) + Len(q)) + Len(out)
    BY <1>4, <1>11, <1>12
  <2> QED BY <1>7, <1>12, <2>1, <2>2 DEF Ahead
<1> QED BY <1>13, <1>14, <1>16, <1>17, <1>18 DEF StreamAt, x, y

\* Writing keeps a stream as it is, and writes what there is to write.
LEMMA StreamWrite ==
    ASSUME NEW r, RioOK(r), NEW q \in Seq(Unit), NEW out \in Seq(Unit), NEW R \in Seq(Unit),
           NEW n \in Nat, StreamAt(r, q, out, R, n), NEW k \in 1 .. Len(out)
    PROVE  /\ StreamAt(r, q \o SubSeq(out, 1, k), rio_write(out, k), R, n)
           /\ Ahead(r, q \o SubSeq(out, 1, k), rio_write(out, k)) = Ahead(r, q, out)
<1> DEFINE s == SubSeq(out, 1, k)
           y == rio_write(out, k)
           a == Len(r.line)
           b == Len(r.buf)
           n2 == n + a + b
<1>1. a \in Nat /\ b \in Nat /\ Len(q) \in Nat /\ Len(out) \in Nat BY RioType
<1>2. /\ Seg(r.line, R, n) /\ Seg(r.buf, R, n + a) /\ Seg(q, R, n2) /\ Seg(out, R, n2 + Len(q))
  BY DEF StreamAt
<1>3. y = SubSeq(out, k + 1, Len(out)) BY DEF rio_write
<1> HIDE DEF a, b, y
<1>4. n2 \in Nat BY <1>1
<1> HIDE DEF n2
<1>5. /\ s \in Seq(Unit) /\ Len(s) = k /\ y \in Seq(Unit) /\ Len(y) = Len(out) - k
      /\ Seg(s, R, n2 + Len(q)) /\ Seg(y, R, (n2 + Len(q)) + k)
  <2>1. k \in 0 .. Len(out) /\ n2 + Len(q) \in Nat BY <1>1, <1>4
  <2> QED BY <1>2, <1>3, <2>1, SegSplit
<1> HIDE DEF s
<1>6. Len(q \o s) = Len(q) + k /\ Seg(q \o s, R, n2) BY <1>2, <1>4, <1>5, SegConcat
<1>7. Seg(y, R, n2 + Len(q \o s))
  <2>1. (n2 + Len(q)) + k = n2 + (Len(q) + k) BY <1>1, <1>4
  <2> QED BY <1>5, <1>6, <2>1
<1>8. a + b + Len(q \o s) + Len(y) = a + b + Len(q) + Len(out) BY <1>1, <1>5, <1>6
<1>9. Ahead(r, q \o s, y) = Ahead(r, q, out) BY <1>8 DEF Ahead, a, b
<1> QED BY <1>2, <1>6, <1>7, <1>9 DEF StreamAt, n2, a, b, y, s

\* The reader takes a line and goes on to the next.
LEMMA StreamNext ==
    ASSUME NEW r, RioOK(r), NEW q \in Seq(Unit), NEW out \in Seq(Unit), NEW R \in Seq(Unit),
           NEW n \in Nat, StreamAt(r, q, out, R, n)
    PROVE  /\ StreamAt(NextLine(r), q, out, R, n + Len(r.line))
           /\ Ahead(r, q, out) = Len(r.line) + Ahead(NextLine(r), q, out)
<1> DEFINE x == NextLine(r)
           line == r.line
           buf == r.buf
           n1 == n + Len(line)
<1>1. line \in Seq(Unit) /\ buf \in Seq(Unit) BY RioType
<1>2. PICK j \in 0 .. Len(buf) :
        x = [buf |-> SubSeq(buf, j + 1, Len(buf)), line |-> <<>> \o SubSeq(buf, 1, j)]
  BY NextBuf
<1>3. /\ Seg(buf, R, n1) /\ Seg(q, R, n1 + Len(buf)) /\ Seg(out, R, n1 + Len(buf) + Len(q))
  BY DEF StreamAt
<1>4. Ahead(r, q, out) = Len(line) + Len(buf) + Len(q) + Len(out) BY DEF Ahead
<1> HIDE DEF x, line, buf
<1>5. /\ Len(line) \in Nat /\ Len(buf) \in Nat /\ Len(q) \in Nat /\ Len(out) \in Nat /\ n1 \in Nat
  BY <1>1
<1> HIDE DEF n1
<1> DEFINE p == SubSeq(buf, 1, j)
           u == SubSeq(buf, j + 1, Len(buf))
<1>6. /\ p \in Seq(Unit) /\ Len(p) = j /\ u \in Seq(Unit) /\ Len(u) = Len(buf) - j
      /\ Seg(p, R, n1) /\ Seg(u, R, n1 + j)
  BY <1>1, <1>3, <1>5, SegSplit, SMTT(30)
<1> HIDE DEF p, u
<1>7. <<>> \o p = p BY <1>6
<1>8. x.line = p /\ x.buf = u BY <1>2, <1>7 DEF p, u
<1>9. j \in Nat BY <1>5
<1>10. n1 + j + (Len(buf) - j) = n1 + Len(buf) BY <1>5, <1>9
<1>11. Len(x.line) = j BY <1>6, <1>8
<1>12. Len(x.buf) = Len(buf) - j BY <1>6, <1>8
<1>13. n1 + Len(x.line) + Len(x.buf) = n1 + Len(buf) BY <1>10, <1>11, <1>12
<1>14. StreamAt(x, q, out, R, n1) BY <1>3, <1>6, <1>8, <1>11, <1>13 DEF StreamAt
<1>15. Len(line) + Len(buf) + Len(q) + Len(out) = Len(line) + (j + (Len(buf) - j) + Len(q) + Len(out))
  BY <1>5, <1>9
<1>16. Ahead(x, q, out) = j + (Len(buf) - j) + Len(q) + Len(out) BY <1>11, <1>12 DEF Ahead
<1>17. Ahead(r, q, out) = Len(line) + Ahead(x, q, out) BY <1>4, <1>15, <1>16
<1> QED BY <1>14, <1>17 DEF x, n1, line

\* Where the next unit ends a line, the line is that unit.
LEMMA StreamLine ==
    ASSUME NEW r, RioOK(r), NEW q, NEW out, NEW R \in Seq(Unit),
           NEW n \in Nat, StreamAt(r, q, out, R, n), EndsLine(R[n + 1]), r.line # <<>>
    PROVE  Len(r.line) = 1 /\ r.line = <<R[n + 1]>> /\ r.line[1] = R[n + 1] /\ n < Len(R)
<1> DEFINE s == r.line
<1>1. s \in Seq(Unit) /\ s # <<>> BY RioType
<1>2. n + Len(s) <= Len(R) /\ \A i \in 1 .. Len(s) : s[i] = R[n + i] BY DEF StreamAt, Seg
<1>3. \A i \in 1 .. Len(s) - 1 : ~EndsLine(s[i]) BY DEF RioOK
<1> HIDE DEF s
<1>4. Len(s) \in Nat \ {0} /\ Len(R) \in Nat BY <1>1
<1>5. 1 \in 1 .. Len(s) BY <1>4
<1>6. s[1] = R[n + 1] BY <1>2, <1>5
<1>7. Len(s) = 1
  <2> SUFFICES ASSUME Len(s) # 1 PROVE FALSE OBVIOUS
  <2>1. \A i \in Nat \ {0} : i # 1 => 1 \in 1 .. i - 1 OBVIOUS
  <2>2. 1 \in 1 .. Len(s) - 1 BY <1>4, <2>1
  <2>3. ~EndsLine(s[1]) BY <1>3, <2>2
  <2> QED BY <1>6, <2>3
<1>8. n < Len(R) BY <1>2, <1>4
<1>9. s = <<s[1]>> BY <1>1, <1>7
<1> QED BY <1>6, <1>7, <1>8, <1>9 DEF s

\* A line that is done is not empty.
LEMMA DoneLine == ASSUME NEW r, RioOK(r), LineDone(r) PROVE r.line # <<>>
<1>1. MAXBUF # 0 BY HttpAssumption
<1>2. Len(<<>>) = 0 OBVIOUS
<1> QED BY <1>1, <1>2 DEF LineDone

-----------------------------------------------------------------------------
(* Requests and answers. *)

\* Bytes are units.
LEMMA BytesAreUnits == Bytes \subseteq Unit /\ Seq(Bytes) \subseteq Seq(Unit) /\ NL \in Bytes
<1>1. Bytes \subseteq Unit BY DEF Bytes, Unit
<1>2. NL \in Bytes BY DEF NL, Byte, Bytes
<1>3. ASSUME NEW s \in Seq(Bytes) PROVE s \in Seq(Unit) BY <1>1
<1> QED BY <1>1, <1>2, <1>3

\* The four units of a header and the body behind them.
LEMMA ResponseUnits ==
    ASSUME NEW b \in Seq(Bytes)
    PROVE  /\ Response(b) \in Seq(Unit) /\ Len(Response(b)) = 4 + Len(b)
           /\ Response(b)[1] = <<"status", 0>>
           /\ Response(b)[2] = <<"length", Len(b)>>
           /\ Response(b)[3] = <<"csum", Csum(b)>>
           /\ Response(b)[4] = NL
           /\ \A i \in 1 .. Len(b) : Response(b)[4 + i] = b[i]
<1> DEFINE h == <<<<"status", 0>>, <<"length", Len(b)>>, <<"csum", Csum(b)>>, NL>>
<1>1. Csum(b) \in Nat /\ Len(b) \in Nat BY CsumNumber
<1>2. b \in Seq(Unit) /\ NL \in Unit BY BytesAreUnits
<1>3. /\ <<"status", 0>> \in Unit /\ <<"length", Len(b)>> \in Unit /\ <<"csum", Csum(b)>> \in Unit
  BY <1>1 DEF Unit
<1>4. /\ h \in Seq(Unit) /\ Len(h) = 4 /\ h[1] = <<"status", 0>> /\ h[2] = <<"length", Len(b)>>
      /\ h[3] = <<"csum", Csum(b)>> /\ h[4] = NL
  BY <1>2, <1>3
<1>5. Response(b) = h \o b BY DEF Response
<1> HIDE DEF h
<1>6. /\ h \o b \in Seq(Unit) /\ Len(h \o b) = 4 + Len(b)
      /\ \A i \in 1 .. 4 : (h \o b)[i] = h[i]
      /\ \A i \in 1 .. Len(b) : (h \o b)[4 + i] = b[i]
  <2>1. ASSUME NEW s \in Seq(Unit), NEW t \in Seq(Unit)
        PROVE  /\ s \o t \in Seq(Unit) /\ Len(s \o t) = Len(s) + Len(t)
               /\ \A i \in 1 .. Len(s) : (s \o t)[i] = s[i]
               /\ \A i \in 1 .. Len(t) : (s \o t)[Len(s) + i] = t[i]
    BY ONLY s \in Seq(Unit), t \in Seq(Unit)
  <2>2. h \in Seq(Unit) BY <1>4
  <2>3. /\ h \o b \in Seq(Unit) /\ Len(h \o b) = Len(h) + Len(b)
        /\ \A i \in 1 .. Len(h) : (h \o b)[i] = h[i]
        /\ \A i \in 1 .. Len(b) : (h \o b)[Len(h) + i] = b[i]
    BY ONLY <1>2, <2>1, <2>2
  <2>4. Len(h) = 4 BY <1>4
  <2> QED BY ONLY <2>3, <2>4
<1> QED BY <1>4, <1>5, <1>6

\* Each unit of the header is a line, and only the last one is empty.
LEMMA HeaderLines ==
    ASSUME NEW b \in Seq(Bytes)
    PROVE  /\ \A i \in 1 .. 4 : EndsLine(Response(b)[i])
           /\ \A i \in 1 .. 3 : Response(b)[i] # NL
<1> DEFINE R == Response(b)
<1>1. /\ R[1] = <<"status", 0>> /\ R[2] = <<"length", Len(b)>> /\ R[3] = <<"csum", Csum(b)>>
      /\ R[4] = NL
  BY ResponseUnits
<1> HIDE DEF R
<1>2. R[1][1] = "status" /\ R[2][1] = "length" /\ R[3][1] = "csum" BY <1>1
<1>3. NL[1] = "byte" BY DEF NL, Byte
<1>4. EndsLine(R[1]) /\ EndsLine(R[2]) /\ EndsLine(R[3]) /\ EndsLine(R[4])
  BY <1>1, <1>2 DEF EndsLine
<1>5. R[1] # NL /\ R[2] # NL /\ R[3] # NL BY <1>2, <1>3
<1>6. \A i \in 1 .. 4 : i = 1 \/ i = 2 \/ i = 3 \/ i = 4 OBVIOUS
<1>7. \A i \in 1 .. 3 : i = 1 \/ i = 2 \/ i = 3 OBVIOUS
<1> QED BY <1>4, <1>5, <1>6, <1>7 DEF R

\* The three lines of a request.
LEMMA RequestUnits ==
    ASSUME NEW r \in {"GET", "PUT"} \X Files
    PROVE  /\ Request(r) \in Seq(Unit) /\ Len(Request(r)) = 3
           /\ Request(r)[1] = r /\ Request(r)[2] = <<"host", 0>> /\ Request(r)[3] = NL
           /\ \A i \in 1 .. 3 : EndsLine(Request(r)[i])
           /\ <<"host", 0>> # NL
           /\ Request(r) # <<>>
<1> DEFINE h == <<"host", 0>>
           Q == Request(r)
<1>1. r \in Unit /\ h \in Unit BY DEF Unit
<1>2. NL \in Unit BY BytesAreUnits
<1>3. Q = <<r, h, NL>> BY DEF Request
<1>4. h[1] = "host" /\ NL[1] = "byte" /\ r[1] # "byte" BY DEF NL, Byte
<1> HIDE DEF h, Q
<1>5. /\ Q \in Seq(Unit) /\ Len(Q) = 3 /\ Q[1] = r /\ Q[2] = h /\ Q[3] = NL BY <1>1, <1>2, <1>3
<1>6. EndsLine(r) /\ EndsLine(h) /\ EndsLine(NL) BY <1>4 DEF EndsLine
<1>7. \A i \in 1 .. 3 : i = 1 \/ i = 2 \/ i = 3 OBVIOUS
<1>8. \A i \in 1 .. 3 : EndsLine(Q[i]) BY <1>5, <1>6, <1>7
<1>9. h # NL BY <1>4
<1>10. Q # <<>> BY <1>5
<1> QED BY <1>5, <1>8, <1>9, <1>10 DEF h, Q

\* A piece of the answer behind its header is a piece of the body.
LEMMA BodySeg ==
    ASSUME NEW b \in Seq(Bytes), NEW s \in Seq(Unit), NEW n \in Nat, Seg(s, Response(b), 4 + n)
    PROVE  s \in Seq(Bytes) /\ Seg(s, b, n)
<1> DEFINE R == Response(b)
<1>1. Len(R) = 4 + Len(b) /\ \A i \in 1 .. Len(b) : R[4 + i] = b[i] BY ResponseUnits
<1>2. (4 + n) + Len(s) <= Len(R) /\ \A i \in 1 .. Len(s) : s[i] = R[(4 + n) + i] BY DEF Seg
<1> HIDE DEF R
<1>3. Len(s) \in Nat /\ Len(b) \in Nat OBVIOUS
<1>4. n + Len(s) <= Len(b) BY <1>1, <1>2, <1>3
<1>5. ASSUME NEW i \in 1 .. Len(s) PROVE s[i] = b[n + i] /\ b[n + i] \in Bytes
  <2> DEFINE x == n + i
  <2>1. x \in 1 .. Len(b) /\ (4 + n) + i = 4 + x BY <1>3, <1>4
  <2>2. b[x] \in Bytes BY <2>1
  <2> HIDE DEF x
  <2>3. s[i] = b[x] BY <1>1, <1>2, <2>1
  <2> QED BY <2>2, <2>3 DEF x
<1>6. Seg(s, b, n) BY <1>4, <1>5 DEF Seg
<1>7. s \in [1 .. Len(s) -> Bytes] BY <1>5
<1>8. s \in Seq(Bytes) BY <1>3, <1>7
<1> QED BY <1>6, <1>8

\* A stream of which nothing has been written.
LEMMA StreamStart ==
    ASSUME NEW R \in Seq(Unit)
    PROVE  /\ StreamAt(rio_init, <<>>, R, R, 0) /\ Ahead(rio_init, <<>>, R) = Len(R)
           /\ StreamAt(rio_init, <<>>, <<>>, R, 0) /\ Ahead(rio_init, <<>>, <<>>) = 0
<1>1. rio_init.line = <<>> /\ rio_init.buf = <<>> BY DEF rio_init
<1>2. Len(<<>>) = 0 /\ Len(R) \in Nat /\ 0 + 0 = 0 /\ 0 + 0 + 0 + Len(R) = Len(R) OBVIOUS
<1>3. Seg(<<>>, R, 0) BY <1>2, SegEmpty
<1>4. Seg(R, R, 0) BY <1>2 DEF Seg
<1>5. StreamAt(rio_init, <<>>, R, R, 0) BY <1>1, <1>2, <1>3, <1>4 DEF StreamAt
<1>6. StreamAt(rio_init, <<>>, <<>>, R, 0) BY <1>1, <1>2, <1>3 DEF StreamAt
<1>7. Ahead(rio_init, <<>>, R) = Len(R) BY <1>1, <1>2 DEF Ahead
<1>8. Ahead(rio_init, <<>>, <<>>) = 0 BY <1>1, <1>2 DEF Ahead
<1> QED BY <1>5, <1>6, <1>7, <1>8

\* The types of the fields of a connection.
LEMMA Fields ==
    ASSUME NEW k, NEW l, NEW w, NEW b, NEW v, Shape(k, l, w, b, v)
    PROVE  /\ k \in Socks /\ l \in Clients /\ w \in Workers /\ b \in Seq(Bytes) /\ v \in Seq(Bytes)
           /\ k.up \in Seq(Unit) /\ k.down \in Seq(Unit) /\ k.cl \in Ends /\ k.sv \in Ends
           /\ l.out \in Seq(Unit) /\ w.out \in Seq(Unit)
           /\ RioOK(l.rio) /\ RioOK(w.rio) /\ l.rio \in Rios /\ w.rio \in Rios
           /\ Response(b) \in Seq(Unit) /\ Len(b) \in Nat /\ Len(v) \in Nat
<1>1. k \in Socks /\ l \in Clients /\ w \in Workers /\ b \in Seq(Bytes) /\ v \in Seq(Bytes)
  BY DEF Shape
<1>2. k.up \in Seq(Unit) /\ k.down \in Seq(Unit) /\ k.cl \in Ends /\ k.sv \in Ends
  BY <1>1 DEF Socks
<1>3. l.out \in Seq(Unit) /\ l.rio \in Rios BY <1>1 DEF Clients
<1>4. w.out \in Seq(Unit) /\ w.rio \in Rios BY <1>1 DEF Workers
<1>5. RioOK(l.rio) /\ RioOK(w.rio) BY DEF Shape
<1>6. Response(b) \in Seq(Unit) /\ Len(b) \in Nat /\ Len(v) \in Nat BY <1>1, ResponseUnits
<1> QED BY <1>1, <1>2, <1>3, <1>4, <1>5, <1>6

\* How much is ahead is a number.
LEMMA AheadNat ==
    ASSUME NEW r, RioOK(r), NEW q \in Seq(Unit), NEW out \in Seq(Unit)
    PROVE  Ahead(r, q, out) \in Nat /\ (Ahead(r, q, out) = 0 => q = <<>> /\ out = <<>>)
<1> DEFINE a == Len(r.line)
           b == Len(r.buf)
<1>1. a \in Nat /\ b \in Nat /\ Len(q) \in Nat /\ Len(out) \in Nat BY RioType
<1>2. Ahead(r, q, out) = a + b + Len(q) + Len(out) BY DEF Ahead
<1> HIDE DEF a, b
<1>3. a + b + Len(q) + Len(out) \in Nat BY <1>1
<1>4. a + b + Len(q) + Len(out) = 0 => Len(q) = 0 /\ Len(out) = 0 BY <1>1
<1>5. (Len(q) = 0 => q = <<>>) /\ (Len(out) = 0 => out = <<>>) OBVIOUS
<1> QED BY <1>2, <1>3, <1>4, <1>5

-----------------------------------------------------------------------------
(* Steps of the client on one connection. *)

\* open_clientfd: a new connection.
LEMMA OpenConn ==
    ASSUME NEW c \in Conns, NEW r \in Asks[c], NEW left \in 0 .. NrTimes
    PROVE  LET k == [NoConn EXCEPT !.cl = "open", !.sv = "open"]
               l == [Idle EXCEPT !.pc = "send", !.method = r[1], !.file = r[2], !.out = Request(r),
                             !.left = left]
               w == [NoWork EXCEPT !.pc = "request"]
           IN  /\ ConnOK(c, k, l, w, <<>>, <<>>)
               /\ QuietConn(c, k, l, w, <<>>)
<1> DEFINE k == [NoConn EXCEPT !.cl = "open", !.sv = "open"]
           l == [Idle EXCEPT !.pc = "send", !.method = r[1], !.file = r[2], !.out = Request(r),
                             !.left = left]
           w == [NoWork EXCEPT !.pc = "request"]
           b == <<>>
<1>1. r \in {"GET", "PUT"} \X Files BY HttpAssumption DEF Conns
<1>2. /\ Request(r) \in Seq(Unit) /\ Len(Request(r)) = 3 /\ Request(r) # <<>>
      /\ r[1] \in {"GET", "PUT"} /\ r[2] \in Files
  BY <1>1, RequestUnits
<1>3. b \in Seq(Bytes) /\ <<>> \in Seq(Unit) /\ Len(<<>>) = 0 /\ Csum(<<>>) = 0 BY CsumNumber
<1>4. RioOK(rio_init) /\ rio_init \in Rios BY RioInit
<1>5. /\ k.up = <<>> /\ k.down = <<>> /\ k.cl = "open" /\ k.sv = "open" /\ k.rst = FALSE
      /\ k \in Socks
  BY <1>3 DEF NoConn, Socks, Ends
<1>6. /\ l.pc = "send" /\ l.method = r[1] /\ l.file = r[2] /\ l.out = Request(r) /\ l.rio = rio_init
      /\ l.length = 0 /\ l.csum = 0 /\ l.length_received = 0 /\ l.csum_received = 0
      /\ l.left = left /\ l \in Clients
  BY <1>2, <1>4 DEF Idle, Clients
<1>7. /\ w.pc = "request" /\ w.file = Absent /\ w.out = <<>> /\ w.rio = rio_init /\ w.size = 0
      /\ w \in Workers
  BY <1>3, <1>4 DEF NoWork, Workers
<1> HIDE DEF k, l, w
<1>8. Shape(k, l, w, b, b)
  <2>1. 0 <= SockSize BY HttpAssumption
  <2> QED BY <1>3, <1>4, <1>5, <1>6, <1>7, <2>1 DEF Shape
<1>9. Phases(k, l, w) BY <1>2, <1>5, <1>6, <1>7 DEF Phases
<1>10. AnswerOK(k, l, w, b, b)
  <2>1. Response(b) \in Seq(Unit) BY <1>3, ResponseUnits
  <2>2. StreamAt(rio_init, <<>>, <<>>, Response(b), 0) BY <2>1, StreamStart
  <2>3. AnswerAt(k, l, w, b, b, 0) BY <1>5, <1>6, <1>7, <2>2 DEF AnswerAt
  <2>4. 0 \in 0 .. 4 + Len(b) BY <1>3
  <2> QED BY <1>5, <1>6, <1>7, <2>3, <2>4 DEF AnswerOK
<1>11. RequestOK(c, k, l, w)
  <2>1. StreamAt(rio_init, <<>>, Request(r), Request(r), 0) /\ Ahead(rio_init, <<>>, Request(r)) = 3
    BY <1>2, StreamStart
  <2>2. RequestAt(c, k, l, w, r, 0) BY <1>5, <1>6, <1>7, <2>1 DEF RequestAt
  <2>3. 0 \in 0 .. 2 OBVIOUS
  <2> QED BY <1>5, <1>6, <1>7, <2>2, <2>3 DEF RequestOK, Gets
<1>12. AcceptOK(c, l, b, b) BY <1>6 DEF AcceptOK
<1>13. QuietConn(c, k, l, w, b) BY <1>5, <1>6, <1>7 DEF QuietConn, Gets
<1> QED BY <1>8, <1>9, <1>10, <1>11, <1>12, <1>13 DEF ConnOK, k, l, w, b

\* The process of the client ends.
LEMMA ExitConn ==
    ASSUME NEW c \in Conns, NEW k, NEW l, NEW w, NEW b, NEW v, ConnOK(c, k, l, w, b, v)
    PROVE  LET k2 == IF k.cl = "open" THEN [k EXCEPT !.cl = "closed", !.down = <<>>] ELSE k
               l2 == [l EXCEPT !.pc = "dead"]
           IN  /\ ConnOK(c, k2, l2, w, b, v)
               /\ ~Gets(c, l) /\ (k.cl = "open" => k.sv = "closed")
                    /\ QuietConn(c, k, l, w, b) => QuietConn(c, k2, l2, w, b)
<1> DEFINE k2 == IF k.cl = "open" THEN [k EXCEPT !.cl = "closed", !.down = <<>>] ELSE k
           l2 == [l EXCEPT !.pc = "dead"]
<1>1. Shape(k, l, w, b, v) /\ Phases(k, l, w) BY DEF ConnOK
<1>2. k \in Socks /\ l \in Clients /\ w \in Workers /\ k.down \in Seq(Unit) /\ k.cl \in Ends
  BY <1>1, Fields
<1>3. <<>> \in Seq(Unit) /\ Len(<<>>) = 0 OBVIOUS
<1>4. /\ l2 \in Clients /\ l2.pc = "dead" /\ l2.rio = l.rio /\ l2.out = l.out /\ l2.method = l.method
      /\ l2.length_received = l.length_received /\ l2.csum_received = l.csum_received
  BY <1>2 DEF Clients
<1>5. /\ k2 \in Socks /\ k2.up = k.up /\ k2.sv = k.sv /\ k2.rst = k.rst
      /\ k2.cl = IF k.cl = "open" THEN "closed" ELSE k.cl
      /\ k2.down = <<>> \/ k2.down = k.down
  BY <1>2, <1>3 DEF Socks, Ends
<1> HIDE DEF k2, l2
<1>6. Shape(k2, l2, w, b, v)
  <2>1. 0 <= SockSize BY HttpAssumption
  <2> QED BY <1>1, <1>3, <1>4, <1>5, <2>1 DEF Shape
<1>7. Phases(k2, l2, w) BY <1>1, <1>2, <1>4, <1>5 DEF Phases, Ends
<1>8. k2.cl # "open" BY <1>5
<1>9. AnswerOK(k2, l2, w, b, v) /\ RequestOK(c, k2, l2, w) BY <1>8 DEF AnswerOK, RequestOK, Gets
<1>10. AcceptOK(c, l2, b, v) BY <1>4 DEF AcceptOK
<1>11. ASSUME ~Gets(c, l), k.cl = "open" => k.sv = "closed", QuietConn(c, k, l, w, b)
       PROVE  QuietConn(c, k2, l2, w, b)
  <2>1. k.sv = "closed" => w.pc \in {"done", "dead"} BY <1>1 DEF Phases
  <2> QED BY <1>4, <1>5, <1>11, <2>1 DEF QuietConn, Gets
<1> QED BY <1>6, <1>7, <1>9, <1>10, <1>11 DEF ConnOK, k2, l2

\* client_send: rio_write of a part of the request.
LEMMA SendConn ==
    ASSUME NEW c \in Conns, NEW k, NEW l, NEW w, NEW b, NEW v, ConnOK(c, k, l, w, b, v),
           l.pc = "send", NEW j \in Writable(l.out, k.up)
    PROVE  LET out == rio_write(l.out, j)
               k2  == [k EXCEPT !.up = @ \o SubSeq(l.out, 1, j)]
               l2  == [l EXCEPT !.out = out, !.pc = IF out = <<>> THEN "first" ELSE "send"]
           IN  /\ ConnOK(c, k2, l2, w, b, v)
               /\ QuietConn(c, k, l, w, b) => QuietConn(c, k2, l2, w, b)
<1> DEFINE out == rio_write(l.out, j)
           up  == k.up \o SubSeq(l.out, 1, j)
           k2  == [k EXCEPT !.up = k.up \o SubSeq(l.out, 1, j)]
           l2  == [l EXCEPT !.out = out, !.pc = IF out = <<>> THEN "first" ELSE "send"]
<1>1. Shape(k, l, w, b, v) /\ Phases(k, l, w) /\ AnswerOK(k, l, w, b, v) /\ RequestOK(c, k, l, w)
  BY DEF ConnOK
<1>2. /\ k \in Socks /\ l \in Clients /\ w \in Workers /\ k.up \in Seq(Unit) /\ l.out \in Seq(Unit)
      /\ RioOK(w.rio)
  BY <1>1, Fields
<1>3. j \in 1 .. Len(l.out) /\ Len(k.up) + j <= SockSize BY DEF Writable
<1>4. /\ up \in Seq(Unit) /\ Len(up) = Len(k.up) + j
      /\ out \in Seq(Unit)
  <2>1. SubSeq(l.out, 1, j) \in Seq(Unit) /\ Len(SubSeq(l.out, 1, j)) = j BY <1>2, <1>3
  <2>2. SubSeq(l.out, j + 1, Len(l.out)) \in Seq(Unit) BY <1>2, <1>3
  <2> QED BY <1>2, <2>1, <2>2 DEF rio_write
<1> HIDE DEF out, up
<1>5. /\ l2 \in Clients /\ l2.pc = IF out = <<>> THEN "first" ELSE "send"
      /\ l2.rio = l.rio /\ l2.out = out /\ l2.method = l.method /\ l2.file = l.file
      /\ l2.length = l.length /\ l2.csum = l.csum
      /\ l2.length_received = l.length_received /\ l2.csum_received = l.csum_received
  BY <1>2, <1>4 DEF Clients
<1>6. /\ k2 \in Socks /\ k2.up = up /\ k2.sv = k.sv /\ k2.rst = k.rst /\ k2.cl = k.cl
      /\ k2.down = k.down
  BY <1>2, <1>4 DEF Socks, up
<1> HIDE DEF k2, l2
<1>7. Shape(k2, l2, w, b, v) BY <1>1, <1>3, <1>4, <1>5, <1>6 DEF Shape
<1>8. Phases(k2, l2, w) BY <1>1, <1>5, <1>6 DEF Phases
<1>9. k.cl = "open" /\ l.rio = rio_init BY <1>1 DEF Phases, AnswerOK
<1>10. AnswerOK(k2, l2, w, b, v)
  <2>1. PICK n \in 0 .. 4 + Len(v) : AnswerAt(k, l, w, b, v, n)
    BY <1>1, <1>9 DEF AnswerOK, EarlyEnd
  <2>2. AnswerAt(k2, l2, w, b, v, n) BY <1>5, <1>6, <2>1 DEF AnswerAt
  <2>3. l2.pc \in {"first", "send"} BY <1>5
  <2> QED BY <1>1, <1>5, <1>6, <1>9, <2>2, <2>3 DEF AnswerOK
<1>11. l.out # <<>> BY <1>1 DEF Phases
<1>12. RequestOK(c, k2, l2, w)
  <2>1. ASSUME w.pc \in {"request", "header", "headers"}
        PROVE  \E r \in Asks[c], m \in 0 .. 2 : RequestAt(c, k2, l2, w, r, m)
    <3>1. PICK r \in Asks[c], m \in 0 .. 2 : RequestAt(c, k, l, w, r, m)
      BY <1>1, <1>9, <2>1 DEF RequestOK, Gets
    <3>2. r \in {"GET", "PUT"} \X Files BY HttpAssumption DEF Conns
    <3>3. Request(r) \in Seq(Unit) BY <3>2, RequestUnits
    <3>4. StreamAt(w.rio, k.up, l.out, Request(r), m) BY <3>1 DEF RequestAt
    <3>5. /\ StreamAt(w.rio, up, out, Request(r), m)
          /\ Ahead(w.rio, up, out) = Ahead(w.rio, k.up, l.out)
      BY <1>2, <1>3, <3>3, <3>4, StreamWrite DEF up, out
    <3>6. RequestAt(c, k2, l2, w, r, m) BY <1>5, <1>6, <3>1, <3>5 DEF RequestAt
    <3> QED BY <3>6
  <2> QED BY <1>1, <1>5, <1>6, <1>9, <1>11, <2>1 DEF RequestOK, Gets
<1>13. AcceptOK(c, l2, b, v) BY <1>5 DEF AcceptOK
<1>14. QuietConn(c, k, l, w, b) => QuietConn(c, k2, l2, w, b) BY <1>5, <1>6, <1>9 DEF QuietConn, Gets
<1> QED BY <1>7, <1>8, <1>10, <1>12, <1>13, <1>14 DEF ConnOK, k2, l2, out

\* client_send on a connection the server has closed: the data is lost.
LEMMA SendLost ==
    ASSUME NEW c \in Conns, NEW k, NEW l, NEW w, NEW b, NEW v, ConnOK(c, k, l, w, b, v),
           l.pc = "send", k.sv = "closed"
    PROVE  LET k2 == [k EXCEPT !.rst = TRUE]
               l2 == [l EXCEPT !.out = <<>>, !.pc = IF <<>> = <<>> THEN "first" ELSE "send"]
           IN  /\ ConnOK(c, k2, l2, w, b, v)
               /\ QuietConn(c, k, l, w, b) => ~Gets(c, l) /\ QuietConn(c, k2, l2, w, b)
<1> DEFINE k2 == [k EXCEPT !.rst = TRUE]
           l2 == [l EXCEPT !.out = <<>>, !.pc = IF <<>> = <<>> THEN "first" ELSE "send"]
<1>1. Shape(k, l, w, b, v) /\ Phases(k, l, w) /\ AnswerOK(k, l, w, b, v) /\ RequestOK(c, k, l, w)
  BY DEF ConnOK
<1>2. k \in Socks /\ l \in Clients /\ w \in Workers BY <1>1, Fields
<1>3. /\ l2 \in Clients /\ l2.pc = "first"
      /\ l2.rio = l.rio /\ l2.out = <<>> /\ l2.method = l.method /\ l2.file = l.file
      /\ l2.length = l.length /\ l2.csum = l.csum
      /\ l2.length_received = l.length_received /\ l2.csum_received = l.csum_received
  <2>1. l2 = [l EXCEPT !.out = <<>>, !.pc = "first"] OBVIOUS
  <2>2. <<>> \in Seq(Unit) OBVIOUS
  <2> HIDE DEF l2
  <2> QED BY <1>2, <2>1, <2>2 DEF Clients
<1>4. /\ k2 \in Socks /\ k2.up = k.up /\ k2.sv = k.sv /\ k2.rst = TRUE /\ k2.cl = k.cl
      /\ k2.down = k.down
  BY <1>2 DEF Socks
<1> HIDE DEF k2, l2
<1>5. Shape(k2, l2, w, b, v) BY <1>1, <1>3, <1>4 DEF Shape
<1>6. Phases(k2, l2, w) BY <1>1, <1>3, <1>4 DEF Phases
<1>7. k.cl = "open" /\ w.pc \in {"done", "dead"} /\ l.out # <<>> BY <1>1 DEF Phases
<1>8. AnswerOK(k2, l2, w, b, v)
  <2>1. PICK n \in 0 .. 4 + Len(v) : AnswerAt(k, l, w, b, v, n)
    BY <1>1, <1>7 DEF AnswerOK, EarlyEnd
  <2>2. AnswerAt(k2, l2, w, b, v, n) BY <1>3, <1>4, <2>1 DEF AnswerAt
  <2> QED BY <1>3, <1>4, <1>7, <2>2 DEF AnswerOK
<1>9. RequestOK(c, k2, l2, w) BY <1>1, <1>3, <1>4, <1>7 DEF RequestOK, Gets
<1>10. AcceptOK(c, l2, b, v) BY <1>3 DEF AcceptOK
<1>11. ASSUME QuietConn(c, k, l, w, b) PROVE ~Gets(c, l) /\ QuietConn(c, k2, l2, w, b)
  <2>1. w.pc = "done" BY <1>7, <1>11 DEF QuietConn, Gets
  <2>2. ~Gets(c, l) BY <1>1, <1>7, <2>1 DEF RequestOK
  <2> QED BY <1>3, <1>4, <1>11, <2>1, <2>2 DEF QuietConn, Gets
<1> QED BY <1>5, <1>6, <1>8, <1>9, <1>10, <1>11 DEF ConnOK, k2, l2

\* client_read: a part of the answer arrives.
LEMMA ReadConn ==
    ASSUME NEW c \in Conns, NEW k, NEW l, NEW w, NEW b, NEW v, ConnOK(c, k, l, w, b, v),
           l.pc \in {"first", "head", "body"}, ~LineDone(l.rio), NEW j \in Readable(k.down)
    PROVE  LET k2 == [k EXCEPT !.down = SubSeq(k.down, j + 1, Len(k.down))]
               l2 == [l EXCEPT !.rio = rio_readb(l.rio, k.down, j)]
           IN  /\ ConnOK(c, k2, l2, w, b, v)
               /\ QuietConn(c, k, l, w, b) => QuietConn(c, k2, l2, w, b)
<1> DEFINE rio  == rio_readb(l.rio, k.down, j)
           down == SubSeq(k.down, j + 1, Len(k.down))
           k2 == [k EXCEPT !.down = down]
           l2 == [l EXCEPT !.rio = rio]
<1>1. Shape(k, l, w, b, v) /\ Phases(k, l, w) /\ AnswerOK(k, l, w, b, v) /\ RequestOK(c, k, l, w)
  BY DEF ConnOK
<1>2. /\ k \in Socks /\ l \in Clients /\ w \in Workers /\ k.down \in Seq(Unit) /\ w.out \in Seq(Unit)
      /\ RioOK(l.rio) /\ Response(b) \in Seq(Unit) /\ Len(v) \in Nat
  BY <1>1, Fields
<1>3. /\ j \in 1 .. Len(k.down) /\ RioOK(rio) /\ down \in Seq(Unit) /\ Len(down) <= Len(k.down)
  BY <1>2, ReadBuf
<1>4. k.down # <<>> /\ k.cl = "open" BY <1>1, <1>3 DEF Phases
<1>5. Len(down) <= SockSize
  <2>1. Len(k.down) <= SockSize /\ SockSize \in Nat BY <1>1, HttpAssumption DEF Shape
  <2>2. Len(k.down) \in Nat /\ Len(down) \in Nat BY <1>2, <1>3
  <2> HIDE DEF down
  <2> QED BY <1>3, <2>1, <2>2
<1>6. PICK n \in 0 .. 4 + Len(v) : AnswerAt(k, l, w, b, v, n)
  BY <1>1, <1>4 DEF AnswerOK, EarlyEnd
<1>7. /\ StreamAt(rio, down, w.out, Response(b), n)
      /\ Ahead(rio, down, w.out) = Ahead(l.rio, k.down, w.out)
  <2>1. StreamAt(l.rio, k.down, w.out, Response(b), n) /\ n \in Nat BY <1>2, <1>6 DEF AnswerAt
  <2> QED BY <1>2, <2>1, StreamRead
<1> HIDE DEF rio, down
<1>8. rio \in Rios BY <1>3, RioType
<1>9. /\ l2 \in Clients /\ l2.pc = l.pc /\ l2.rio = rio /\ l2.out = l.out
      /\ l2.method = l.method /\ l2.file = l.file
      /\ l2.length = l.length /\ l2.csum = l.csum
      /\ l2.length_received = l.length_received /\ l2.csum_received = l.csum_received
  BY <1>2, <1>8 DEF Clients
<1>10. /\ k2 \in Socks /\ k2.up = k.up /\ k2.sv = k.sv /\ k2.rst = k.rst /\ k2.cl = k.cl
       /\ k2.down = down
  BY <1>2, <1>3 DEF Socks
<1> HIDE DEF k2, l2
<1>11. Shape(k2, l2, w, b, v) BY <1>1, <1>3, <1>5, <1>9, <1>10 DEF Shape
<1>12. Phases(k2, l2, w) BY <1>1, <1>9, <1>10 DEF Phases
<1>13. AnswerOK(k2, l2, w, b, v)
  <2>1. AnswerAt(k2, l2, w, b, v, n) BY <1>6, <1>7, <1>9, <1>10 DEF AnswerAt
  <2>2. w.pc \notin {"request", "header", "headers", "stat", "load"} BY <1>1, <1>4 DEF AnswerOK
  <2>3. l2.pc \notin {"send", "check"} BY <1>9
  <2> QED BY <2>1, <2>2, <2>3 DEF AnswerOK
<1>14. RequestOK(c, k2, l2, w) BY <1>1, <1>9, <1>10 DEF RequestOK, RequestAt, Gets
<1>15. AcceptOK(c, l2, b, v) BY <1>9 DEF AcceptOK
<1>16. QuietConn(c, k, l, w, b) => QuietConn(c, k2, l2, w, b) BY <1>9, <1>10 DEF QuietConn, Gets
<1> QED BY <1>11, <1>12, <1>13, <1>14, <1>15, <1>16 DEF ConnOK, k2, l2, rio, down

\* At the end of the data everything has been read.
LEMMA AtEnd ==
    ASSUME NEW r, RioOK(r), r.line = <<>>
    PROVE  ~LineDone(r) /\ r.buf = <<>> /\ NextLine(r) = rio_init /\ r = rio_init
<1>1. ~LineDone(r) BY DoneLine
<1>2. r.buf = <<>> BY <1>1, OpenLine
<1>3. r \in Rios BY RioType
<1>4. r = rio_init BY <1>2, <1>3 DEF Rios, rio_init
<1> QED BY <1>1, <1>2, <1>4, NextEmpty

\* client_print: a line of the header, or its early end.
LEMMA HeadConn ==
    ASSUME NEW c \in Conns, NEW k, NEW l, NEW w, NEW b, NEW v, ConnOK(c, k, l, w, b, v),
           l.pc \in {"first", "head"},
           LineDone(l.rio) \/ (k.down = <<>> /\ k.sv = "closed" /\ ~k.rst)
    PROVE  LET line == l.rio.line
               l2 == [l EXCEPT !.rio = NextLine(l.rio),
                        !.pc = IF line = <<NL>> \/ Len(line) = 0 THEN "body" ELSE "head",
                        !.length = IF l.pc = "head" THEN Tag(line, "length", l.length) ELSE l.length,
                        !.csum = IF l.pc = "head" THEN Tag(line, "csum", l.csum) ELSE l.csum]
           IN  /\ ConnOK(c, k, l2, w, b, v)
               /\ QuietConn(c, k, l, w, b) => QuietConn(c, k, l2, w, b)
<1> DEFINE line == l.rio.line
           rio == NextLine(l.rio)
           pc2 == IF line = <<NL>> \/ Len(line) = 0 THEN "body" ELSE "head"
           length2 == IF l.pc = "head" THEN Tag(line, "length", l.length) ELSE l.length
           csum2 == IF l.pc = "head" THEN Tag(line, "csum", l.csum) ELSE l.csum
           l2 == [l EXCEPT !.rio = rio, !.pc = pc2, !.length = length2, !.csum = csum2]
           R == Response(b)
<1>1. Shape(k, l, w, b, v) /\ Phases(k, l, w) /\ AnswerOK(k, l, w, b, v) /\ RequestOK(c, k, l, w)
  BY DEF ConnOK
<1>2. /\ k \in Socks /\ l \in Clients /\ w \in Workers /\ k.down \in Seq(Unit) /\ w.out \in Seq(Unit)
      /\ RioOK(l.rio) /\ R \in Seq(Unit) /\ Len(v) \in Nat /\ b \in Seq(Bytes) /\ Len(b) \in Nat
      /\ k.sv \in Ends
  BY <1>1, Fields
<1>3. k.cl = "open" BY <1>1 DEF Phases
<1>4. PICK n \in 0 .. 4 + Len(v) : AnswerAt(k, l, w, b, v, n)
  BY <1>1, <1>3 DEF AnswerOK, EarlyEnd
<1>5. /\ StreamAt(l.rio, k.down, w.out, R, n)
      /\ w.pc \in {"send", "done"} => n + Ahead(l.rio, k.down, w.out) = 4 + Len(b)
      /\ l.pc = "first" => n = 0
      /\ l.pc = "head" => n \in 1 .. 3
      /\ v = <<>>
      /\ l.length = IF n < 2 THEN 0 ELSE Len(b)
      /\ l.csum = IF n < 3 THEN 0 ELSE Csum(b)
  BY <1>4 DEF AnswerAt
<1>6. n \in 0 .. 3 BY <1>5
<1>7. RioOK(rio) /\ rio \in Rios BY <1>2, NextBuf, RioType
<1>8. line \in Seq(Unit) /\ Len(line) \in Nat BY <1>2, RioType
<1>9. R[2] = <<"length", Len(b)>> /\ R[3] = <<"csum", Csum(b)>> /\ R[1] = <<"status", 0>> /\ R[4] = NL
  BY <1>2, ResponseUnits
<1>10. Csum(b) \in Nat BY <1>2, CsumNumber
<1>11. line # <<>> => Len(line) = 1 /\ line = <<R[n + 1]>> /\ line[1] = R[n + 1]
  <2>1. n + 1 \in 1 .. 4 BY <1>6
  <2>2. EndsLine(R[n + 1]) BY <1>2, <2>1, HeaderLines
  <2>3. n \in Nat /\ StreamAt(l.rio, k.down, w.out, R, n) /\ RioOK(l.rio) /\ R \in Seq(Unit)
    BY <1>2, <1>5, <1>6
  <2> QED BY ONLY <2>2, <2>3, StreamLine
<1>12. line = <<>> => rio = rio_init /\ ~LineDone(l.rio) /\ l.rio = rio_init BY <1>2, AtEnd
<1>13. w.pc \notin {"request", "header", "headers", "stat", "load"}
  <2>1. k.sv = "closed" => w.pc \in {"done", "dead"} BY <1>1 DEF Phases
  <2>2. w.pc \in {"request", "header", "headers", "stat", "load"} => ~LineDone(l.rio)
    BY <1>1, <1>3, RioInit DEF AnswerOK
  <2> QED BY <2>1, <2>2
<1>14. StreamAt(rio, k.down, w.out, R, n + Len(line))
       /\ Ahead(l.rio, k.down, w.out) = Len(line) + Ahead(rio, k.down, w.out)
  BY <1>2, <1>5, <1>6, StreamNext, SMTT(30)
<1>15. Ahead(rio, k.down, w.out) \in Nat BY <1>2, <1>7, AheadNat
<1> HIDE DEF rio, line, R
<1>16. ASSUME line # <<>>
       PROVE  /\ pc2 = IF n = 3 THEN "body" ELSE "head"
              /\ length2 = IF n + 1 < 2 THEN 0 ELSE Len(b)
              /\ csum2 = IF n + 1 < 3 THEN 0 ELSE Csum(b)
  <2>1. n = 0 \/ n = 1 \/ n = 2 \/ n = 3 BY <1>6
  <2>2. NL[1] = "byte" BY DEF NL, Byte
  <2>3. R[1][1] = "status" /\ R[2][1] = "length" /\ R[2][2] = Len(b) /\ R[3][1] = "csum"
        /\ R[3][2] = Csum(b) /\ R[4][1] = "byte"
    BY <1>9, <2>2
  <2>4. R[1] # NL /\ R[2] # NL /\ R[3] # NL BY <2>2, <2>3
  <2>5. Len(line) # 0 BY <1>11, <1>16
  <2>6. line = <<NL>> <=> line[1] = NL BY <1>11, <1>16
  <2>7. CASE n = 0
    <3>1. line[1] = R[1] BY <1>11, <1>16, <2>7
    <3>2. l.pc = "first" BY <1>5, <2>7
    <3> QED BY <1>5, <2>4, <2>5, <2>6, <2>7, <3>1, <3>2
  <2>8. CASE n = 1
    <3>1. line[1] = R[2] BY <1>11, <1>16, <2>8
    <3>2. l.pc = "head" BY <1>5, <2>8
    <3> QED BY <1>5, <1>16, <2>3, <2>4, <2>5, <2>6, <2>8, <3>1, <3>2 DEF Tag
  <2>9. CASE n = 2
    <3>1. line[1] = R[3] BY <1>11, <1>16, <2>9
    <3>2. l.pc = "head" BY <1>5, <2>9
    <3> QED BY <1>5, <1>16, <2>3, <2>4, <2>5, <2>6, <2>9, <3>1, <3>2 DEF Tag
  <2>10. CASE n = 3
    <3>1. line[1] = R[4] BY <1>11, <1>16, <2>10
    <3>2. l.pc = "head" BY <1>5, <2>10
    <3> QED BY <1>5, <1>9, <1>16, <2>3, <2>5, <2>6, <2>10, <3>1, <3>2 DEF Tag
  <2> QED BY <2>1, <2>7, <2>8, <2>9, <2>10
<1>17. ASSUME line = <<>> PROVE pc2 = "body" /\ length2 = l.length /\ csum2 = l.csum
  BY <1>17 DEF Tag
<1>18. length2 \in Nat /\ csum2 \in Nat /\ pc2 \in {"body", "head"}
  <2>1. l.length \in Nat /\ l.csum \in Nat BY <1>2 DEF Clients
  <2>2. pc2 \in {"body", "head"} OBVIOUS
  <2> HIDE DEF length2, csum2, pc2
  <2> QED BY <1>2, <1>10, <1>16, <1>17, <2>1, <2>2
<1> HIDE DEF pc2, length2, csum2
<1>19. /\ l2 \in Clients /\ l2.pc = pc2 /\ l2.rio = rio /\ l2.out = l.out
       /\ l2.method = l.method /\ l2.file = l.file
       /\ l2.length = length2 /\ l2.csum = csum2
       /\ l2.length_received = l.length_received /\ l2.csum_received = l.csum_received
  BY <1>2, <1>7, <1>18 DEF Clients
<1> HIDE DEF l2
<1>20. Shape(k, l2, w, b, v) BY <1>1, <1>7, <1>19 DEF Shape
<1>21. Phases(k, l2, w) BY <1>1, <1>3, <1>18, <1>19 DEF Phases
<1>22. AnswerOK(k, l2, w, b, v)
  <2>1. CASE line = <<>>
    <3>1. k.down = <<>> /\ k.sv = "closed" /\ rio = rio_init /\ l.rio = rio_init BY <1>12, <2>1
    <3>2. w.pc # "done"
      <4> SUFFICES ASSUME w.pc = "done" PROVE FALSE OBVIOUS
      <4>1. w.out = <<>> BY <1>1 DEF Phases
      <4>2. Ahead(l.rio, k.down, w.out) = 0 BY <1>2, <3>1, <4>1, StreamStart
      <4>3. n + 0 = 4 + Len(b) BY <1>5, <4>2
      <4> QED BY <1>2, <1>6, <4>3
    <3>3. w.pc = "dead" BY <1>1, <3>1, <3>2 DEF Phases
    <3>4. EarlyEnd(k, l2, w, v) BY <1>5, <1>17, <1>19, <2>1, <3>1, <3>3 DEF EarlyEnd
    <3>5. l2.pc = "body" BY <1>17, <1>19, <2>1
    <3> QED BY <1>13, <3>4, <3>5 DEF AnswerOK
  <2>2. CASE line # <<>>
    <3> DEFINE n2 == n + 1
    <3>1. n2 \in 1 .. 4 /\ n2 \in 0 .. 4 + Len(v) BY <1>2, <1>6
    <3>2. Len(line) = 1 BY <1>11, <2>2
    <3>3. StreamAt(rio, k.down, w.out, R, n2)
          /\ Ahead(l.rio, k.down, w.out) = 1 + Ahead(rio, k.down, w.out)
      BY <1>14, <3>2
    <3>4. w.pc \in {"send", "done"} => n2 + Ahead(rio, k.down, w.out) = 4 + Len(b)
      BY <1>2, <1>5, <1>6, <1>15, <3>3
    <3>5. /\ pc2 = IF n2 = 4 THEN "body" ELSE "head"
          /\ length2 = IF n2 < 2 THEN 0 ELSE Len(b)
          /\ csum2 = IF n2 < 3 THEN 0 ELSE Csum(b)
      BY <1>6, <1>16, <2>2
    <3> HIDE DEF n2
    <3>6. Len(v) = 0 /\ Seg(v, b, 0) BY <1>2, <1>5, SegEmpty
    <3>7. AnswerAt(k, l2, w, b, v, n2)
      BY <1>5, <1>19, <3>1, <3>3, <3>4, <3>5, <3>6 DEF AnswerAt, R
    <3>8. l2.pc \notin {"send", "check"} BY <1>18, <1>19
    <3> QED BY <1>13, <3>1, <3>7, <3>8 DEF AnswerOK
  <2> QED BY <2>1, <2>2
<1>23. RequestOK(c, k, l2, w) BY <1>1, <1>19 DEF RequestOK, RequestAt, Gets
<1>24. AcceptOK(c, l2, b, v) BY <1>18, <1>19 DEF AcceptOK
<1>25. QuietConn(c, k, l, w, b) => QuietConn(c, k, l2, w, b) BY <1>18, <1>19 DEF QuietConn, Gets
<1> QED BY <1>20, <1>21, <1>22, <1>23, <1>24, <1>25 DEF ConnOK, l2, rio, pc2, length2, csum2, line

\* client_print: a line of the body, or its end.
LEMMA BodyConn ==
    ASSUME NEW c \in Conns, NEW k, NEW l, NEW w, NEW b, NEW v, ConnOK(c, k, l, w, b, v),
           l.pc = "body",
           LineDone(l.rio) \/ (k.down = <<>> /\ k.sv = "closed" /\ ~k.rst)
    PROVE  LET line == l.rio.line
               l2 == [l EXCEPT !.rio = NextLine(l.rio),
                        !.pc = IF Len(line) > 0 THEN "body" ELSE "check",
                        !.length_received = l.length_received + Len(line),
                        !.csum_received = l.csum_received + Csum(line)]
           IN  /\ ConnOK(c, k, l2, w, b, v \o line)
               /\ v \o line \in Seq(Bytes)
               /\ QuietConn(c, k, l, w, b) => QuietConn(c, k, l2, w, b)
<1> DEFINE line == l.rio.line
           rio == NextLine(l.rio)
           pc2 == IF Len(line) > 0 THEN "body" ELSE "check"
           l2 == [l EXCEPT !.rio = rio, !.pc = pc2,
                        !.length_received = l.length_received + Len(line),
                        !.csum_received = l.csum_received + Csum(line)]
           v2 == v \o line
           R == Response(b)
<1>1. Shape(k, l, w, b, v) /\ Phases(k, l, w) /\ AnswerOK(k, l, w, b, v) /\ RequestOK(c, k, l, w)
  BY DEF ConnOK
<1>2. /\ k \in Socks /\ l \in Clients /\ w \in Workers /\ k.down \in Seq(Unit) /\ w.out \in Seq(Unit)
      /\ RioOK(l.rio) /\ R \in Seq(Unit) /\ Len(v) \in Nat /\ b \in Seq(Bytes) /\ Len(b) \in Nat
      /\ v \in Seq(Bytes)
  BY <1>1, Fields
<1>3. k.cl = "open" BY <1>1 DEF Phases
<1>4. RioOK(rio) /\ rio \in Rios BY <1>2, NextBuf, RioType
<1>5. line = <<>> => rio = rio_init /\ ~LineDone(l.rio) BY <1>2, AtEnd
<1>6. w.pc \notin {"request", "header", "headers", "stat", "load"} BY <1>1, <1>3 DEF AnswerOK
<1>7. line \in Seq(Unit) /\ Len(line) \in Nat BY <1>2, RioType
<1>8. CASE EarlyEnd(k, l, w, v)
  <2>1. line = <<>> /\ rio = rio_init
    <3>1. line = <<>> BY <1>8 DEF EarlyEnd, rio_init
    <3> QED BY <1>5, <3>1
  <2>2. v2 = v BY <1>2, <2>1
  <2> HIDE DEF line, rio, v2
  <2>3. pc2 = "check" BY <2>1
  <2>4. Len(line) = 0 /\ Csum(line) = 0 BY <2>1, CsumNumber
  <2> HIDE DEF pc2
  <2>5. l.length_received + 0 = l.length_received /\ l.csum_received + 0 = l.csum_received
    BY <1>2 DEF Clients
  <2>6. l2 = [l EXCEPT !.rio = rio, !.pc = pc2, !.length_received = l.length_received,
                       !.csum_received = l.csum_received]
    BY <2>4, <2>5
  <2> HIDE DEF l2
  <2>7. /\ l2 \in Clients /\ l2.pc = "check" /\ l2.rio = rio /\ l2.out = l.out
        /\ l2.method = l.method /\ l2.file = l.file
        /\ l2.length_received = l.length_received /\ l2.csum_received = l.csum_received
    BY <1>2, <1>4, <2>3, <2>6 DEF Clients
  <2>8. Shape(k, l2, w, b, v) BY <1>1, <1>4, <2>7 DEF Shape
  <2>9. Phases(k, l2, w) BY <1>1, <1>3, <2>7 DEF Phases
  <2>10. AnswerOK(k, l2, w, b, v)
    <3>1. EarlyEnd(k, l2, w, v) BY <1>8, <2>1, <2>7 DEF EarlyEnd
    <3>2. k.down = <<>> /\ k.sv = "closed" BY <1>5, <2>1
    <3> QED BY <1>6, <2>1, <2>7, <3>1, <3>2 DEF AnswerOK
  <2>11. RequestOK(c, k, l2, w) BY <1>1, <2>7 DEF RequestOK, RequestAt, Gets
  <2>12. AcceptOK(c, l2, b, v) BY <2>7 DEF AcceptOK
  <2>13. QuietConn(c, k, l, w, b) => QuietConn(c, k, l2, w, b) BY <2>7 DEF QuietConn, Gets
  <2>14. ConnOK(c, k, l2, w, b, v2) /\ v2 \in Seq(Bytes)
    BY <1>2, <2>2, <2>8, <2>9, <2>10, <2>11, <2>12 DEF ConnOK
  <2> QED BY <2>13, <2>14 DEF l2, v2, rio, pc2, line
<1>9. CASE \E n \in 0 .. 4 + Len(v) : AnswerAt(k, l, w, b, v, n)
  <2>1. PICK n \in 0 .. 4 + Len(v) : AnswerAt(k, l, w, b, v, n) BY <1>9
  <2>2. /\ StreamAt(l.rio, k.down, w.out, R, n)
        /\ w.pc \in {"send", "done"} => n + Ahead(l.rio, k.down, w.out) = 4 + Len(b)
        /\ n = 4 + Len(v) /\ Seg(v, b, 0) /\ l.length = Len(b) /\ l.csum = Csum(b)
    BY <2>1 DEF AnswerAt
  <2>3. Seg(line, R, 4 + Len(v)) BY <2>2 DEF StreamAt
  <2>4. line \in Seq(Bytes) /\ Seg(line, b, Len(v)) BY <1>2, <1>7, <2>3, BodySeg
  <2>5. v2 \in Seq(Bytes) /\ Len(v2) = Len(v) + Len(line) /\ Seg(v2, b, 0)
    <3>1. 0 + Len(v) = Len(v) BY <1>2
    <3> HIDE DEF line
    <3> QED BY <1>2, <2>2, <2>4, <3>1, SegConcat
  <2>6. Csum(v2) = Csum(v) + Csum(line) BY <1>2, <2>4, CsumConcat
  <2>7. StreamAt(rio, k.down, w.out, R, n + Len(line))
        /\ Ahead(l.rio, k.down, w.out) = Len(line) + Ahead(rio, k.down, w.out)
    <3>1. n \in Nat BY <1>2, <2>2
    <3> QED BY <1>2, <2>2, <3>1, StreamNext
  <2>8. Ahead(rio, k.down, w.out) \in Nat BY <1>2, <1>4, AheadNat
  <2>9. Csum(line) \in Nat /\ Csum(v) \in Nat BY <1>2, <2>4, CsumNumber
  <2> HIDE DEF line, rio, v2, R
  <2>10. l.length_received = Len(v) /\ l.csum_received = Csum(v) BY <1>1 DEF Shape
  <2>11. l.length_received + Len(line) \in Nat /\ l.csum_received + Csum(line) \in Nat
    BY <1>2, <1>7, <2>9, <2>10
  <2>12. pc2 \in {"body", "check"} OBVIOUS
  <2>13. pc2 = "check" => line = <<>> BY <1>7
  <2> HIDE DEF pc2
  <2>14. /\ l2 \in Clients /\ l2.pc = pc2 /\ l2.rio = rio /\ l2.out = l.out
         /\ l2.method = l.method /\ l2.file = l.file
         /\ l2.length = l.length /\ l2.csum = l.csum
         /\ l2.length_received = l.length_received + Len(line)
         /\ l2.csum_received = l.csum_received + Csum(line)
    BY <1>2, <1>4, <2>11, <2>12 DEF Clients
  <2> HIDE DEF l2
  <2>15. Shape(k, l2, w, b, v2) BY <1>1, <1>4, <2>5, <2>6, <2>10, <2>14 DEF Shape
  <2>16. Phases(k, l2, w) BY <1>1, <1>3, <2>12, <2>14 DEF Phases
  <2>17. AnswerOK(k, l2, w, b, v2)
    <3> DEFINE n2 == n + Len(line)
    <3>1. n2 = 4 + Len(v2) /\ n2 \in 0 .. 4 + Len(v2) BY <1>2, <1>7, <2>2, <2>5
    <3>2. w.pc \in {"send", "done"} => n2 + Ahead(rio, k.down, w.out) = 4 + Len(b)
      BY <1>2, <1>7, <2>2, <2>7, <2>8
    <3>3. StreamAt(rio, k.down, w.out, R, n2) BY <2>7
    <3> HIDE DEF n2
    <3>4. AnswerAt(k, l2, w, b, v2, n2)
      BY <2>2, <2>5, <2>12, <2>14, <3>1, <3>2, <3>3 DEF AnswerAt, R
    <3>5. pc2 = "check" => rio = rio_init /\ k.down = <<>> /\ k.sv = "closed" BY <1>5, <2>13
    <3> QED BY <1>6, <2>12, <2>14, <3>1, <3>4, <3>5 DEF AnswerOK
  <2>18. RequestOK(c, k, l2, w) BY <1>1, <2>14 DEF RequestOK, RequestAt, Gets
  <2>19. AcceptOK(c, l2, b, v2) BY <2>12, <2>14 DEF AcceptOK
  <2>20. QuietConn(c, k, l, w, b) => QuietConn(c, k, l2, w, b) BY <2>12, <2>14 DEF QuietConn, Gets
  <2>21. ConnOK(c, k, l2, w, b, v2) BY <2>15, <2>16, <2>17, <2>18, <2>19 DEF ConnOK
  <2> QED BY <2>5, <2>20, <2>21 DEF l2, v2, rio, pc2, line
<1> QED BY <1>1, <1>3, <1>8, <1>9 DEF AnswerOK

\* The end of client_print: what a client has at its assertions.
LEMMA CheckConn ==
    ASSUME NEW c \in Conns, NEW k, NEW l, NEW w, NEW b, NEW v, ConnOK(c, k, l, w, b, v),
           l.pc = "check"
    PROVE  /\ k.sv = "closed" /\ k.cl = "open" /\ l.length_received = Len(v) /\ l.csum_received = Csum(v)
           /\ l.length = l.length_received => v = b \/ v = <<>>
           /\ w.pc # "dead" => v = b /\ l.length = Len(b) /\ l.csum = Csum(b)
<1>1. Shape(k, l, w, b, v) /\ Phases(k, l, w) /\ AnswerOK(k, l, w, b, v) BY DEF ConnOK
<1>2. /\ Len(v) \in Nat /\ b \in Seq(Bytes) /\ Len(b) \in Nat /\ v \in Seq(Bytes) /\ Response(b) \in Seq(Unit)
  BY <1>1, Fields
<1>3. k.cl = "open" BY <1>1 DEF Phases
<1>4. l.rio = rio_init /\ k.down = <<>> /\ k.sv = "closed" BY <1>1, <1>3 DEF AnswerOK
<1>5. l.length_received = Len(v) /\ l.csum_received = Csum(v) BY <1>1 DEF Shape
<1>6. CASE EarlyEnd(k, l, w, v) BY <1>3, <1>4, <1>5, <1>6 DEF EarlyEnd
<1>7. CASE \E n \in 0 .. 4 + Len(v) : AnswerAt(k, l, w, b, v, n)
  <2>1. PICK n \in 0 .. 4 + Len(v) : AnswerAt(k, l, w, b, v, n) BY <1>7
  <2>2. /\ w.pc \in {"send", "done"} => n + Ahead(l.rio, k.down, w.out) = 4 + Len(b)
        /\ n = 4 + Len(v) /\ Seg(v, b, 0) /\ l.length = Len(b) /\ l.csum = Csum(b)
    BY <2>1 DEF AnswerAt
  <2>3. Len(v) = Len(b) => v = b BY <1>2, <2>2, SegWhole
  <2>4. w.pc # "dead" => Len(v) = Len(b)
    <3> SUFFICES ASSUME w.pc # "dead" PROVE Len(v) = Len(b) OBVIOUS
    <3>1. w.pc = "done" /\ w.out = <<>> BY <1>1, <1>4 DEF Phases
    <3>2. Ahead(l.rio, k.down, w.out) = 0 BY <1>2, <1>4, <3>1, StreamStart
    <3>3. (4 + Len(v)) + 0 = 4 + Len(b) BY <2>2, <3>1, <3>2
    <3> QED BY <1>2, <3>3
  <2> QED BY <1>3, <1>4, <1>5, <2>2, <2>3, <2>4
<1> QED BY <1>1, <1>3, <1>6, <1>7 DEF AnswerOK

\* client_print returns and the client closes the connection.
LEMMA CloseConn ==
    ASSUME NEW c \in Conns, NEW k, NEW l, NEW w, NEW b, NEW v, ConnOK(c, k, l, w, b, v),
           l.pc = "check",
           c \in Threads => /\ Csum(Orig[l.file]) = l.csum /\ Len(Orig[l.file]) = l.length
                            /\ l.length = l.length_received /\ l.csum = l.csum_received
    PROVE  LET k2 == [k EXCEPT !.cl = "closed"]
               l2 == [l EXCEPT !.pc = "ok", !.rio = rio_init]
           IN  /\ ConnOK(c, k2, l2, w, b, v)
               /\ QuietConn(c, k, l, w, b) => QuietConn(c, k2, l2, w, b)
<1> DEFINE k2 == [k EXCEPT !.cl = "closed"]
           l2 == [l EXCEPT !.pc = "ok", !.rio = rio_init]
<1>1. Shape(k, l, w, b, v) /\ Phases(k, l, w) BY DEF ConnOK
<1>2. k \in Socks /\ l \in Clients /\ w \in Workers BY <1>1, Fields
<1>3. /\ k.sv = "closed" /\ k.cl = "open" /\ l.length_received = Len(v) /\ l.csum_received = Csum(v)
      /\ l.length = l.length_received => v = b \/ v = <<>>
  BY CheckConn
<1>4. RioOK(rio_init) /\ rio_init \in Rios BY RioInit
<1>5. /\ l2 \in Clients /\ l2.pc = "ok" /\ l2.rio = rio_init /\ l2.out = l.out
      /\ l2.method = l.method /\ l2.file = l.file
      /\ l2.length_received = l.length_received /\ l2.csum_received = l.csum_received
  BY <1>2, <1>4 DEF Clients
<1>6. /\ k2 \in Socks /\ k2.up = k.up /\ k2.sv = k.sv /\ k2.rst = k.rst /\ k2.cl = "closed"
      /\ k2.down = k.down
  BY <1>2 DEF Socks, Ends
<1> HIDE DEF k2, l2
<1>7. Shape(k2, l2, w, b, v) BY <1>1, <1>4, <1>5, <1>6 DEF Shape
<1>8. Phases(k2, l2, w) BY <1>1, <1>3, <1>5, <1>6 DEF Phases
<1>9. AnswerOK(k2, l2, w, b, v) /\ RequestOK(c, k2, l2, w) BY <1>6 DEF AnswerOK, RequestOK, Gets
<1>10. AcceptOK(c, l2, b, v) BY <1>3, <1>5 DEF AcceptOK
<1>11. QuietConn(c, k, l, w, b) => QuietConn(c, k2, l2, w, b)
  <2>1. w.pc \in {"done", "dead"} BY <1>1, <1>3 DEF Phases
  <2> QED BY <1>5, <1>6, <2>1 DEF QuietConn, Gets
<1> QED BY <1>7, <1>8, <1>9, <1>10, <1>11 DEF ConnOK, k2, l2

-----------------------------------------------------------------------------
(* Steps of the worker on one connection. *)

\* A step of the worker before it answers leaves the answer and the client alone.
LEMMA BeforeAnswer ==
    ASSUME NEW k, NEW l, NEW w, NEW b, NEW v, NEW k2, NEW w2, AnswerOK(k, l, w, b, v),
           w.pc \in {"request", "header", "headers", "stat", "load"},
           w2.pc \in {"request", "header", "headers", "stat", "load"},
           w2.out = w.out, k2.cl = k.cl, k2.down = k.down, k2.sv = k.sv
    PROVE  AnswerOK(k2, l, w2, b, v)
<1> SUFFICES ASSUME k.cl = "open" PROVE AnswerOK(k2, l, w2, b, v) BY DEF AnswerOK
<1>1. l.pc \in {"send", "first"} /\ l.rio = rio_init /\ k.down = <<>> BY DEF AnswerOK
<1>2. PICK n \in 0 .. 4 + Len(v) : AnswerAt(k, l, w, b, v, n) BY <1>1 DEF AnswerOK, EarlyEnd
<1>3. AnswerAt(k2, l, w2, b, v, n) BY <1>1, <1>2 DEF AnswerAt
<1> QED BY <1>1, <1>3 DEF AnswerOK

\* server_read: a part of the request arrives.
LEMMA ServerReadConn ==
    ASSUME NEW c \in Conns, NEW k, NEW l, NEW w, NEW b, NEW v, ConnOK(c, k, l, w, b, v),
           w.pc \in {"request", "header", "headers"}, ~LineDone(w.rio), NEW j \in Readable(k.up)
    PROVE  LET k2 == [k EXCEPT !.up = SubSeq(k.up, j + 1, Len(k.up))]
               w2 == [w EXCEPT !.rio = rio_readb(w.rio, k.up, j)]
           IN  /\ ConnOK(c, k2, l, w2, b, v)
               /\ QuietConn(c, k, l, w, b) => QuietConn(c, k2, l, w2, b)
<1> DEFINE rio == rio_readb(w.rio, k.up, j)
           up  == SubSeq(k.up, j + 1, Len(k.up))
           k2  == [k EXCEPT !.up = up]
           w2  == [w EXCEPT !.rio = rio]
<1>1. /\ Shape(k, l, w, b, v) /\ Phases(k, l, w) /\ AnswerOK(k, l, w, b, v) /\ RequestOK(c, k, l, w)
      /\ AcceptOK(c, l, b, v)
  BY DEF ConnOK
<1>2. /\ k \in Socks /\ l \in Clients /\ w \in Workers /\ k.up \in Seq(Unit) /\ l.out \in Seq(Unit)
      /\ RioOK(w.rio)
  BY <1>1, Fields
<1>3. /\ RioOK(rio) /\ up \in Seq(Unit) /\ Len(up) <= Len(k.up) BY <1>2, ReadBuf
<1>4. Len(up) <= SockSize
  <2>1. Len(k.up) <= SockSize /\ SockSize \in Nat BY <1>1, HttpAssumption DEF Shape
  <2>2. Len(k.up) \in Nat /\ Len(up) \in Nat BY <1>2, <1>3
  <2> HIDE DEF up
  <2> QED BY <1>3, <2>1, <2>2
<1>5. ASSUME NEW r \in Asks[c], NEW m \in 0 .. 2, RequestAt(c, k, l, w, r, m)
      PROVE  /\ StreamAt(rio, up, l.out, Request(r), m)
             /\ Ahead(rio, up, l.out) = Ahead(w.rio, k.up, l.out)
  <2>1. r \in {"GET", "PUT"} \X Files BY HttpAssumption DEF Conns
  <2>2. Request(r) \in Seq(Unit) BY <2>1, RequestUnits
  <2>3. StreamAt(w.rio, k.up, l.out, Request(r), m) /\ m \in Nat BY <1>5 DEF RequestAt
  <2> QED BY <1>2, <2>2, <2>3, StreamRead
<1> HIDE DEF rio, up
<1>6. rio \in Rios BY <1>3, RioType
<1>7. w2 \in Workers /\ w2.pc = w.pc /\ w2.rio = rio /\ w2.out = w.out /\ w2.file = w.file /\ w2.size = w.size
  BY <1>2, <1>6 DEF Workers
<1>8. /\ k2 \in Socks /\ k2.up = up /\ k2.sv = k.sv /\ k2.rst = k.rst /\ k2.cl = k.cl
      /\ k2.down = k.down
  BY <1>2, <1>3 DEF Socks
<1> HIDE DEF k2, w2
<1>9. Shape(k2, l, w2, b, v) BY <1>1, <1>3, <1>4, <1>7, <1>8 DEF Shape
<1>10. Phases(k2, l, w2) BY <1>1, <1>7, <1>8 DEF Phases
<1>11. AnswerOK(k2, l, w2, b, v)
  <2>1. w.pc \in {"request", "header", "headers", "stat", "load"} OBVIOUS
  <2> QED BY <1>1, <1>7, <1>8, <2>1, BeforeAnswer
<1>12. RequestOK(c, k2, l, w2)
  <2> SUFFICES ASSUME k.cl = "open"
               PROVE  \E r \in Asks[c], m \in 0 .. 2 : RequestAt(c, k2, l, w2, r, m)
    BY <1>7, <1>8 DEF RequestOK
  <2>1. PICK r \in Asks[c], m \in 0 .. 2 : RequestAt(c, k, l, w, r, m) BY <1>1 DEF RequestOK
  <2>2. RequestAt(c, k2, l, w2, r, m) BY <1>5, <1>7, <1>8, <2>1 DEF RequestAt
  <2> QED BY <2>2
<1>13. QuietConn(c, k, l, w, b) => QuietConn(c, k2, l, w2, b) BY <1>7, <1>8 DEF QuietConn
<1> QED BY <1>1, <1>9, <1>10, <1>11, <1>12, <1>13 DEF ConnOK, k2, w2, rio, up

\* The line the worker has read of the request of a client that is there.
LEMMA RequestLine ==
    ASSUME NEW c \in Conns, NEW k, NEW l, NEW w, NEW b, NEW v, ConnOK(c, k, l, w, b, v),
           w.pc \in {"request", "header", "headers"}, k.cl = "open", LineDone(w.rio)
    PROVE  \E r \in Asks[c], m \in 0 .. 2 :
             /\ RequestAt(c, k, l, w, r, m)
             /\ r \in {"GET", "PUT"} \X Files
             /\ w.rio.line = <<Request(r)[m + 1]>> /\ w.rio.line[1] = Request(r)[m + 1]
             /\ Len(w.rio.line) = 1
             /\ StreamAt(NextLine(w.rio), k.up, l.out, Request(r), m + 1)
             /\ (m + 1) + Ahead(NextLine(w.rio), k.up, l.out) = 3
<1>1. Shape(k, l, w, b, v) /\ RequestOK(c, k, l, w) BY DEF ConnOK
<1>2. /\ k.up \in Seq(Unit) /\ l.out \in Seq(Unit) /\ RioOK(w.rio) BY <1>1, Fields
<1>3. PICK r \in Asks[c], m \in 0 .. 2 : RequestAt(c, k, l, w, r, m) BY <1>1 DEF RequestOK
<1>4. r \in {"GET", "PUT"} \X Files BY HttpAssumption DEF Conns
<1>5. Request(r) \in Seq(Unit) /\ \A i \in 1 .. 3 : EndsLine(Request(r)[i]) BY <1>4, RequestUnits
<1>6. m \in Nat /\ m + 1 \in 1 .. 3 OBVIOUS
<1>7. StreamAt(w.rio, k.up, l.out, Request(r), m) /\ m + Ahead(w.rio, k.up, l.out) = 3
  BY <1>3 DEF RequestAt
<1>8. w.rio.line # <<>> BY <1>2, DoneLine
<1>9. /\ Len(w.rio.line) = 1 /\ w.rio.line = <<Request(r)[m + 1]>> /\ w.rio.line[1] = Request(r)[m + 1]
  <2>1. EndsLine(Request(r)[m + 1]) BY <1>5, <1>6
  <2> QED BY ONLY <1>2, <1>5, <1>6, <1>7, <1>8, <2>1, StreamLine
<1>10. /\ StreamAt(NextLine(w.rio), k.up, l.out, Request(r), m + Len(w.rio.line))
       /\ Ahead(w.rio, k.up, l.out) = Len(w.rio.line) + Ahead(NextLine(w.rio), k.up, l.out)
  BY <1>2, <1>5, <1>6, <1>7, StreamNext
<1>11. Ahead(NextLine(w.rio), k.up, l.out) \in Nat BY <1>2, NextBuf, AheadNat
<1>12. (m + 1) + Ahead(NextLine(w.rio), k.up, l.out) = 3
  <2>1. m + (1 + Ahead(NextLine(w.rio), k.up, l.out)) = 3 BY <1>7, <1>9, <1>10
  <2> QED BY <1>6, <1>11, <2>1
<1>13. StreamAt(NextLine(w.rio), k.up, l.out, Request(r), m + 1) BY <1>9, <1>10
<1> QED BY <1>3, <1>4, <1>9, <1>12, <1>13

\* request_init of a GET.
LEMMA InitConn ==
    ASSUME NEW c \in Conns, NEW k, NEW l, NEW w, NEW b, NEW v, ConnOK(c, k, l, w, b, v),
           w.pc = "request", LineDone(w.rio) \/ (k.up = <<>> /\ k.cl = "closed"),
           NEW f \in Files, w.rio.line # <<>> => w.rio.line[1] = <<"GET", f>>
    PROVE  LET w2 == [w EXCEPT !.pc = "header", !.file = f, !.rio = NextLine(w.rio)]
           IN  /\ ConnOK(c, k, l, w2, b, v)
               /\ QuietConn(c, k, l, w, b) => QuietConn(c, k, l, w2, b)
<1> DEFINE rio == NextLine(w.rio)
           w2  == [w EXCEPT !.pc = "header", !.file = f, !.rio = rio]
<1>1. /\ Shape(k, l, w, b, v) /\ Phases(k, l, w) /\ AnswerOK(k, l, w, b, v) /\ RequestOK(c, k, l, w)
      /\ AcceptOK(c, l, b, v)
  BY DEF ConnOK
<1>2. w \in Workers /\ RioOK(w.rio) BY <1>1, Fields
<1>3. RioOK(rio) /\ rio \in Rios BY <1>2, NextBuf, RioType
<1> HIDE DEF rio
<1>4. w2 \in Workers /\ w2.pc = "header" /\ w2.rio = rio /\ w2.out = w.out /\ w2.file = f /\ w2.size = w.size
  BY <1>2, <1>3 DEF Workers
<1> HIDE DEF w2
<1>5. Shape(k, l, w2, b, v) BY <1>1, <1>3, <1>4 DEF Shape
<1>6. Phases(k, l, w2) BY <1>1, <1>4 DEF Phases
<1>7. AnswerOK(k, l, w2, b, v)
  <2>1. w.pc \in {"request", "header", "headers", "stat", "load"}
        /\ w2.pc \in {"request", "header", "headers", "stat", "load"}
    BY <1>4
  <2> QED BY <1>1, <1>4, <2>1, BeforeAnswer
<1>8. RequestOK(c, k, l, w2)
  <2> SUFFICES ASSUME k.cl = "open"
               PROVE  \E r \in Asks[c], m \in 0 .. 2 : RequestAt(c, k, l, w2, r, m)
    BY <1>4 DEF RequestOK
  <2>1. w.pc \in {"request", "header", "headers"} /\ LineDone(w.rio) OBVIOUS
  <2>2. PICK r \in Asks[c], m \in 0 .. 2 :
             /\ RequestAt(c, k, l, w, r, m)
             /\ r \in {"GET", "PUT"} \X Files
             /\ w.rio.line = <<Request(r)[m + 1]>> /\ w.rio.line[1] = Request(r)[m + 1]
             /\ Len(w.rio.line) = 1
             /\ StreamAt(rio, k.up, l.out, Request(r), m + 1)
             /\ (m + 1) + Ahead(rio, k.up, l.out) = 3
    BY <2>1, RequestLine DEF rio
  <2>3. m = 0 /\ l.file = r[2] BY <2>2 DEF RequestAt
  <2>4. Request(r)[1] = r BY <2>2, RequestUnits
  <2>5. w.rio.line # <<>> BY <2>2
  <2>6. r = <<"GET", f>> BY <2>2, <2>3, <2>4, <2>5
  <2>7. r[1] = "GET" /\ r[2] = f BY <2>6
  <2>8. 0 + 1 = 1 OBVIOUS
  <2>9. RequestAt(c, k, l, w2, r, 1) BY <1>4, <2>2, <2>3, <2>7, <2>8 DEF RequestAt
  <2>10. 1 \in 0 .. 2 OBVIOUS
  <2> QED BY <2>9, <2>10
<1>9. QuietConn(c, k, l, w, b) => QuietConn(c, k, l, w2, b) BY <1>4 DEF QuietConn
<1> QED BY <1>1, <1>5, <1>6, <1>7, <1>8, <1>9 DEF ConnOK, w2, rio

\* request_init answers 501 only to a client that did not ask with GET.
LEMMA InitMethod ==
    ASSUME NEW c \in Conns, NEW k, NEW l, NEW w, NEW b, NEW v, ConnOK(c, k, l, w, b, v),
           w.pc = "request", LineDone(w.rio) \/ (k.up = <<>> /\ k.cl = "closed"),
           NEW m0, NEW f, m0 # "GET", w.rio.line # <<>> => w.rio.line[1] = <<m0, f>>
    PROVE  k.cl = "open" => ~Gets(c, l)
<1> SUFFICES ASSUME k.cl = "open", Gets(c, l) PROVE FALSE OBVIOUS
<1>1. w.pc \in {"request", "header", "headers"} /\ LineDone(w.rio) OBVIOUS
<1>2. PICK r \in Asks[c], m \in 0 .. 2 :
           /\ RequestAt(c, k, l, w, r, m)
           /\ r \in {"GET", "PUT"} \X Files
           /\ w.rio.line = <<Request(r)[m + 1]>> /\ w.rio.line[1] = Request(r)[m + 1]
           /\ Len(w.rio.line) = 1
  BY <1>1, RequestLine
<1>3. m = 0 BY <1>2 DEF RequestAt
<1>4. Request(r)[1] = r BY <1>2, RequestUnits
<1>5. w.rio.line # <<>> BY <1>2
<1>6. r = <<m0, f>> BY <1>2, <1>3, <1>4, <1>5
<1>7. r[1] = m0 BY <1>6
<1>8. ASSUME c \in Threads PROVE r[1] = "GET"
  <2>1. r \in {"GET"} \X Files BY <1>8, HttpAssumption
  <2> QED BY <2>1
<1>9. r[1] = "GET" BY <1>2, <1>8 DEF Gets, RequestAt
<1> QED BY <1>7, <1>9

\* request_read_headers: a line is discarded, or the empty line ends the header.
LEMMA HeadersConn ==
    ASSUME NEW c \in Conns, NEW k, NEW l, NEW w, NEW b, NEW v, ConnOK(c, k, l, w, b, v),
           w.pc \in {"header", "headers"}, LineDone(w.rio) \/ k.cl = "closed"
    PROVE  LET line == w.rio.line
               w2 == [w EXCEPT !.pc = IF line = <<NL>> THEN "stat" ELSE "headers",
                               !.rio = IF line = <<NL>> THEN rio_init ELSE NextLine(w.rio)]
           IN  /\ ConnOK(c, k, l, w2, b, v)
               /\ QuietConn(c, k, l, w, b) => QuietConn(c, k, l, w2, b)
<1> DEFINE pc2 == IF w.rio.line = <<NL>> THEN "stat" ELSE "headers"
           rio == IF w.rio.line = <<NL>> THEN rio_init ELSE NextLine(w.rio)
           w2  == [w EXCEPT !.pc = pc2, !.rio = rio]
<1>1. /\ Shape(k, l, w, b, v) /\ Phases(k, l, w) /\ AnswerOK(k, l, w, b, v) /\ RequestOK(c, k, l, w)
      /\ AcceptOK(c, l, b, v)
  BY DEF ConnOK
<1>2. w \in Workers /\ RioOK(w.rio) /\ k.up \in Seq(Unit) /\ l.out \in Seq(Unit) BY <1>1, Fields
<1>3. RioOK(rio) /\ rio \in Rios BY <1>2, NextBuf, RioInit, RioType
<1>4. pc2 \in {"stat", "headers"} OBVIOUS
<1> HIDE DEF rio, pc2
<1>5. w2 \in Workers /\ w2.pc = pc2 /\ w2.rio = rio /\ w2.out = w.out /\ w2.file = w.file /\ w2.size = w.size
  BY <1>2, <1>3, <1>4 DEF Workers
<1> HIDE DEF w2
<1>6. Shape(k, l, w2, b, v) BY <1>1, <1>3, <1>5 DEF Shape
<1>7. Phases(k, l, w2) BY <1>1, <1>4, <1>5 DEF Phases
<1>8. AnswerOK(k, l, w2, b, v)
  <2>1. w.pc \in {"request", "header", "headers", "stat", "load"}
        /\ w2.pc \in {"request", "header", "headers", "stat", "load"}
    BY <1>4, <1>5
  <2> QED BY <1>1, <1>5, <2>1, BeforeAnswer
<1>9. ASSUME k.cl = "open" PROVE RequestOK(c, k, l, w2)
  <2>1. w.pc \in {"request", "header", "headers"} /\ LineDone(w.rio) BY <1>9
  <2>2. PICK r \in Asks[c], m \in 0 .. 2 :
             /\ RequestAt(c, k, l, w, r, m)
             /\ r \in {"GET", "PUT"} \X Files
             /\ w.rio.line = <<Request(r)[m + 1]>> /\ w.rio.line[1] = Request(r)[m + 1]
             /\ Len(w.rio.line) = 1
             /\ StreamAt(NextLine(w.rio), k.up, l.out, Request(r), m + 1)
             /\ (m + 1) + Ahead(NextLine(w.rio), k.up, l.out) = 3
    BY <1>9, <2>1, RequestLine
  <2>3. /\ l.file = r[2] /\ r[1] = "GET" /\ w.file = r[2]
        /\ w.pc = "header" => m = 1
        /\ w.pc = "headers" => m = 2
    BY <2>2 DEF RequestAt
  <2>4. Request(r)[2] = <<"host", 0>> /\ Request(r)[3] = NL /\ <<"host", 0>> # NL BY <2>2, RequestUnits
  <2>5. CASE w.pc = "header"
    <3>1. m = 1 /\ m + 1 = 2 BY <2>3, <2>5
    <3>2. w.rio.line[1] # NL BY <2>2, <2>4, <3>1
    <3>3. w.rio.line # <<NL>> BY <3>2
    <3>4. pc2 = "headers" /\ rio = NextLine(w.rio) BY <3>3 DEF pc2, rio
    <3>5. RequestAt(c, k, l, w2, r, 2) BY <1>5, <2>2, <2>3, <3>1, <3>4 DEF RequestAt
    <3>6. 2 \in 0 .. 2 OBVIOUS
    <3> QED BY <1>5, <3>4, <3>5, <3>6 DEF RequestOK
  <2>6. CASE w.pc = "headers"
    <3>1. m = 2 /\ m + 1 = 3 BY <2>3, <2>6
    <3>2. w.rio.line = <<NL>> BY <2>2, <2>4, <3>1
    <3>3. pc2 = "stat" BY <3>2 DEF pc2
    <3>4. RioOK(NextLine(w.rio)) BY <1>2, NextBuf
    <3>5. Ahead(NextLine(w.rio), k.up, l.out) \in Nat BY <1>2, <3>4, AheadNat
    <3>6. Ahead(NextLine(w.rio), k.up, l.out) = 0 BY <2>2, <3>1, <3>5
    <3>7. k.up = <<>> /\ l.out = <<>> BY <1>2, <3>4, <3>6, AheadNat
    <3> QED BY <1>5, <2>3, <3>3, <3>7 DEF RequestOK
  <2> QED BY <2>5, <2>6
<1>10. RequestOK(c, k, l, w2)
  <2>1. k.cl # "open" => RequestOK(c, k, l, w2) BY DEF RequestOK
  <2> QED BY <1>9, <2>1
<1>11. QuietConn(c, k, l, w, b) => QuietConn(c, k, l, w2, b) BY <1>4, <1>5 DEF QuietConn
<1> QED BY <1>1, <1>6, <1>7, <1>8, <1>10, <1>11 DEF ConnOK, w2, rio, pc2

\* request_read_headers at the end of the data of a client that has gone.
LEMMA HeadersEnd ==
    ASSUME NEW c \in Conns, NEW k, NEW l, NEW w, NEW b, NEW v, ConnOK(c, k, l, w, b, v),
           w.pc = "header", k.cl = "closed", NEW next \in {"stat", "headers"}
    PROVE  LET w2 == [w EXCEPT !.pc = next, !.rio = rio_init]
           IN  /\ ConnOK(c, k, l, w2, b, v)
               /\ QuietConn(c, k, l, w, b) => QuietConn(c, k, l, w2, b)
<1> DEFINE w2  == [w EXCEPT !.pc = next, !.rio = rio_init]
<1>1. Shape(k, l, w, b, v) /\ Phases(k, l, w) /\ AcceptOK(c, l, b, v) BY DEF ConnOK
<1>2. w \in Workers BY <1>1, Fields
<1>3. RioOK(rio_init) /\ rio_init \in Rios BY RioInit
<1>4. w2 \in Workers /\ w2.pc = next /\ w2.rio = rio_init /\ w2.out = w.out /\ w2.file = w.file
  BY <1>2, <1>3 DEF Workers
<1> HIDE DEF w2
<1>5. Shape(k, l, w2, b, v) BY <1>1, <1>3, <1>4 DEF Shape
<1>6. Phases(k, l, w2) BY <1>1, <1>4 DEF Phases
<1>7. AnswerOK(k, l, w2, b, v) /\ RequestOK(c, k, l, w2) BY DEF AnswerOK, RequestOK
<1>8. ~QuietConn(c, k, l, w, b) BY DEF QuietConn
<1> QED BY <1>1, <1>5, <1>6, <1>7, <1>8 DEF ConnOK, w2

\* stat tells the size of the file.
LEMMA StatConn ==
    ASSUME NEW c \in Conns, NEW k, NEW l, NEW w, NEW b, NEW v, ConnOK(c, k, l, w, b, v),
           w.pc = "stat", NEW content \in Seq(Bytes)
    PROVE  LET w2 == [w EXCEPT !.pc = "load", !.size = Len(content)]
           IN  /\ ConnOK(c, k, l, w2, b, v)
               /\ QuietConn(c, k, l, w, b) /\ content = Orig[w.file] => QuietConn(c, k, l, w2, b)
<1> DEFINE w2  == [w EXCEPT !.pc = "load", !.size = Len(content)]
<1>1. /\ Shape(k, l, w, b, v) /\ Phases(k, l, w) /\ AnswerOK(k, l, w, b, v) /\ RequestOK(c, k, l, w)
      /\ AcceptOK(c, l, b, v)
  BY DEF ConnOK
<1>2. w \in Workers BY <1>1, Fields
<1>3. /\ w2 \in Workers /\ w2.pc = "load" /\ w2.rio = w.rio /\ w2.out = w.out /\ w2.file = w.file
      /\ w2.size = Len(content)
  <2>1. Len(content) \in Nat OBVIOUS
  <2> QED BY <1>2, <2>1 DEF Workers
<1> HIDE DEF w2
<1>4. Shape(k, l, w2, b, v) BY <1>1, <1>3 DEF Shape
<1>5. Phases(k, l, w2) BY <1>1, <1>3 DEF Phases
<1>6. AnswerOK(k, l, w2, b, v)
  <2>1. w.pc \in {"request", "header", "headers", "stat", "load"}
        /\ w2.pc \in {"request", "header", "headers", "stat", "load"}
    BY <1>3
  <2> QED BY <1>1, <1>3, <2>1, BeforeAnswer
<1>7. RequestOK(c, k, l, w2) BY <1>1, <1>3 DEF RequestOK
<1>8. QuietConn(c, k, l, w, b) /\ content = Orig[w.file] => QuietConn(c, k, l, w2, b)
  BY <1>3 DEF QuietConn
<1> QED BY <1>1, <1>4, <1>5, <1>6, <1>7, <1>8 DEF ConnOK, w2

\* The worker begins its answer.
LEMMA AnswerConn ==
    ASSUME NEW c \in Conns, NEW k, NEW l, NEW w, NEW b, NEW v, ConnOK(c, k, l, w, b, v),
           w.pc \in {"request", "stat", "load"}, NEW body \in Seq(Bytes),
           w.pc = "request" /\ k.cl = "open" => ~Gets(c, l)
    PROVE  LET w2 == [NoWork EXCEPT !.pc = "send", !.out = Response(body)]
           IN  /\ ConnOK(c, k, l, w2, body, v)
               /\ QuietConn(c, k, l, w, b) /\ (Gets(c, l) /\ k.cl = "open" => body = Orig[l.file])
                    => QuietConn(c, k, l, w2, body)
<1> DEFINE w2 == [NoWork EXCEPT !.pc = "send", !.out = Response(body)]
           R  == Response(body)
<1>1. /\ Shape(k, l, w, b, v) /\ Phases(k, l, w) /\ AnswerOK(k, l, w, b, v) /\ RequestOK(c, k, l, w)
  BY DEF ConnOK
<1>2. R \in Seq(Unit) /\ Len(R) = 4 + Len(body) BY ResponseUnits
<1>3. RioOK(rio_init) /\ rio_init \in Rios BY RioInit
<1> HIDE DEF R
<1>4. w2 \in Workers /\ w2.pc = "send" /\ w2.rio = rio_init /\ w2.out = R
  BY <1>2, <1>3 DEF Workers, NoWork, R
<1> HIDE DEF w2
<1>5. Shape(k, l, w2, body, v) BY <1>1, <1>3, <1>4 DEF Shape
<1>6. Phases(k, l, w2) BY <1>1, <1>4 DEF Phases
<1>7. AnswerOK(k, l, w2, body, v)
  <2> SUFFICES ASSUME k.cl = "open" PROVE AnswerOK(k, l, w2, body, v) BY DEF AnswerOK
  <2>1. l.pc \in {"send", "first"} /\ l.rio = rio_init /\ k.down = <<>> BY <1>1 DEF AnswerOK
  <2>2. PICK n \in 0 .. 4 + Len(v) : AnswerAt(k, l, w, b, v, n) BY <1>1, <2>1 DEF AnswerOK, EarlyEnd
  <2>3. n = 0 /\ v = <<>> /\ l.length = 0 /\ l.csum = 0 BY <2>1, <2>2 DEF AnswerAt
  <2>4. /\ StreamAt(rio_init, <<>>, R, R, 0) /\ 0 + Ahead(rio_init, <<>>, R) = 4 + Len(body)
    BY <1>2, StreamStart
  <2>5. AnswerAt(k, l, w2, body, v, 0) BY <1>4, <2>1, <2>3, <2>4 DEF AnswerAt, R
  <2> QED BY <1>4, <2>1, <2>2, <2>3, <2>5 DEF AnswerOK
<1>8. RequestOK(c, k, l, w2) BY <1>1, <1>4 DEF RequestOK
<1>9. AcceptOK(c, l, body, v)
  <2>1. l.pc # "ok" BY <1>1 DEF Phases
  <2> QED BY <2>1 DEF AcceptOK
<1>10. QuietConn(c, k, l, w, b) /\ (Gets(c, l) /\ k.cl = "open" => body = Orig[l.file])
          => QuietConn(c, k, l, w2, body)
  BY <1>4 DEF QuietConn
<1> QED BY <1>5, <1>6, <1>7, <1>8, <1>9, <1>10 DEF ConnOK, w2, R

\* request_sendfile: rio_write of a part of the answer.
LEMMA SendfileConn ==
    ASSUME NEW c \in Conns, NEW k, NEW l, NEW w, NEW b, NEW v, ConnOK(c, k, l, w, b, v),
           w.pc = "send", NEW j \in Writable(w.out, k.down), k.cl = "open"
    PROVE  LET k2 == [k EXCEPT !.down = k.down \o SubSeq(w.out, 1, j)]
               w2 == [w EXCEPT !.out = rio_write(w.out, j)]
           IN  /\ ConnOK(c, k2, l, w2, b, v)
               /\ QuietConn(c, k, l, w, b) => QuietConn(c, k2, l, w2, b)
<1> DEFINE out  == rio_write(w.out, j)
           down == k.down \o SubSeq(w.out, 1, j)
           k2 == [k EXCEPT !.down = down]
           w2 == [w EXCEPT !.out = out]
<1>1. /\ Shape(k, l, w, b, v) /\ Phases(k, l, w) /\ AnswerOK(k, l, w, b, v) /\ RequestOK(c, k, l, w)
      /\ AcceptOK(c, l, b, v)
  BY DEF ConnOK
<1>2. /\ k \in Socks /\ w \in Workers /\ k.down \in Seq(Unit) /\ w.out \in Seq(Unit)
      /\ RioOK(l.rio) /\ Response(b) \in Seq(Unit) /\ Len(v) \in Nat
  BY <1>1, Fields
<1>3. j \in 1 .. Len(w.out) /\ Len(k.down) + j <= SockSize BY DEF Writable
<1>4. down \in Seq(Unit) /\ Len(down) = Len(k.down) + j /\ out \in Seq(Unit)
  <2>1. SubSeq(w.out, 1, j) \in Seq(Unit) /\ Len(SubSeq(w.out, 1, j)) = j BY <1>2, <1>3
  <2>2. SubSeq(w.out, j + 1, Len(w.out)) \in Seq(Unit) BY <1>2, <1>3
  <2> QED BY <1>2, <2>1, <2>2 DEF rio_write
<1>5. ASSUME NEW n \in Nat, StreamAt(l.rio, k.down, w.out, Response(b), n)
      PROVE  /\ StreamAt(l.rio, down, out, Response(b), n)
             /\ Ahead(l.rio, down, out) = Ahead(l.rio, k.down, w.out)
  BY <1>2, <1>3, <1>5, StreamWrite
<1> HIDE DEF out, down
<1>6. w2 \in Workers /\ w2.pc = "send" /\ w2.rio = w.rio /\ w2.out = out /\ w2.file = w.file /\ w2.size = w.size
  BY <1>2, <1>4 DEF Workers
<1>7. /\ k2 \in Socks /\ k2.up = k.up /\ k2.sv = k.sv /\ k2.rst = k.rst /\ k2.cl = k.cl
      /\ k2.down = down
  BY <1>2, <1>4 DEF Socks
<1> HIDE DEF k2, w2
<1>8. Shape(k2, l, w2, b, v) BY <1>1, <1>3, <1>4, <1>6, <1>7 DEF Shape
<1>9. Phases(k2, l, w2) BY <1>1, <1>6, <1>7 DEF Phases
<1>10. k.sv = "open" BY <1>1 DEF Phases
<1>11. AnswerOK(k2, l, w2, b, v)
  <2>1. PICK n \in 0 .. 4 + Len(v) : AnswerAt(k, l, w, b, v, n) BY <1>1 DEF AnswerOK, EarlyEnd
  <2>2. n \in Nat /\ StreamAt(l.rio, k.down, w.out, Response(b), n) BY <1>2, <2>1 DEF AnswerAt
  <2>3. /\ StreamAt(l.rio, down, out, Response(b), n)
        /\ Ahead(l.rio, down, out) = Ahead(l.rio, k.down, w.out)
    BY <1>5, <2>2
  <2>4. AnswerAt(k2, l, w2, b, v, n) BY <1>6, <1>7, <2>1, <2>3 DEF AnswerAt
  <2>5. l.pc # "check" /\ (l.pc = "send" => l.rio = rio_init) BY <1>1, <1>10 DEF AnswerOK
  <2> QED BY <1>6, <2>4, <2>5 DEF AnswerOK
<1>12. RequestOK(c, k2, l, w2) BY <1>1, <1>6, <1>7 DEF RequestOK
<1>13. QuietConn(c, k, l, w, b) => QuietConn(c, k2, l, w2, b) BY <1>6, <1>7 DEF QuietConn
<1> QED BY <1>1, <1>8, <1>9, <1>11, <1>12, <1>13 DEF ConnOK, k2, w2, out, down

\* request_sendfile to a client that has gone: the data is lost.
LEMMA SendfileLost ==
    ASSUME NEW c \in Conns, NEW k, NEW l, NEW w, NEW b, NEW v, ConnOK(c, k, l, w, b, v),
           w.pc = "send", k.cl = "closed"
    PROVE  LET w2 == [w EXCEPT !.out = <<>>]
           IN  ConnOK(c, k, l, w2, b, v) /\ ~QuietConn(c, k, l, w, b)
<1> DEFINE w2 == [w EXCEPT !.out = <<>>]
<1>1. Shape(k, l, w, b, v) /\ Phases(k, l, w) /\ AcceptOK(c, l, b, v) BY DEF ConnOK
<1>2. w \in Workers BY <1>1, Fields
<1>3. <<>> \in Seq(Unit) OBVIOUS
<1>4. w2 \in Workers /\ w2.pc = "send" /\ w2.rio = w.rio /\ w2.file = w.file BY <1>2, <1>3 DEF Workers
<1> HIDE DEF w2
<1>5. Shape(k, l, w2, b, v) BY <1>1, <1>4 DEF Shape
<1>6. Phases(k, l, w2) BY <1>1, <1>4 DEF Phases
<1>7. AnswerOK(k, l, w2, b, v) /\ RequestOK(c, k, l, w2) BY DEF AnswerOK, RequestOK
<1>8. ~QuietConn(c, k, l, w, b) BY DEF QuietConn
<1> QED BY <1>1, <1>5, <1>6, <1>7, <1>8 DEF ConnOK, w2

\* The server's end of a connection is closed.
LEMMA ClosedSock ==
    ASSUME NEW k \in Socks
    PROVE  /\ SvClosed(k) \in Socks /\ SvClosed(k).up = <<>> /\ SvClosed(k).sv = "closed"
           /\ SvClosed(k).rst = (k.up # <<>>) /\ SvClosed(k).cl = k.cl /\ SvClosed(k).down = k.down
<1>1. <<>> \in Seq(Unit) /\ (k.up # <<>>) \in BOOLEAN OBVIOUS
<1> QED BY <1>1 DEF SvClosed, Socks, Ends

\* request_destroy.
LEMMA DestroyConn ==
    ASSUME NEW c \in Conns, NEW k, NEW l, NEW w, NEW b, NEW v, ConnOK(c, k, l, w, b, v),
           w.pc = "send", w.out = <<>>
    PROVE  LET w2 == [w EXCEPT !.pc = "done"]
           IN  /\ ConnOK(c, SvClosed(k), l, w2, b, v)
               /\ QuietConn(c, k, l, w, b) => QuietConn(c, SvClosed(k), l, w2, b)
<1> DEFINE k2 == SvClosed(k)
           w2 == [w EXCEPT !.pc = "done"]
<1>1. /\ Shape(k, l, w, b, v) /\ Phases(k, l, w) /\ AnswerOK(k, l, w, b, v) /\ RequestOK(c, k, l, w)
      /\ AcceptOK(c, l, b, v)
  BY DEF ConnOK
<1>2. k \in Socks /\ w \in Workers /\ k.cl \in Ends BY <1>1, Fields
<1>3. w2 \in Workers /\ w2.pc = "done" /\ w2.rio = w.rio /\ w2.out = w.out /\ w2.file = w.file
  BY <1>2 DEF Workers
<1>4. /\ k2 \in Socks /\ k2.up = <<>> /\ k2.sv = "closed" /\ k2.rst = (k.up # <<>>) /\ k2.cl = k.cl
      /\ k2.down = k.down
  BY <1>2, ClosedSock
<1> HIDE DEF k2, w2
<1>5. Shape(k2, l, w2, b, v)
  <2>1. Len(<<>>) = 0 /\ 0 <= SockSize BY HttpAssumption
  <2> QED BY <1>1, <1>3, <1>4, <2>1 DEF Shape
<1>6. Phases(k2, l, w2) BY <1>1, <1>3, <1>4 DEF Phases
<1>7. AnswerOK(k2, l, w2, b, v)
  <2> SUFFICES ASSUME k.cl = "open" PROVE AnswerOK(k2, l, w2, b, v) BY <1>4 DEF AnswerOK
  <2>1. PICK n \in 0 .. 4 + Len(v) : AnswerAt(k, l, w, b, v, n) BY <1>1 DEF AnswerOK, EarlyEnd
  <2>2. AnswerAt(k2, l, w2, b, v, n) BY <1>3, <1>4, <2>1 DEF AnswerAt
  <2>3. /\ l.pc = "check" => l.rio = rio_init /\ k.down = <<>>
        /\ l.pc = "send" => l.rio = rio_init
    BY <1>1 DEF AnswerOK
  <2> QED BY <1>3, <1>4, <2>2, <2>3 DEF AnswerOK
<1>8. RequestOK(c, k2, l, w2) BY <1>1, <1>3, <1>4 DEF RequestOK
<1>9. ASSUME QuietConn(c, k, l, w, b) PROVE QuietConn(c, k2, l, w2, b)
  <2>1. k.cl = "open"
    <3>1. k.cl # "closed" BY <1>9 DEF QuietConn
    <3>2. k.cl # "none" BY <1>1 DEF Phases
    <3> QED BY <1>2, <3>1, <3>2 DEF Ends
  <2>2. Gets(c, l) => k.up = <<>> BY <1>1, <2>1 DEF RequestOK
  <2> QED BY <1>3, <1>4, <1>9, <2>1, <2>2 DEF QuietConn
<1> QED BY <1>1, <1>5, <1>6, <1>7, <1>8, <1>9 DEF ConnOK, k2, w2

\* The process of the server ends.
LEMMA ServerExitConn ==
    ASSUME NEW c \in Conns, NEW k, NEW l, NEW w, NEW b, NEW v, ConnOK(c, k, l, w, b, v)
    PROVE  LET k2 == IF k.sv = "open" THEN SvClosed(k) ELSE k
               w2 == [w EXCEPT !.pc = "dead"]
           IN  ConnOK(c, k2, l, w2, b, v)
<1> DEFINE k2 == IF k.sv = "open" THEN SvClosed(k) ELSE k
           w2 == [w EXCEPT !.pc = "dead"]
<1>1. /\ Shape(k, l, w, b, v) /\ Phases(k, l, w) /\ AnswerOK(k, l, w, b, v) /\ RequestOK(c, k, l, w)
      /\ AcceptOK(c, l, b, v)
  BY DEF ConnOK
<1>2. k \in Socks /\ w \in Workers /\ k.cl \in Ends /\ k.sv \in Ends BY <1>1, Fields
<1>3. w2 \in Workers /\ w2.pc = "dead" /\ w2.rio = w.rio /\ w2.out = w.out /\ w2.file = w.file
  BY <1>2 DEF Workers
<1>4. /\ k2 \in Socks /\ k2.cl = k.cl /\ k2.down = k.down
      /\ k2.up = <<>> \/ k2.up = k.up
      /\ k2.sv = IF k.sv = "open" THEN "closed" ELSE k.sv
      /\ k.sv # "open" => k2 = k
  BY <1>2, ClosedSock
<1> HIDE DEF k2, w2
<1>5. Shape(k2, l, w2, b, v)
  <2>1. Len(<<>>) = 0 /\ 0 <= SockSize BY HttpAssumption
  <2> QED BY <1>1, <1>3, <1>4, <2>1 DEF Shape
<1>6. Phases(k2, l, w2) BY <1>1, <1>2, <1>3, <1>4 DEF Phases, Ends
<1>7. AnswerOK(k2, l, w2, b, v)
  <2> SUFFICES ASSUME k.cl = "open" PROVE AnswerOK(k2, l, w2, b, v) BY <1>4 DEF AnswerOK
  <2>1. EarlyEnd(k, l, w, v) => EarlyEnd(k2, l, w2, v) BY <1>3, <1>4 DEF EarlyEnd
  <2>2. ASSUME NEW n \in 0 .. 4 + Len(v), AnswerAt(k, l, w, b, v, n)
        PROVE  AnswerAt(k2, l, w2, b, v, n)
    BY <1>3, <1>4, <2>2 DEF AnswerAt
  <2>3. EarlyEnd(k, l, w, v) \/ \E n \in 0 .. 4 + Len(v) : AnswerAt(k, l, w, b, v, n)
    BY <1>1 DEF AnswerOK
  <2>4. /\ l.pc = "check" => l.rio = rio_init /\ k.down = <<>> /\ k.sv = "closed"
        /\ l.pc = "send" => l.rio = rio_init
    BY <1>1 DEF AnswerOK
  <2> QED BY <1>3, <1>4, <2>1, <2>2, <2>3, <2>4 DEF AnswerOK
<1>8. RequestOK(c, k2, l, w2) BY <1>3 DEF RequestOK
<1> QED BY <1>1, <1>5, <1>6, <1>7, <1>8 DEF ConnOK, k2, w2

-----------------------------------------------------------------------------
(* The invariant is kept by every step. *)

LEMMA SameAt == ASSUME NEW S, NEW f \in [Conns -> S], NEW c \in Conns PROVE f = [f EXCEPT ![c] = f[c]]
  OBVIOUS

\* The parts of the invariant at one connection.
LEMMA At ==
    ASSUME HInv, NEW c \in Conns
    PROVE  /\ ConnOK(c, sock[c], cl[c], sv[c], served[c], recv[c])
           /\ ~disturbed => disk = Orig /\ QuietConn(c, sock[c], cl[c], sv[c], served[c])
           /\ sock[c] \in Socks /\ cl[c] \in Clients /\ sv[c] \in Workers
           /\ served[c] \in Seq(Bytes) /\ recv[c] \in Seq(Bytes)
           /\ sock = [sock EXCEPT ![c] = sock[c]] /\ cl = [cl EXCEPT ![c] = cl[c]]
           /\ sv = [sv EXCEPT ![c] = sv[c]] /\ served = [served EXCEPT ![c] = served[c]]
           /\ recv = [recv EXCEPT ![c] = recv[c]]
<1>1. Funs BY DEF HInv
<1>2. ConnOK(c, sock[c], cl[c], sv[c], served[c], recv[c]) BY DEF HInv, Conn
<1>3. ~disturbed => disk = Orig /\ QuietConn(c, sock[c], cl[c], sv[c], served[c])
  BY DEF HInv, Quiet
<1>4. /\ sock \in [Conns -> Socks] /\ cl \in [Conns -> Clients] /\ sv \in [Conns -> Workers]
      /\ served \in [Conns -> Seq(Bytes)] /\ recv \in [Conns -> Seq(Bytes)]
  BY <1>1 DEF Funs
<1> QED BY <1>2, <1>3, <1>4, SameAt

\* A step that changes the connection c to the values k, l, w, b and v.
Becomes(c, k, l, w, b, v) ==
    /\ ConnOK(c, k, l, w, b, v)
    /\ ~disturbed => QuietConn(c, k, l, w, b)
    /\ sock' = [sock EXCEPT ![c] = k] /\ cl' = [cl EXCEPT ![c] = l] /\ sv' = [sv EXCEPT ![c] = w]
    /\ served' = [served EXCEPT ![c] = b] /\ recv' = [recv EXCEPT ![c] = v]
    /\ disk' = disk /\ disturbed' = disturbed

LEMMA OneConn ==
    ASSUME HInv, NEW c \in Conns, NEW k, NEW l, NEW w, NEW b, NEW v, Becomes(c, k, l, w, b, v)
    PROVE  HInv'
<1>1. Funs /\ \A x \in Conns : Conn(x) BY DEF HInv
<1>2. /\ sock \in [Conns -> Socks] /\ cl \in [Conns -> Clients] /\ sv \in [Conns -> Workers]
      /\ served \in [Conns -> Seq(Bytes)] /\ recv \in [Conns -> Seq(Bytes)]
  BY <1>1 DEF Funs
<1>3. k \in Socks /\ l \in Clients /\ w \in Workers /\ b \in Seq(Bytes) /\ v \in Seq(Bytes)
  BY DEF Becomes, ConnOK, Shape
<1>4. Funs' BY <1>1, <1>2, <1>3 DEF Funs, Becomes
<1>5. ASSUME NEW x \in Conns, x # c
      PROVE  /\ sock'[x] = sock[x] /\ cl'[x] = cl[x] /\ sv'[x] = sv[x]
             /\ served'[x] = served[x] /\ recv'[x] = recv[x]
  BY <1>2, <1>5 DEF Becomes
<1>6. sock'[c] = k /\ cl'[c] = l /\ sv'[c] = w /\ served'[c] = b /\ recv'[c] = v BY <1>2 DEF Becomes
<1>7. ASSUME NEW x \in Conns PROVE Conn(x)'
  <2>1. CASE x = c BY <1>6, <2>1 DEF Conn, Becomes
  <2>2. CASE x # c BY <1>1, <1>5, <2>2 DEF Conn
  <2> QED BY <2>1, <2>2
<1>8. ASSUME ~disturbed PROVE disk = Orig /\ \A x \in Conns : Quiet(x)'
  <2>1. disk = Orig /\ \A x \in Conns : Quiet(x) BY <1>8 DEF HInv
  <2>2. ASSUME NEW x \in Conns PROVE Quiet(x)'
    <3>1. CASE x = c BY <1>6, <1>8, <3>1 DEF Quiet, Becomes
    <3>2. CASE x # c BY <1>5, <2>1, <3>2 DEF Quiet
    <3> QED BY <3>1, <3>2
  <2> QED BY <2>1, <2>2
<1> QED BY <1>4, <1>7, <1>8 DEF HInv, Becomes

\* The end of the process of a client.
LEMMA ClientExitStep ==
    ASSUME HInv, NEW c \in Conns, ClientExit(c),
           \/ disturbed' = TRUE
           \/ /\ disturbed' = disturbed
              /\ ~disturbed => ~Gets(c, cl[c]) /\ (sock[c].cl = "open" => sock[c].sv = "closed")
    PROVE  HInv'
<1> DEFINE K(x) == IF sock[x].cl = "open" THEN [sock[x] EXCEPT !.cl = "closed", !.down = <<>>]
                   ELSE sock[x]
           L(x) == [cl[x] EXCEPT !.pc = "dead"]
           P == Process(c)
<1>1. Funs BY DEF HInv
<1>2. /\ sock \in [Conns -> Socks] /\ cl \in [Conns -> Clients] /\ sv \in [Conns -> Workers]
      /\ served \in [Conns -> Seq(Bytes)] /\ recv \in [Conns -> Seq(Bytes)]
  BY <1>1 DEF Funs
<1>3. /\ cl' = [x \in Conns |-> IF x \in P THEN L(x) ELSE cl[x]]
      /\ sock' = [x \in Conns |-> IF x \in P THEN K(x) ELSE sock[x]]
      /\ disk' = disk /\ sv' = sv /\ served' = served /\ recv' = recv
  <2>1. sock' = [x \in Conns |-> IF x \in P /\ sock[x].cl = "open"
                                 THEN [sock[x] EXCEPT !.cl = "closed", !.down = <<>>]
                                 ELSE sock[x]]
    BY DEF ClientExit
  <2>2. \A x \in Conns : (IF x \in P /\ sock[x].cl = "open"
                          THEN [sock[x] EXCEPT !.cl = "closed", !.down = <<>>]
                          ELSE sock[x]) = (IF x \in P THEN K(x) ELSE sock[x])
    OBVIOUS
  <2>3. sock' = [x \in Conns |-> IF x \in P THEN K(x) ELSE sock[x]]
    <3> HIDE DEF K, P
    <3> QED BY <2>1, <2>2, Zenon
  <2> QED BY <2>3 DEF ClientExit
<1>4. ASSUME NEW x \in Conns
      PROVE  /\ ConnOK(x, K(x), L(x), sv[x], served[x], recv[x])
             /\ ~Gets(x, cl[x]) /\ (sock[x].cl = "open" => sock[x].sv = "closed")
                    /\ QuietConn(x, sock[x], cl[x], sv[x], served[x])
                    => QuietConn(x, K(x), L(x), sv[x], served[x])
  <2>1. ConnOK(x, sock[x], cl[x], sv[x], served[x], recv[x]) BY At
  <2> QED BY <2>1, ExitConn
<1> HIDE DEF K, L, P
<1>5. \A x \in Conns : /\ cl'[x] = IF x \in P THEN L(x) ELSE cl[x]
                       /\ sock'[x] = IF x \in P THEN K(x) ELSE sock[x]
  BY <1>3
<1>6. ASSUME NEW x \in Conns PROVE Conn(x)'
  <2>1. CASE x \in P BY <1>3, <1>4, <1>5, <2>1 DEF Conn
  <2>2. CASE x \notin P
    <3>1. Conn(x) BY DEF HInv
    <3> QED BY <1>3, <1>5, <2>2, <3>1 DEF Conn
  <2> QED BY <2>1, <2>2
<1>7. Funs'
  <2>1. ASSUME NEW x \in Conns PROVE K(x) \in Socks /\ L(x) \in Clients
    BY <1>4 DEF ConnOK, Shape
  <2>2. sock' \in [Conns -> Socks] /\ cl' \in [Conns -> Clients] BY <1>2, <1>3, <2>1
  <2>3. disturbed' \in BOOLEAN BY <1>1 DEF Funs
  <2> QED BY <1>1, <1>3, <2>2, <2>3 DEF Funs
<1>8. ASSUME ~disturbed' PROVE disk' = Orig /\ \A x \in Conns : Quiet(x)'
  <2>1. ~disturbed /\ ~Gets(c, cl[c]) /\ (sock[c].cl = "open" => sock[c].sv = "closed") BY <1>8
  <2>2. P = {c} BY <2>1 DEF P, Process, Gets
  <2>3. disk = Orig /\ \A x \in Conns : Quiet(x) BY <2>1 DEF HInv
  <2>4. ASSUME NEW x \in Conns PROVE Quiet(x)'
    <3>1. CASE x = c
      <4>1. QuietConn(c, sock[c], cl[c], sv[c], served[c]) BY <2>3 DEF Quiet
      <4>2. QuietConn(c, K(c), L(c), sv[c], served[c]) BY <1>4, <2>1, <4>1
      <4> QED BY <1>3, <1>5, <2>2, <3>1, <4>2 DEF Quiet
    <3>2. CASE x # c BY <1>3, <1>5, <2>2, <2>3, <3>2 DEF Quiet
    <3> QED BY <3>1, <3>2
  <2> QED BY <1>3, <2>3, <2>4
<1> QED BY <1>6, <1>7, <1>8 DEF HInv

\* The end of the process of the server.
LEMMA ServerExitStep ==
    ASSUME HInv, ServerExit, disturbed
    PROVE  HInv'
<1> DEFINE K(x) == IF sock[x].sv = "open" THEN SvClosed(sock[x]) ELSE sock[x]
           W(x) == [sv[x] EXCEPT !.pc = "dead"]
<1>1. Funs BY DEF HInv
<1>2. /\ sv' = [x \in Conns |-> W(x)] /\ sock' = [x \in Conns |-> K(x)]
      /\ disk' = disk /\ cl' = cl /\ served' = served /\ recv' = recv /\ disturbed' = disturbed
  BY DEF ServerExit
<1>3. ASSUME NEW x \in Conns PROVE ConnOK(x, K(x), cl[x], W(x), served[x], recv[x])
  <2>1. ConnOK(x, sock[x], cl[x], sv[x], served[x], recv[x]) BY At
  <2> QED BY <2>1, ServerExitConn
<1> HIDE DEF K, W
<1>4. ASSUME NEW x \in Conns PROVE Conn(x)' BY <1>2, <1>3 DEF Conn
<1>5. Funs'
  <2>1. ASSUME NEW x \in Conns PROVE K(x) \in Socks /\ W(x) \in Workers
    BY <1>3 DEF ConnOK, Shape
  <2>2. sock' \in [Conns -> Socks] /\ sv' \in [Conns -> Workers] BY <1>2, <2>1
  <2> QED BY <1>1, <1>2, <2>2 DEF Funs
<1> QED BY <1>2, <1>4, <1>5 DEF HInv

\* Steps of the client.
LEMMA ClientSteps ==
    ASSUME HInv, NEW c \in Conns, ClientStep(c)
    PROVE  HInv'
<1> DEFINE k == sock[c]
           l == cl[c]
           w == sv[c]
           b == served[c]
           v == recv[c]
<1>1. /\ ConnOK(c, k, l, w, b, v) /\ (~disturbed => disk = Orig /\ QuietConn(c, k, l, w, b))
      /\ k \in Socks /\ l \in Clients /\ w \in Workers /\ b \in Seq(Bytes) /\ v \in Seq(Bytes)
      /\ sock = [sock EXCEPT ![c] = k] /\ cl = [cl EXCEPT ![c] = l] /\ sv = [sv EXCEPT ![c] = w]
      /\ served = [served EXCEPT ![c] = b] /\ recv = [recv EXCEPT ![c] = v]
  BY At
<1>2. Phases(k, l, w) BY <1>1 DEF ConnOK
<1>3. ~disturbed => \A x \in Conns : sv[x].pc # "dead" BY At DEF QuietConn
<1>4. CASE open_clientfd(c)
  <2>1. CASE ServerUp
    <3>1. PICK r \in Asks[c] :
            /\ cl' = [cl EXCEPT ![c] = [Idle EXCEPT !.pc = "send", !.method = r[1], !.file = r[2],
                                           !.out = Request(r), !.left = cl[c].left - 1]]
            /\ sock' = [sock EXCEPT ![c] = [NoConn EXCEPT !.cl = "open", !.sv = "open"]]
            /\ sv' = [sv EXCEPT ![c] = [NoWork EXCEPT !.pc = "request"]]
            /\ served' = [served EXCEPT ![c] = <<>>]
            /\ recv' = [recv EXCEPT ![c] = <<>>]
            /\ disk' = disk /\ disturbed' = disturbed
      BY <1>4, <2>1 DEF open_clientfd
    <3>2. cl[c].left - 1 \in 0 .. NrTimes
      <4>1. cl[c].left \in 0 .. NrTimes /\ cl[c].left > 0 /\ NrTimes \in Nat
        BY <1>1, <1>4, HttpAssumption DEF Clients, open_clientfd, MoreRequests
      <4> QED BY <4>1
    <3> DEFINE k2 == [NoConn EXCEPT !.cl = "open", !.sv = "open"]
               l2 == [Idle EXCEPT !.pc = "send", !.method = r[1], !.file = r[2], !.out = Request(r),
                                  !.left = cl[c].left - 1]
               w2 == [NoWork EXCEPT !.pc = "request"]
    <3>3. ConnOK(c, k2, l2, w2, <<>>, <<>>) /\ QuietConn(c, k2, l2, w2, <<>>) BY <3>2, OpenConn
    <3> HIDE DEF k2, l2, w2
    <3>4. sock' = [sock EXCEPT ![c] = k2] /\ cl' = [cl EXCEPT ![c] = l2] /\ sv' = [sv EXCEPT ![c] = w2]
      BY <3>1 DEF k2, l2, w2
    <3>9. Becomes(c, k2, l2, w2, <<>>, <<>>) BY <3>1, <3>3, <3>4 DEF Becomes
    <3> QED BY <3>9, OneConn
  <2>2. CASE ~ServerUp
    <3>1. ClientExit(c) /\ disturbed' = disturbed BY <1>4, <2>2 DEF open_clientfd
    <3>2. disturbed BY <1>3, <2>2 DEF ServerUp
    <3> QED BY <3>1, <3>2, ClientExitStep
  <2> QED BY <2>1, <2>2
<1>5. CASE client_send(c)
  <2>1. l.pc = "send" BY <1>5 DEF client_send
  <2>2. CASE \E j \in Writable(cl[c].out, sock[c].up) :
               /\ cl' = [cl EXCEPT ![c].out = rio_write(cl[c].out, j),
                                   ![c].pc = IF rio_write(cl[c].out, j) = <<>> THEN "first" ELSE "send"]
               /\ sock' = [sock EXCEPT ![c].up = @ \o SubSeq(cl[c].out, 1, j)]
               /\ UNCHANGED <<disk, sv, served, recv, disturbed>>
    <3>1. PICK j \in Writable(l.out, k.up) :
               /\ cl' = [cl EXCEPT ![c].out = rio_write(cl[c].out, j),
                                   ![c].pc = IF rio_write(cl[c].out, j) = <<>> THEN "first" ELSE "send"]
               /\ sock' = [sock EXCEPT ![c].up = @ \o SubSeq(cl[c].out, 1, j)]
               /\ UNCHANGED <<disk, sv, served, recv, disturbed>>
      BY <2>2
    <3> DEFINE out == rio_write(l.out, j)
               k2  == [k EXCEPT !.up = @ \o SubSeq(l.out, 1, j)]
               l2  == [l EXCEPT !.out = out, !.pc = IF out = <<>> THEN "first" ELSE "send"]
    <3>2. ConnOK(c, k2, l2, w, b, v) /\ (QuietConn(c, k, l, w, b) => QuietConn(c, k2, l2, w, b))
      BY <1>1, <2>1, SendConn
    <3>3. sock' = [sock EXCEPT ![c] = k2] /\ cl' = [cl EXCEPT ![c] = l2] BY <3>1
    <3> HIDE DEF k2, l2
    <3>9. Becomes(c, k2, l2, w, b, v) BY <1>1, <3>1, <3>2, <3>3 DEF Becomes
    <3> QED BY <3>9, OneConn
  <2>3. CASE /\ sock[c].sv = "closed"
             /\ cl' = [cl EXCEPT ![c].out = <<>>,
                                 ![c].pc = IF <<>> = <<>> THEN "first" ELSE "send"]
             /\ sock' = [sock EXCEPT ![c].rst = TRUE]
             /\ UNCHANGED <<disk, sv, served, recv, disturbed>>
    <3> DEFINE k2 == [k EXCEPT !.rst = TRUE]
               l2 == [l EXCEPT !.out = <<>>, !.pc = IF <<>> = <<>> THEN "first" ELSE "send"]
    <3>1. ConnOK(c, k2, l2, w, b, v) /\ (QuietConn(c, k, l, w, b) => QuietConn(c, k2, l2, w, b))
      BY <1>1, <2>1, <2>3, SendLost
    <3>2. sock' = [sock EXCEPT ![c] = k2] /\ cl' = [cl EXCEPT ![c] = l2] BY <2>3
    <3> HIDE DEF k2, l2
    <3>9. Becomes(c, k2, l2, w, b, v) BY <1>1, <2>3, <3>1, <3>2 DEF Becomes
    <3> QED BY <3>9, OneConn
  <2>4. CASE sock[c].sv = "closed" /\ ClientExit(c) /\ UNCHANGED disturbed
    <3>1. ~disturbed => ~Gets(c, l) BY <1>1, <2>1, <2>4, SendLost
    <3> QED BY <2>4, <3>1, ClientExitStep
  <2> QED BY <1>5, <2>2, <2>3, <2>4 DEF client_send
<1>6. CASE client_read(c)
  <2>1. l.pc \in {"first", "head", "body"} /\ ~LineDone(l.rio) BY <1>6 DEF client_read, Reading
  <2>2. CASE \E j \in Readable(sock[c].down) :
                /\ cl' = [cl EXCEPT ![c].rio = rio_readb(@, sock[c].down, j)]
                /\ sock' = [sock EXCEPT ![c].down = SubSeq(@, j + 1, Len(@))]
                /\ UNCHANGED <<disk, sv, served, recv, disturbed>>
    <3>1. PICK j \in Readable(k.down) :
                /\ cl' = [cl EXCEPT ![c].rio = rio_readb(@, sock[c].down, j)]
                /\ sock' = [sock EXCEPT ![c].down = SubSeq(@, j + 1, Len(@))]
                /\ UNCHANGED <<disk, sv, served, recv, disturbed>>
      BY <2>2
    <3> DEFINE k2 == [k EXCEPT !.down = SubSeq(k.down, j + 1, Len(k.down))]
               l2 == [l EXCEPT !.rio = rio_readb(l.rio, k.down, j)]
    <3>2. ConnOK(c, k2, l2, w, b, v) /\ (QuietConn(c, k, l, w, b) => QuietConn(c, k2, l2, w, b))
      BY <1>1, <2>1, ReadConn
    <3>3. sock' = [sock EXCEPT ![c] = k2] /\ cl' = [cl EXCEPT ![c] = l2] BY <3>1
    <3> HIDE DEF k2, l2
    <3>9. Becomes(c, k2, l2, w, b, v) BY <1>1, <3>1, <3>2, <3>3 DEF Becomes
    <3> QED BY <3>9, OneConn
  <2>3. CASE sock[c].rst /\ ClientExit(c) /\ UNCHANGED disturbed
    <3>1. k.sv = "closed" BY <1>2, <2>3 DEF Phases
    <3>2. ~disturbed => ~Gets(c, l) BY <1>1, <2>3 DEF QuietConn
    <3> QED BY <2>3, <3>1, <3>2, ClientExitStep
  <2> QED BY <1>6, <2>2, <2>3 DEF client_read
<1>7. CASE client_print(c)
  <2> DEFINE line == l.rio.line
  <2>1. /\ LineDone(l.rio) \/ (k.down = <<>> /\ k.sv = "closed" /\ ~k.rst)
        /\ disk' = disk /\ sock' = sock /\ sv' = sv /\ served' = served /\ disturbed' = disturbed
    BY <1>7 DEF client_print, ClientEOF
  <2>2. CASE l.pc \in {"first", "head"}
    <3> DEFINE l2 == [l EXCEPT !.rio = NextLine(l.rio),
                        !.pc = IF line = <<NL>> \/ Len(line) = 0 THEN "body" ELSE "head",
                        !.length = IF l.pc = "head" THEN Tag(line, "length", l.length) ELSE l.length,
                        !.csum = IF l.pc = "head" THEN Tag(line, "csum", l.csum) ELSE l.csum]
    <3>1. ConnOK(c, k, l2, w, b, v) /\ (QuietConn(c, k, l, w, b) => QuietConn(c, k, l2, w, b))
      BY <1>1, <2>1, <2>2, HeadConn
    <3>2. cl' = [cl EXCEPT ![c] = l2] /\ recv' = recv
      <4>1. l.pc # "body" BY <2>2
      <4> QED BY <1>7, <4>1 DEF client_print
    <3> HIDE DEF l2
    <3>9. Becomes(c, k, l2, w, b, v) BY <1>1, <2>1, <3>1, <3>2 DEF Becomes
    <3> QED BY <3>9, OneConn
  <2>3. CASE l.pc = "body"
    <3> DEFINE l2 == [l EXCEPT !.rio = NextLine(l.rio),
                        !.pc = IF Len(line) > 0 THEN "body" ELSE "check",
                        !.length_received = l.length_received + Len(line),
                        !.csum_received = l.csum_received + Csum(line)]
    <3>1. /\ ConnOK(c, k, l2, w, b, v \o line)
          /\ QuietConn(c, k, l, w, b) => QuietConn(c, k, l2, w, b)
      BY <1>1, <2>1, <2>3, BodyConn
    <3>2. cl' = [cl EXCEPT ![c] = l2] /\ recv' = [recv EXCEPT ![c] = v \o line]
      <4>1. l.pc \notin {"first", "head"} BY <2>3
      <4> QED BY <1>7, <4>1 DEF client_print
    <3> HIDE DEF l2, line
    <3>9. Becomes(c, k, l2, w, b, v \o line) BY <1>1, <2>1, <3>1, <3>2 DEF Becomes
    <3> QED BY <3>9, OneConn
  <2> QED BY <1>7, <2>2, <2>3 DEF client_print
<1>8. CASE client_close(c)
  <2> DEFINE ok == IF c \in Threads THEN AssertsHold(c) ELSE SimpleAssertHolds(c)
  <2>1. l.pc = "check" /\ disturbed' = disturbed BY <1>8 DEF client_close
  <2>2. CASE ok /\ cl' = [cl EXCEPT ![c].pc = "ok", ![c].rio = rio_init]
                /\ sock' = [sock EXCEPT ![c].cl = "closed"]
                /\ UNCHANGED <<disk, sv, served, recv>>
    <3> DEFINE k2 == [k EXCEPT !.cl = "closed"]
               l2 == [l EXCEPT !.pc = "ok", !.rio = rio_init]
    <3>1. c \in Threads => /\ Csum(Orig[l.file]) = l.csum /\ Len(Orig[l.file]) = l.length
                           /\ l.length = l.length_received /\ l.csum = l.csum_received
      BY <2>2 DEF AssertsHold
    <3>2. ConnOK(c, k2, l2, w, b, v) /\ (QuietConn(c, k, l, w, b) => QuietConn(c, k2, l2, w, b))
      BY <1>1, <2>1, <3>1, CloseConn
    <3>3. sock' = [sock EXCEPT ![c] = k2] /\ cl' = [cl EXCEPT ![c] = l2] BY <2>2
    <3> HIDE DEF k2, l2
    <3>9. Becomes(c, k2, l2, w, b, v) BY <1>1, <2>1, <2>2, <3>2, <3>3 DEF Becomes
    <3> QED BY <3>9, OneConn
  <2>3. CASE ~ok /\ ClientExit(c)
    <3>1. /\ k.sv = "closed" /\ k.cl = "open" /\ l.length_received = Len(v) /\ l.csum_received = Csum(v)
          /\ w.pc # "dead" => v = b /\ l.length = Len(b) /\ l.csum = Csum(b)
      BY <1>1, <2>1, CheckConn
    <3>2. ASSUME ~disturbed PROVE ~Gets(c, l)
      <4> SUFFICES ASSUME Gets(c, l) PROVE FALSE OBVIOUS
      <4>1. QuietConn(c, k, l, w, b) BY <1>1, <3>2
      <4>2. w.pc = "done" BY <1>2, <3>1, <4>1 DEF Phases, QuietConn
      <4>3. b = Orig[l.file] BY <3>1, <4>1, <4>2 DEF QuietConn
      <4>4. v = b /\ l.length = Len(b) /\ l.csum = Csum(b) BY <3>1, <4>2
      <4>5. AssertsHold(c) /\ SimpleAssertHolds(c)
        BY <3>1, <4>3, <4>4 DEF AssertsHold, SimpleAssertHolds
      <4> QED BY <2>3, <4>5
    <3> QED BY <2>1, <2>3, <3>1, <3>2, ClientExitStep
  <2> QED BY <1>8, <2>2, <2>3 DEF client_close
<1> QED BY <1>4, <1>5, <1>6, <1>7, <1>8 DEF ClientStep

\* The body that request_load finds: as many bytes as stat has told.
LEMMA LoadedBody ==
    ASSUME NEW content \in Seq(Bytes), NEW size \in Nat,
           NEW g \in [1 .. (size - Min({size, Len(content)})) -> Garbage]
    PROVE  /\ SubSeq(content, 1, Min({size, Len(content)})) \o g \in Seq(Bytes)
           /\ size = Len(content) => SubSeq(content, 1, Min({size, Len(content)})) \o g = content
<1> DEFINE m == Min({size, Len(content)})
           s == SubSeq(content, 1, m)
<1>1. Len(content) \in Nat OBVIOUS
<1>2. m \in {size, Len(content)} /\ m <= size /\ m <= Len(content)
  <2>1. {size, Len(content)} \subseteq Nat /\ {size, Len(content)} # {} BY <1>1
  <2>2. m \in {size, Len(content)} /\ \A y \in {size, Len(content)} : m <= y BY <2>1, MinOf
  <2> QED BY <2>2
<1> HIDE DEF m
<1>3. m \in 0 .. Len(content) /\ size - m \in Nat BY <1>1, <1>2
<1>4. s \in Seq(Bytes) /\ Len(s) = m BY <1>3
<1>5. g \in Seq(Bytes) /\ Len(g) = size - m
  <2>1. g \in [1 .. (size - m) -> Garbage] BY DEF m
  <2>2. g \in [1 .. (size - m) -> Bytes] BY <2>1, HttpAssumption
  <2> QED BY <1>3, <2>2
<1>6. s \o g \in Seq(Bytes) BY <1>4, <1>5
<1>7. ASSUME size = Len(content) PROVE s \o g = content
  <2>1. m = Len(content) BY <1>2, <1>7
  <2>2. s = content BY <2>1
  <2>3. Len(g) = 0 BY <1>1, <1>5, <1>7, <2>1
  <2>4. g = <<>> BY <1>5, <2>3
  <2> QED BY <2>2, <2>4
<1> QED BY <1>6, <1>7 DEF m, s

\* Steps of the worker.
LEMMA ServerSteps ==
    ASSUME HInv, NEW c \in Conns, ServerStep(c)
    PROVE  HInv'
<1> DEFINE k == sock[c]
           l == cl[c]
           w == sv[c]
           b == served[c]
           v == recv[c]
<1>1. /\ ConnOK(c, k, l, w, b, v) /\ (~disturbed => disk = Orig /\ QuietConn(c, k, l, w, b))
      /\ k \in Socks /\ l \in Clients /\ w \in Workers /\ b \in Seq(Bytes) /\ v \in Seq(Bytes)
      /\ sock = [sock EXCEPT ![c] = k] /\ cl = [cl EXCEPT ![c] = l] /\ sv = [sv EXCEPT ![c] = w]
      /\ served = [served EXCEPT ![c] = b] /\ recv = [recv EXCEPT ![c] = v]
  BY At
<1>2. Phases(k, l, w) /\ RequestOK(c, k, l, w) /\ k.cl \in Ends BY <1>1 DEF ConnOK, Socks
<1>3. \A f \in Files : disk[f] = Absent \/ disk[f] \in Seq(Bytes) BY DEF HInv, Funs
<1> DEFINE Reply(body) == [NoWork EXCEPT !.pc = "send", !.out = Response(body)]
<1>4. ASSUME NEW body \in Seq(Bytes), Answer(c, body), w.pc \in {"request", "stat", "load"},
             w.pc = "request" /\ k.cl = "open" => ~Gets(c, l),
             ~disturbed => (Gets(c, l) /\ k.cl = "open" => body = Orig[l.file]),
             UNCHANGED <<disk, sock, cl, recv, disturbed>>
      PROVE  HInv'
  <2> DEFINE w2 == Reply(body)
  <2>1. /\ ConnOK(c, k, l, w2, body, v)
        /\ QuietConn(c, k, l, w, b) /\ (Gets(c, l) /\ k.cl = "open" => body = Orig[l.file])
             => QuietConn(c, k, l, w2, body)
    BY <1>1, <1>4, AnswerConn
  <2>2. sv' = [sv EXCEPT ![c] = w2] /\ served' = [served EXCEPT ![c] = body] BY <1>4 DEF Answer
  <2> HIDE DEF w2
  <2>3. Becomes(c, k, l, w2, body, v) BY <1>1, <1>4, <2>1, <2>2 DEF Becomes
  <2> QED BY <2>3, OneConn
<1>5. CASE server_read(c)
  <2>1. PICK j \in Readable(k.up) :
          /\ sv' = [sv EXCEPT ![c].rio = rio_readb(@, sock[c].up, j)]
          /\ sock' = [sock EXCEPT ![c].up = SubSeq(@, j + 1, Len(@))]
    BY <1>5 DEF server_read
  <2>2. w.pc \in {"request", "header", "headers"} /\ ~LineDone(w.rio)
        /\ UNCHANGED <<disk, cl, served, recv, disturbed>>
    BY <1>5 DEF server_read
  <2> DEFINE k2 == [k EXCEPT !.up = SubSeq(k.up, j + 1, Len(k.up))]
             w2 == [w EXCEPT !.rio = rio_readb(w.rio, k.up, j)]
  <2>3. ConnOK(c, k2, l, w2, b, v) /\ (QuietConn(c, k, l, w, b) => QuietConn(c, k2, l, w2, b))
    BY <1>1, <2>2, ServerReadConn
  <2>4. sock' = [sock EXCEPT ![c] = k2] /\ sv' = [sv EXCEPT ![c] = w2] BY <2>1
  <2> HIDE DEF k2, w2
  <2>5. Becomes(c, k2, l, w2, b, v) BY <1>1, <2>2, <2>3, <2>4 DEF Becomes
  <2> QED BY <2>5, OneConn
<1>6. CASE request_init(c)
  <2>1. w.pc = "request" /\ (LineDone(w.rio) \/ (k.up = <<>> /\ k.cl = "closed"))
        /\ UNCHANGED <<disk, sock, cl, recv, disturbed>>
    BY <1>6 DEF request_init, ServerEOF
  <2>2. PICK m \in {"GET", "PUT"}, f \in Files :
              /\ w.rio.line # <<>> => w.rio.line[1] = <<m, f>>
              /\ \/ /\ m = "GET"
                    /\ sv' = [sv EXCEPT ![c].pc = "header", ![c].file = f, ![c].rio = NextLine(@)]
                    /\ UNCHANGED served
                 \/ m # "GET" /\ Answer(c, ErrorBody)
    BY <1>6 DEF request_init
  <2>3. CASE m = "GET"
    <3> DEFINE w2 == [w EXCEPT !.pc = "header", !.file = f, !.rio = NextLine(w.rio)]
    <3>1. w.rio.line # <<>> => w.rio.line[1] = <<"GET", f>> BY <2>2, <2>3
    <3>2. ConnOK(c, k, l, w2, b, v) /\ (QuietConn(c, k, l, w, b) => QuietConn(c, k, l, w2, b))
      BY <1>1, <2>1, <3>1, InitConn
    <3>3. sv' = [sv EXCEPT ![c] = w2] /\ served' = served BY <2>2, <2>3
    <3> HIDE DEF w2
    <3>4. Becomes(c, k, l, w2, b, v) BY <1>1, <2>1, <3>2, <3>3 DEF Becomes
    <3> QED BY <3>4, OneConn
  <2>4. CASE m # "GET"
    <3>1. k.cl = "open" => ~Gets(c, l)
      <4>1. ConnOK(c, k, l, w, b, v) BY <1>1
      <4>2. w.pc = "request" /\ (LineDone(w.rio) \/ (k.up = <<>> /\ k.cl = "closed")) BY <2>1
      <4>3. w.rio.line # <<>> => w.rio.line[1] = <<m, f>> BY <2>2
      <4> HIDE DEF k, l, w, b, v
      <4> QED BY ONLY <2>4, <4>1, <4>2, <4>3, c \in Conns, InitMethod
    <3>2. ErrorBody \in Seq(Bytes) /\ Answer(c, ErrorBody) BY <2>2, <2>4, HttpAssumption
    <3>3. w.pc \in {"request", "stat", "load"} BY <2>1
    <3> QED BY <1>4, <2>1, <3>1, <3>2, <3>3
  <2> QED BY <2>3, <2>4
<1>7. CASE request_read_headers(c)
  <2>1. w.pc \in {"header", "headers"} /\ UNCHANGED <<disk, sock, cl, served, recv, disturbed>>
    BY <1>7 DEF request_read_headers
  <2>2. CASE /\ LineDone(w.rio) \/ (ServerEOF(c) /\ w.rio.line # <<>>)
             /\ sv' = [sv EXCEPT ![c].pc = IF w.rio.line = <<NL>> THEN "stat" ELSE "headers",
                                 ![c].rio = IF w.rio.line = <<NL>> THEN rio_init ELSE NextLine(@)]
    <3> DEFINE line == w.rio.line
               w2 == [w EXCEPT !.pc = IF line = <<NL>> THEN "stat" ELSE "headers",
                               !.rio = IF line = <<NL>> THEN rio_init ELSE NextLine(w.rio)]
    <3>1. LineDone(w.rio) \/ k.cl = "closed" BY <2>2 DEF ServerEOF
    <3>2. ConnOK(c, k, l, w2, b, v) /\ (QuietConn(c, k, l, w, b) => QuietConn(c, k, l, w2, b))
      BY <1>1, <2>1, <3>1, HeadersConn
    <3>3. sv' = [sv EXCEPT ![c] = w2] BY <2>2
    <3> HIDE DEF w2
    <3>4. Becomes(c, k, l, w2, b, v) BY <1>1, <2>1, <3>2, <3>3 DEF Becomes
    <3> QED BY <3>4, OneConn
  <2>3. CASE /\ ServerEOF(c) /\ w.rio.line = <<>> /\ sv[c].pc = "header"
             /\ \E next \in {"stat", "headers"} :
                   sv' = [sv EXCEPT ![c].pc = next, ![c].rio = rio_init]
    <3>1. PICK next \in {"stat", "headers"} : sv' = [sv EXCEPT ![c].pc = next, ![c].rio = rio_init]
      BY <2>3
    <3> DEFINE w2 == [w EXCEPT !.pc = next, !.rio = rio_init]
    <3>2. w.pc = "header" /\ k.cl = "closed" BY <2>3 DEF ServerEOF
    <3>3. ConnOK(c, k, l, w2, b, v) /\ (QuietConn(c, k, l, w, b) => QuietConn(c, k, l, w2, b))
      BY <1>1, <3>2, HeadersEnd
    <3>4. sv' = [sv EXCEPT ![c] = w2] BY <3>1
    <3> HIDE DEF w2
    <3>5. Becomes(c, k, l, w2, b, v) BY <1>1, <2>1, <3>3, <3>4 DEF Becomes
    <3> QED BY <3>5, OneConn
  <2> QED BY <1>7, <2>2, <2>3 DEF request_read_headers
<1>8. CASE request_stat(c)
  <2> DEFINE content == disk[w.file]
  <2>1. w.pc = "stat" /\ UNCHANGED <<disk, sock, cl, recv, disturbed>> BY <1>8 DEF request_stat
  <2>2. w.file \in Files BY <1>2, <2>1 DEF Phases
  <2>3. content = Absent \/ content \in Seq(Bytes) BY <1>3, <2>2
  <2>4. ~disturbed => content = Orig[w.file] /\ content # Absent BY <1>1, <2>2, HttpAssumption
  <2>5. k.cl = "open" => w.file = l.file BY <1>2, <2>1 DEF RequestOK
  <2>6. w.pc \in {"request", "stat", "load"} /\ w.pc # "request" BY <2>1
  <2>7. CASE content = Absent /\ Answer(c, ErrorBody)
    <3>1. ErrorBody \in Seq(Bytes) BY HttpAssumption
    <3>2. disturbed BY <2>4, <2>7
    <3> QED BY <1>4, <2>1, <2>6, <2>7, <3>1, <3>2
  <2>8. CASE content = <<>> /\ Answer(c, <<>>)
    <3>1. <<>> \in Seq(Bytes) OBVIOUS
    <3>2. ~disturbed => (Gets(c, l) /\ k.cl = "open" => <<>> = Orig[l.file]) BY <2>4, <2>5, <2>8
    <3> QED BY <1>4, <2>1, <2>6, <2>8, <3>1, <3>2
  <2>9. CASE /\ content \notin {Absent, <<>>}
             /\ sv' = [sv EXCEPT ![c].pc = "load", ![c].size = Len(content)]
             /\ UNCHANGED served
    <3> DEFINE w2 == [w EXCEPT !.pc = "load", !.size = Len(content)]
    <3>1. content \in Seq(Bytes) BY <2>3, <2>9
    <3>2. /\ ConnOK(c, k, l, w2, b, v)
          /\ QuietConn(c, k, l, w, b) /\ content = Orig[w.file] => QuietConn(c, k, l, w2, b)
      <4> HIDE DEF content
      <4> QED BY <1>1, <2>1, <3>1, StatConn
    <3>3. sv' = [sv EXCEPT ![c] = w2] BY <2>9
    <3> HIDE DEF w2
    <3>4. Becomes(c, k, l, w2, b, v) BY <1>1, <2>1, <2>4, <2>9, <3>2, <3>3 DEF Becomes
    <3> QED BY <3>4, OneConn
  <2> QED BY <1>8, <2>7, <2>8, <2>9 DEF request_stat
<1>9. CASE request_load(c)
  <2> DEFINE content == disk[w.file]
             size == w.size
  <2>1. w.pc = "load" BY <1>9 DEF request_load
  <2>2. w.file \in Files BY <1>2, <2>1 DEF Phases
  <2>3. content = Absent \/ content \in Seq(Bytes) BY <1>3, <2>2
  <2>4. ~disturbed => content = Orig[w.file] /\ content # Absent /\ size = Len(content)
    BY <1>1, <2>1, <2>2, HttpAssumption DEF QuietConn
  <2>5. CASE content = Absent /\ ServerExit BY <2>4, <2>5, ServerExitStep
  <2>6. CASE /\ content # Absent
             /\ \E g \in [1 .. (size - Min({size, Len(content)})) -> Garbage] :
                    Answer(c, SubSeq(content, 1, Min({size, Len(content)})) \o g)
             /\ UNCHANGED <<disk, changes, sock, cl, recv, disturbed>>
    <3>1. PICK g \in [1 .. (size - Min({size, Len(content)})) -> Garbage] :
                    Answer(c, SubSeq(content, 1, Min({size, Len(content)})) \o g)
      BY <2>6
    <3> DEFINE body == SubSeq(content, 1, Min({size, Len(content)})) \o g
    <3>2. body \in Seq(Bytes) /\ (size = Len(content) => body = content)
      <4>1. content \in Seq(Bytes) /\ size \in Nat BY <1>1, <2>3, <2>6 DEF Workers
      <4> HIDE DEF content, size
      <4> QED BY <4>1, LoadedBody
    <3>3. Answer(c, body) BY <3>1
    <3> HIDE DEF body
    <3>4. k.cl = "open" => w.file = l.file BY <1>2, <2>1 DEF RequestOK
    <3>5. ~disturbed => (Gets(c, l) /\ k.cl = "open" => body = Orig[l.file]) BY <2>4, <3>2, <3>4
    <3>6. w.pc \in {"request", "stat", "load"} /\ w.pc # "request" BY <2>1
    <3> QED BY <1>4, <2>6, <3>2, <3>3, <3>5, <3>6
  <2> QED BY <1>9, <2>5, <2>6 DEF request_load
<1>10. CASE request_sendfile(c)
  <2>1. w.pc = "send" BY <1>10 DEF request_sendfile
  <2>2. CASE /\ sock[c].cl = "open"
             /\ \E j \in Writable(sv[c].out, sock[c].down) :
                   /\ sv' = [sv EXCEPT ![c].out = rio_write(@, j)]
                   /\ sock' = [sock EXCEPT ![c].down = @ \o SubSeq(sv[c].out, 1, j)]
             /\ UNCHANGED <<disk, changes, cl, served, recv, disturbed>>
    <3>1. PICK j \in Writable(w.out, k.down) :
                   /\ sv' = [sv EXCEPT ![c].out = rio_write(@, j)]
                   /\ sock' = [sock EXCEPT ![c].down = @ \o SubSeq(sv[c].out, 1, j)]
      BY <2>2
    <3> DEFINE k2 == [k EXCEPT !.down = k.down \o SubSeq(w.out, 1, j)]
               w2 == [w EXCEPT !.out = rio_write(w.out, j)]
    <3>2. ConnOK(c, k2, l, w2, b, v) /\ (QuietConn(c, k, l, w, b) => QuietConn(c, k2, l, w2, b))
      BY <1>1, <2>1, <2>2, SendfileConn
    <3>3. sock' = [sock EXCEPT ![c] = k2] /\ sv' = [sv EXCEPT ![c] = w2] BY <3>1
    <3> HIDE DEF k2, w2
    <3>4. Becomes(c, k2, l, w2, b, v) BY <1>1, <2>2, <3>2, <3>3 DEF Becomes
    <3> QED BY <3>4, OneConn
  <2>3. CASE /\ sock[c].cl = "closed"
             /\ sv' = [sv EXCEPT ![c].out = <<>>]
             /\ UNCHANGED <<disk, changes, sock, cl, served, recv, disturbed>>
    <3> DEFINE w2 == [w EXCEPT !.out = <<>>]
    <3>1. ConnOK(c, k, l, w2, b, v) /\ ~QuietConn(c, k, l, w, b) BY <1>1, <2>1, <2>3, SendfileLost
    <3>2. sv' = [sv EXCEPT ![c] = w2] BY <2>3
    <3> HIDE DEF w2
    <3>3. Becomes(c, k, l, w2, b, v) BY <1>1, <2>3, <3>1, <3>2 DEF Becomes
    <3> QED BY <3>3, OneConn
  <2>4. CASE sock[c].cl = "closed" /\ ServerExit
    <3>1. disturbed BY <1>1, <2>1, <2>4 DEF QuietConn
    <3> QED BY <2>4, <3>1, ServerExitStep
  <2> QED BY <1>10, <2>2, <2>3, <2>4 DEF request_sendfile
<1>11. CASE request_destroy(c)
  <2> DEFINE k2 == SvClosed(k)
             w2 == [w EXCEPT !.pc = "done"]
  <2>1. /\ w.pc = "send" /\ w.out = <<>> /\ sv' = [sv EXCEPT ![c] = w2] /\ sock' = [sock EXCEPT ![c] = k2]
        /\ UNCHANGED <<disk, changes, cl, served, recv, disturbed>>
    BY <1>11 DEF request_destroy
  <2>2. ConnOK(c, k2, l, w2, b, v) /\ (QuietConn(c, k, l, w, b) => QuietConn(c, k2, l, w2, b))
    BY <1>1, <2>1, DestroyConn
  <2> HIDE DEF k2, w2
  <2>3. Becomes(c, k2, l, w2, b, v) BY <1>1, <2>1, <2>2 DEF Becomes
  <2> QED BY <2>3, OneConn
<1> QED BY <1>5, <1>6, <1>7, <1>8, <1>9, <1>10, <1>11 DEF ServerStep

-----------------------------------------------------------------------------
(* The specification. *)

\* Before the first request.
LEMMA StartConn ==
    ASSUME NEW c \in Conns
    PROVE  LET l == [Idle EXCEPT !.left = IF c \in Threads THEN NrTimes ELSE 1]
           IN  ConnOK(c, NoConn, l, NoWork, <<>>, <<>>) /\ QuietConn(c, NoConn, l, NoWork, <<>>)
<1> DEFINE n == IF c \in Threads THEN NrTimes ELSE 1
           l == [Idle EXCEPT !.left = n]
<1>1. n \in 0 .. NrTimes BY HttpAssumption
<1> HIDE DEF n
<1>2. /\ NoConn.up = <<>> /\ NoConn.down = <<>> /\ NoConn.cl = "none" /\ NoConn.sv = "none"
      /\ NoConn.rst = FALSE /\ NoConn \in Socks
  BY DEF NoConn, Socks, Ends
<1>3. RioOK(rio_init) /\ rio_init \in Rios BY RioInit
<1>4. l.pc = "start" /\ l.rio = rio_init /\ l.length_received = 0 /\ l.csum_received = 0 /\ l \in Clients
  <2>1. <<>> \in Seq(Unit) OBVIOUS
  <2> QED BY <1>1, <1>3, <2>1 DEF Idle, Clients
<1>5. NoWork.pc = "none" /\ NoWork.rio = rio_init /\ NoWork.out = <<>> /\ NoWork \in Workers
  BY <1>3 DEF NoWork, Workers
<1>6. Csum(<<>>) = 0 /\ <<>> \in Seq(Bytes) /\ Len(<<>>) = 0 BY CsumNumber
<1>7. 0 <= SockSize BY HttpAssumption
<1> HIDE DEF l
<1>8. Shape(NoConn, l, NoWork, <<>>, <<>>) BY <1>2, <1>3, <1>4, <1>5, <1>6, <1>7 DEF Shape
<1>9. Phases(NoConn, l, NoWork) BY <1>2, <1>4, <1>5 DEF Phases
<1>10. AnswerOK(NoConn, l, NoWork, <<>>, <<>>) /\ RequestOK(c, NoConn, l, NoWork)
  BY <1>2 DEF AnswerOK, RequestOK
<1>11. AcceptOK(c, l, <<>>, <<>>) BY <1>4 DEF AcceptOK
<1>12. QuietConn(c, NoConn, l, NoWork, <<>>) BY <1>2, <1>4, <1>5 DEF QuietConn
<1> QED BY <1>8, <1>9, <1>10, <1>11, <1>12 DEF ConnOK, l, n

\* Init establishes the invariant.
LEMMA InitHInv == Init => HInv
<1> SUFFICES ASSUME Init PROVE HInv OBVIOUS
<1> DEFINE L(c) == [Idle EXCEPT !.left = IF c \in Threads THEN NrTimes ELSE 1]
<1>1. /\ disk = Orig /\ disturbed = FALSE
      /\ sock = [c \in Conns |-> NoConn] /\ cl = [c \in Conns |-> L(c)]
      /\ sv = [c \in Conns |-> NoWork] /\ served = [c \in Conns |-> <<>>]
      /\ recv = [c \in Conns |-> <<>>]
  BY DEF Init
<1>2. \A c \in Conns : ConnOK(c, NoConn, L(c), NoWork, <<>>, <<>>)
                       /\ QuietConn(c, NoConn, L(c), NoWork, <<>>)
  BY StartConn
<1> HIDE DEF L
<1>3. \A c \in Conns : /\ NoConn \in Socks /\ L(c) \in Clients /\ NoWork \in Workers
                       /\ <<>> \in Seq(Bytes)
  BY <1>2 DEF ConnOK, Shape
<1>4. Orig \in [Files -> Seq(Bytes)] BY HttpAssumption
<1>5. DOMAIN disk = Files /\ disk = [f \in Files |-> disk[f]] /\ \A f \in Files : disk[f] \in Seq(Bytes)
  BY <1>1, <1>4
<1>6. sock \in [Conns -> Socks] /\ cl \in [Conns -> Clients] /\ sv \in [Conns -> Workers]
      /\ served \in [Conns -> Seq(Bytes)] /\ recv \in [Conns -> Seq(Bytes)]
  BY <1>1, <1>3
<1>7. Funs BY <1>1, <1>5, <1>6 DEF Funs
<1>8. ASSUME NEW c \in Conns
      PROVE  sock[c] = NoConn /\ cl[c] = L(c) /\ sv[c] = NoWork /\ served[c] = <<>> /\ recv[c] = <<>>
  BY <1>1
<1>9. \A c \in Conns : Conn(c) /\ Quiet(c) BY <1>2, <1>8 DEF Conn, Quiet
<1> QED BY <1>1, <1>7, <1>9 DEF HInv

\* A file is changed: from now on nothing is promised of its contents.
LEMMA ChangeFileStep ==
    ASSUME HInv, NEW f \in Files, ChangeFile(f)
    PROVE  HInv'
<1>1. Funs /\ \A c \in Conns : Conn(c) BY DEF HInv
<1>2. PICK v \in Versions[f] : disk' = [disk EXCEPT ![f] = v] BY DEF ChangeFile
<1>3. disturbed' = TRUE /\ UNCHANGED <<sock, cl, sv, served, recv>> BY DEF ChangeFile
<1>4. v = Absent \/ v \in Seq(Bytes) BY HttpAssumption
<1>5. Funs' BY <1>1, <1>2, <1>3, <1>4 DEF Funs
<1>6. \A c \in Conns : Conn(c)' BY <1>1, <1>3 DEF Conn
<1> QED BY <1>3, <1>5, <1>6 DEF HInv

\* Every step preserves the invariant.
LEMMA NextHInv == HInv /\ [Next]_vars => HInv'
<1> SUFFICES ASSUME HInv, [Next]_vars PROVE HInv' OBVIOUS
<1>1. ASSUME NEW c \in Conns, ClientStep(c) PROVE HInv' BY <1>1, ClientSteps
<1>2. ASSUME NEW c \in Conns, ServerStep(c) PROVE HInv' BY <1>2, ServerSteps
<1>3. ASSUME NEW c \in Conns, KillClient(c) PROVE HInv'
  <2>1. ClientExit(c) /\ disturbed' = TRUE BY <1>3 DEF KillClient
  <2> QED BY <2>1, ClientExitStep
<1>4. ASSUME NEW f \in Files, ChangeFile(f) PROVE HInv' BY <1>4, ChangeFileStep
<1>5. CASE UNCHANGED vars BY <1>5 DEF vars, HInv, Funs, Conn, Quiet
<1> QED BY <1>1, <1>2, <1>3, <1>4, <1>5 DEF Next

LEMMA Invariance == Spec => []HInv BY InitHInv, NextHInv, PTL DEF Spec

-----------------------------------------------------------------------------
(* Theorems. *)

\* The types of TypeOK follow from the shape of each connection.
LEMMA TypesFollow == HInv => TypeOK
<1> SUFFICES ASSUME HInv PROVE TypeOK OBVIOUS
<1>1. ASSUME NEW c \in Conns
      PROVE  /\ sock[c].up \in Seq(Unit) /\ sock[c].down \in Seq(Unit)
             /\ Len(sock[c].up) <= SockSize /\ Len(sock[c].down) <= SockSize
             /\ sock[c].cl \in {"none", "open", "closed"} /\ sock[c].sv \in {"none", "open", "closed"}
             /\ sock[c].rst \in BOOLEAN
             /\ cl[c].pc \in {"start", "send", "first", "head", "body", "check", "ok", "dead"}
             /\ sv[c].pc \in {"none", "request", "header", "headers", "stat", "load", "send",
                              "done", "dead"}
             /\ cl[c].left \in 0 .. NrTimes /\ cl[c].method \in {"GET", "PUT"} /\ cl[c].file \in Files \cup {Absent}
             /\ Len(cl[c].rio.line) <= MAXBUF /\ Len(sv[c].rio.line) <= MAXBUF
             /\ Len(cl[c].rio.buf) <= RIO_BUFSIZE /\ Len(sv[c].rio.buf) <= RIO_BUFSIZE
  <2>1. Shape(sock[c], cl[c], sv[c], served[c], recv[c]) BY DEF HInv, Conn, ConnOK
  <2>2. RioOK(cl[c].rio) /\ RioOK(sv[c].rio) /\ Len(sock[c].up) <= SockSize /\ Len(sock[c].down) <= SockSize
    BY <2>1 DEF Shape
  <2>3. sock[c] \in Socks /\ cl[c] \in Clients /\ sv[c] \in Workers BY <2>1 DEF Shape
  <2>4. /\ Len(cl[c].rio.line) <= MAXBUF /\ Len(sv[c].rio.line) <= MAXBUF
        /\ Len(cl[c].rio.buf) <= RIO_BUFSIZE /\ Len(sv[c].rio.buf) <= RIO_BUFSIZE
    BY <2>2 DEF RioOK
  <2>5. /\ sock[c].up \in Seq(Unit) /\ sock[c].down \in Seq(Unit) /\ sock[c].rst \in BOOLEAN
        /\ sock[c].cl \in {"none", "open", "closed"} /\ sock[c].sv \in {"none", "open", "closed"}
    BY <2>3 DEF Socks, Ends
  <2>6. /\ cl[c].pc \in {"start", "send", "first", "head", "body", "check", "ok", "dead"}
        /\ cl[c].left \in 0 .. NrTimes /\ cl[c].method \in {"GET", "PUT"} /\ cl[c].file \in Files \cup {Absent}
    BY <2>3 DEF Clients
  <2>7. sv[c].pc \in {"none", "request", "header", "headers", "stat", "load", "send", "done", "dead"}
    BY <2>3 DEF Workers
  <2> QED BY <2>2, <2>4, <2>5, <2>6, <2>7
<1> QED BY <1>1 DEF TypeOK

\* Four pieces of a message that follow each other are one piece of it.
LEMMA StreamWhole ==
    ASSUME NEW r, RioOK(r), NEW q \in Seq(Unit), NEW out \in Seq(Unit), NEW R \in Seq(Unit),
           NEW n \in Nat, StreamAt(r, q, out, R, n)
    PROVE  LET s == r.line \o r.buf \o q \o out
           IN  s \in Seq(Unit) /\ Len(s) = Ahead(r, q, out) /\ Seg(s, R, n)
<1> DEFINE x == r.line
           y == r.buf
<1>1. x \in Seq(Unit) /\ y \in Seq(Unit) BY DEF RioOK, Rios
<1>2. /\ Seg(x, R, n) /\ Seg(y, R, n + Len(x)) /\ Seg(q, R, n + Len(x) + Len(y))
      /\ Seg(out, R, n + Len(x) + Len(y) + Len(q))
  BY DEF StreamAt
<1>3. Ahead(r, q, out) = Len(x) + Len(y) + Len(q) + Len(out) BY DEF Ahead
<1> HIDE DEF x, y
<1>4. Len(x) \in Nat /\ Len(y) \in Nat /\ Len(q) \in Nat /\ Len(out) \in Nat BY <1>1
<1> DEFINE xy == x \o y
           xyq == xy \o q
<1>5. xy \in Seq(Unit) /\ Len(xy) = Len(x) + Len(y) /\ Seg(xy, R, n) BY <1>1, <1>2, SegConcat
<1> HIDE DEF xy
<1>6. n + Len(xy) = n + Len(x) + Len(y) BY <1>4, <1>5
<1>7. Seg(q, R, n + Len(xy)) BY <1>2, <1>6
<1>8. xyq \in Seq(Unit) /\ Len(xyq) = Len(xy) + Len(q) /\ Seg(xyq, R, n)
  BY <1>5, <1>7, SegConcat
<1> HIDE DEF xyq
<1>9. n + Len(xyq) = n + Len(x) + Len(y) + Len(q) BY <1>4, <1>5, <1>8
<1>10. Seg(out, R, n + Len(xyq)) BY <1>2, <1>9
<1>11. xyq \o out \in Seq(Unit) /\ Len(xyq \o out) = Len(xyq) + Len(out) /\ Seg(xyq \o out, R, n)
  BY <1>8, <1>10, SegConcat
<1>12. Len(xyq \o out) = Ahead(r, q, out) BY <1>3, <1>4, <1>5, <1>8, <1>11
<1> QED BY <1>11, <1>12 DEF x, y, xy, xyq

\* InFlight and StreamExact for the values of one connection.
OnTheWay(k, l, w) == l.rio.line \o l.rio.buf \o k.down \o w.out

LEMMA ExactConn ==
    ASSUME NEW c \in Conns, NEW k, NEW l, NEW w, NEW b, NEW v, ConnOK(c, k, l, w, b, v),
           w.pc \in {"send", "done"}, k.cl = "open"
    PROVE  /\ IsSuffix(OnTheWay(k, l, w), Response(b))
           /\ l.pc \in {"body", "check"} => v \o OnTheWay(k, l, w) = b
<1> DEFINE s == OnTheWay(k, l, w)
           R == Response(b)
<1>1. Shape(k, l, w, b, v) /\ AnswerOK(k, l, w, b, v) BY DEF ConnOK
<1>2. /\ b \in Seq(Bytes) /\ v \in Seq(Bytes) /\ k.down \in Seq(Unit) /\ w.out \in Seq(Unit)
      /\ RioOK(l.rio) /\ R \in Seq(Unit) /\ Len(b) \in Nat /\ Len(v) \in Nat
  BY <1>1, Fields
<1>3. ~EarlyEnd(k, l, w, v) BY DEF EarlyEnd
<1>4. PICK n \in 0 .. 4 + Len(v) : AnswerAt(k, l, w, b, v, n) BY <1>1, <1>3 DEF AnswerOK
<1>5. StreamAt(l.rio, k.down, w.out, R, n) /\ n + Ahead(l.rio, k.down, w.out) = 4 + Len(b)
  BY <1>4 DEF AnswerAt
<1>6. n \in Nat BY <1>2
<1>7. Len(R) = 4 + Len(b) BY <1>2, ResponseUnits
<1> HIDE DEF R
<1>8. s \in Seq(Unit) /\ Len(s) = Ahead(l.rio, k.down, w.out) /\ Seg(s, R, n)
  BY <1>2, <1>5, <1>6, StreamWhole DEF OnTheWay
<1> HIDE DEF s
<1>9. IsSuffix(s, R) BY <1>2, <1>5, <1>6, <1>7, <1>8, SegSuffix
<1>10. ASSUME l.pc \in {"body", "check"} PROVE v \o s = b
  <2>1. n = 4 + Len(v) /\ Seg(v, b, 0) BY <1>4, <1>10 DEF AnswerAt
  <2>2. Seg(s, Response(b), 4 + Len(v)) BY <1>8, <2>1 DEF R
  <2>3. s \in Seq(Bytes) /\ Seg(s, b, Len(v)) BY <1>2, <1>8, <2>2, BodySeg
  <2>4. Len(v) + Len(s) = Len(b) BY <1>2, <1>5, <1>8, <2>1
  <2>5. Seg(s, b, 0 + Len(v)) BY <1>2, <2>3
  <2>6. v \o s \in Seq(Bytes) /\ Len(v \o s) = Len(v) + Len(s) /\ Seg(v \o s, b, 0)
    BY <1>2, <2>1, <2>3, <2>5, SegConcat
  <2> QED BY <1>2, <2>4, <2>6, SegWhole
<1> QED BY <1>9, <1>10 DEF s, R

\* Types of the connections, the clients and the workers: the lines of
\* rio_readlineb, without their terminator, have at most maxlen units.
THEOREM Types == Spec => []TypeOK
BY Invariance, TypesFollow, PTL

\* However reads, writes and lines cut the stream, nothing of an answer is lost,
\* repeated or reordered between request_sendfile and client_print (common.c:
\* rio_write, rio_readb, rio_readlineb).
THEOREM Exact == Spec => []StreamExact
<1>1. HInv => StreamExact
  <2> SUFFICES ASSUME HInv, NEW c \in Conns, sv[c].pc \in {"send", "done"}, sock[c].cl = "open"
               PROVE  /\ IsSuffix(InFlight(c), Response(served[c]))
                      /\ cl[c].pc \in {"body", "check"} => recv[c] \o InFlight(c) = served[c]
    BY DEF StreamExact
  <2>1. ConnOK(c, sock[c], cl[c], sv[c], served[c], recv[c]) BY DEF HInv, Conn
  <2>2. InFlight(c) = OnTheWay(sock[c], cl[c], sv[c]) BY DEF InFlight, OnTheWay
  <2>3. /\ IsSuffix(OnTheWay(sock[c], cl[c], sv[c]), Response(served[c]))
        /\ cl[c].pc \in {"body", "check"} => recv[c] \o OnTheWay(sock[c], cl[c], sv[c]) = served[c]
    <3> DEFINE k == sock[c]
               l == cl[c]
               w == sv[c]
               b == served[c]
               v == recv[c]
    <3>1. ConnOK(c, k, l, w, b, v) /\ w.pc \in {"send", "done"} /\ k.cl = "open" BY <2>1
    <3> HIDE DEF k, l, w, b, v
    <3>2. /\ IsSuffix(OnTheWay(k, l, w), Response(b))
          /\ l.pc \in {"body", "check"} => v \o OnTheWay(k, l, w) = b
      BY ONLY <3>1, c \in Conns, ExactConn
    <3> QED BY <3>2 DEF k, l, w, b, v
  <2> QED BY <2>2, <2>3
<1> QED BY <1>1, Invariance, PTL

\* As long as nobody changes a file or kills a client, no GET fails, whatever
\* else is asked for at the same time: the assertions of client_print hold, and
\* no system call ends the server, client.c or another client that sent a GET
\* (client.c, client_simple.c: client_print; common.c: unix_error).
THEOREM Succeeds == Spec => []UndisturbedSucceeds
<1>1. HInv => UndisturbedSucceeds
  <2> SUFFICES ASSUME HInv, ~disturbed
               PROVE  /\ ServerUp /\ ClientUp
                      /\ \A c \in Simple : cl[c].pc = "dead" => cl[c].method # "GET"
    BY DEF UndisturbedSucceeds
  <2>1. ASSUME NEW c \in Conns PROVE sv[c].pc # "dead" /\ (Gets(c, cl[c]) => cl[c].pc # "dead")
    BY <2>1 DEF HInv, Quiet, QuietConn
  <2> QED BY <2>1 DEF ClientUp, ServerUp, Conns, Gets
<1> QED BY <1>1, Invariance, PTL

\* A thread of client.c that goes on to its next request has the whole body of
\* one answer, as long as the file set says, even if the server process ended in
\* the middle of it (client.c: the assertions of client_print).
THEOREM Whole == Spec => []AcceptedIsWhole
<1>1. HInv => AcceptedIsWhole
  <2> SUFFICES ASSUME HInv, NEW c \in Threads, cl[c].pc = "ok"
               PROVE  /\ Len(recv[c]) = Len(Orig[cl[c].file]) /\ Csum(recv[c]) = Csum(Orig[cl[c].file])
                      /\ recv[c] = served[c] \/ recv[c] = <<>>
    BY DEF AcceptedIsWhole
  <2>1. c \in Conns BY DEF Conns
  <2>2. AcceptOK(c, cl[c], served[c], recv[c]) BY <2>1 DEF HInv, Conn, ConnOK
  <2> QED BY <2>2 DEF AcceptOK
<1> QED BY <1>1, Invariance, PTL

=============================================================================
