-------------------------- MODULE LinkedQueuesProofs --------------------------
(***************************************************************************)
(* The linked lists of the thread package and of the file cache are well   *)
(* formed and implement sequences of nodes (Queues), for any number of     *)
(* nodes and of wait queues.                                               *)
(*                                                                         *)
(* An operation is described by what it does to the pair of a memory m and *)
(* the contents q of its lists, and by the nodes that are loose: allocated *)
(* and in no list, as between pop_queue and append_node_to_queue.          *)
(***************************************************************************)
EXTENDS LinkedQueues, QueueLemmas, FiniteSetTheorems

Mems ==
    [next : [Node -> Node \cup {NULL, Freed}], head : [Lists -> Node \cup {NULL}],
     tail : [Lists -> Node \cup {NULL}], size : [Lists -> Nat]]

Contents == [Lists -> Seq(Node)]

\* The list l of the memory m runs through the nodes of s.  The tail of an
\* empty list says nothing.
Chain(m, l, s) ==
    /\ IsInjective(s)
    /\ m.size[l] = Len(s)
    /\ s = <<>> => m.head[l] = NULL
    /\ s # <<>> => m.head[l] = s[1] /\ m.tail[l] = s[Len(s)] /\ m.next[s[Len(s)]] = NULL
    /\ \A i \in 1 .. Len(s) - 1 : m.next[s[i]] = s[i + 1]

\* A node is in one list, or loose, or free.
Apart(m, q, loose) ==
    /\ loose \subseteq Node
    /\ \A k, l \in Lists : k # l => Range(q[k]) \cap Range(q[l]) = {}
    /\ \A l \in Lists : Range(q[l]) \cap loose = {}
    /\ \A n \in loose : m.next[n] = NULL
    /\ \A n \in Node : m.next[n] = Freed <=> n \notin loose /\ \A l \in Lists : n \notin Range(q[l])

\* The lists of m hold q.
Holds(m, q, loose) ==
    /\ m \in Mems /\ q \in Contents
    /\ \A l \in Lists : Chain(m, l, q[l])
    /\ Apart(m, q, loose)

-----------------------------------------------------------------------------
(* Lists. *)

\* The nodes of a list are allocated.
LEMMA Linked ==
    ASSUME NEW m \in Mems, NEW l \in Lists, NEW s \in Seq(Node), Chain(m, l, s)
    PROVE  /\ DOMAIN s = 1 .. Len(s) /\ Len(s) \in Nat
           /\ \A i \in 1 .. Len(s) : s[i] \in Node /\ s[i] \in Range(s)
           /\ \A n \in Range(s) : n \in Node /\ m.next[n] # Freed
<1>1. DOMAIN s = 1 .. Len(s) /\ Len(s) \in Nat /\ \A i \in 1 .. Len(s) : s[i] \in Node OBVIOUS
<1>2. \A i \in 1 .. Len(s) : s[i] \in Range(s) BY <1>1 DEF Range
<1>3. ASSUME NEW n \in Range(s) PROVE n \in Node /\ m.next[n] # Freed
  <2>1. PICK i \in 1 .. Len(s) : n = s[i] BY <1>1 DEF Range
  <2>2. CASE i = Len(s)
    <3>1. s # <<>> BY <1>1, <2>1
    <3>2. m.next[n] = NULL BY <2>1, <2>2, <3>1 DEF Chain
    <3> QED BY <1>1, <2>1, <3>2, LinkedQueuesAssumption
  <2>3. CASE i # Len(s)
    <3>0. Len(s) \in Nat /\ i \in 1 .. Len(s) BY <1>1, <2>1
    <3>1. i \in 1 .. Len(s) - 1 /\ i + 1 \in 1 .. Len(s) BY ONLY <2>3, <3>0
    <3>2. m.next[n] = s[i + 1] /\ s[i + 1] \in Node BY <1>1, <2>1, <3>1 DEF Chain
    <3> QED BY <1>1, <2>1, <3>2, LinkedQueuesAssumption
  <2> QED BY <2>2, <2>3
<1> QED BY <1>1, <1>2, <1>3

\* A list is not longer than there are nodes.
LEMMA LengthBound ==
    ASSUME NEW s \in Seq(Node), IsInjective(s)
    PROVE  Len(s) <= Cardinality(Node) /\ Cardinality(Node) \in Nat
<1>1. IsFiniteSet(Node) /\ Cardinality(Node) \in Nat BY LinkedQueuesAssumption, FS_CardinalityType
<1>2. s \in [1 .. Len(s) -> Node] /\ Len(s) \in Nat OBVIOUS
<1>3. s \in Injection(1 .. Len(s), Node) BY <1>2 DEF Injection, IsInjective
<1>4. Cardinality(1 .. Len(s)) <= Cardinality(Node) BY <1>1, <1>3, FS_Injection
<1>5. Cardinality(1 .. Len(s)) = Len(s)
  <2>1. 1 \in Int /\ Len(s) \in Int BY <1>2
  <2>2. Cardinality(1 .. Len(s)) = IF 1 > Len(s) THEN 0 ELSE Len(s) - 1 + 1 BY <2>1, FS_Interval
  <2> QED BY <1>2, <2>2
<1> QED BY <1>1, <1>4, <1>5

\* What NodeAt computes.
LEMMA NodeAtSteps ==
    ASSUME NEW m \in Mems, NEW l \in Lists
    PROVE  /\ DOMAIN NodeAt(m, l) = 0 .. Cardinality(Node)
           /\ NodeAt(m, l)[0] = m.head[l]
           /\ \A i \in 1 .. Cardinality(Node) :
                NodeAt(m, l)[i] = IF NodeAt(m, l)[i - 1] \in Node THEN m.next[NodeAt(m, l)[i - 1]]
                                  ELSE NULL
<1> DEFINE C == Cardinality(Node)
           X == Node \cup {NULL, Freed}
           nx == m.next
           h == m.head[l]
           go(p) == IF p \in Node THEN nx[p] ELSE NULL
           st == [i \in 1 .. C |-> [p \in X |-> go(p)]]
           val(f, i) == IF i = 0 THEN h ELSE go(f[i - 1])
           body(f) == [i \in 0 .. C |-> val(f, i)]
           k == NodeAt(m, l)
<1>1. C \in Nat BY LinkedQueuesAssumption, FS_CardinalityType
<1>2. nx \in [Node -> X] /\ h \in X BY DEF Mems
<1>3. k = CHOOSE g : g = body(g) BY DEF NodeAt
<1> HIDE DEF C, nx, h, k
<1>4. \A p \in X : go(p) \in X BY <1>2
<1>5. st \in [1 .. C -> [X -> X]] BY <1>4
<1>6. \A i \in 1 .. C : \A p \in X : st[i][p] = go(p) OBVIOUS
<1> HIDE DEF st, X
<1>7. PICK f \in [0 .. C -> X] : f[0] = h /\ \A i \in 1 .. C : f[i] = st[i][f[i - 1]]
  <2>1. HasSteps(X, h, C, st) BY <1>1, <1>2, <1>5, StepsExist
  <2> QED BY <2>1 DEF HasSteps
<1> HIDE DEF go
<1>8. f = body(f)
  <2>1. \A i \in 1 .. C : i - 1 \in 0 .. C /\ f[i - 1] \in X BY <1>1
  <2>2. \A i \in 1 .. C : f[i] = go(f[i - 1]) BY <1>6, <1>7, <2>1
  <2>3. \A i \in 0 .. C : i = 0 \/ i \in 1 .. C BY <1>1
  <2>4. \A i \in 0 .. C : f[i] = val(f, i) BY <1>7, <2>2, <2>3
  <2>5. f = [i \in 0 .. C |-> f[i]] OBVIOUS
  <2> HIDE DEF val
  <2> QED BY <2>4, <2>5, Zenon
<1>9. k = body(k)
  <2> HIDE DEF body
  <2> QED BY <1>3, <1>8
<1>10. (\A i \in 0 .. C : k[i] = val(k, i)) /\ DOMAIN k = 0 .. C
  <2> HIDE DEF val
  <2> QED BY <1>9, Zenon
<1>11. k[0] = h BY <1>1, <1>10
<1>12. \A i \in 1 .. C : k[i] = go(k[i - 1])
  <2>1. \A i \in 1 .. C : i \in 0 .. C /\ i # 0 BY <1>1
  <2> QED BY <1>10, <2>1, Zenon
<1> QED BY <1>10, <1>11, <1>12 DEF C, h, k, go, nx

\* Going from node to node one meets the nodes of the list.
LEMMA WalkIs ==
    ASSUME NEW m \in Mems, NEW l \in Lists, NEW s \in Seq(Node), Chain(m, l, s)
    PROVE  Walk(m, l) = s
<1> DEFINE C == Cardinality(Node)
           L == Len(s)
           at == NodeAt(m, l)
           T == {i \in 0 .. C : at[i] = IF i < L THEN s[i + 1] ELSE NULL}
<1>1. L <= C /\ C \in Nat BY LengthBound DEF Chain
<1>2. /\ DOMAIN at = 0 .. C /\ at[0] = m.head[l]
      /\ \A i \in 1 .. C : at[i] = IF at[i - 1] \in Node THEN m.next[at[i - 1]] ELSE NULL
  BY NodeAtSteps
<1>3. L \in Nat /\ (L = 0 <=> s = <<>>) /\ \A i \in 1 .. L : s[i] \in Node OBVIOUS
<1>4. NULL \notin Node BY LinkedQueuesAssumption
<1> HIDE DEF C, at
<1>5. 0 \in T
  <2>1. CASE L = 0 BY <1>1, <1>2, <1>3, <2>1 DEF Chain
  <2>2. CASE L # 0
    <3>1. m.head[l] = s[1] BY <1>3, <2>2 DEF Chain
    <3> QED BY <1>1, <1>2, <1>3, <2>2, <3>1
  <2> QED BY <2>1, <2>2
<1>6. ASSUME NEW i \in 1 .. C, i - 1 \in T PROVE i \in T
  <2>1. at[i] = IF at[i - 1] \in Node THEN m.next[at[i - 1]] ELSE NULL BY <1>2
  <2>2. at[i - 1] = IF i - 1 < L THEN s[(i - 1) + 1] ELSE NULL BY <1>6
  <2>3. i \in 0 .. C /\ (i - 1) + 1 = i BY <1>1
  <2>4. CASE i < L
    <3>1. at[i - 1] = s[i] /\ i \in 1 .. L - 1 /\ i \in 1 .. L BY <1>1, <1>3, <2>2, <2>3, <2>4
    <3>2. m.next[s[i]] = s[i + 1] BY <3>1 DEF Chain
    <3> QED BY <1>3, <2>1, <2>3, <2>4, <3>1, <3>2
  <2>5. CASE i = L
    <3>1. at[i - 1] = s[L] /\ L \in 1 .. L /\ s # <<>> BY <1>1, <1>3, <2>2, <2>3, <2>5
    <3>2. m.next[s[L]] = NULL BY <3>1 DEF Chain
    <3> QED BY <1>3, <2>1, <2>3, <2>5, <3>1, <3>2
  <2>6. CASE i > L
    <3>1. at[i - 1] = NULL BY <1>1, <1>3, <2>2, <2>6
    <3> QED BY <1>3, <1>4, <2>1, <2>3, <2>6, <3>1
  <2> QED BY <1>1, <1>3, <2>4, <2>5, <2>6
<1>7. \A i \in 0 .. C : i \in T
  <2> HIDE DEF T
  <2> QED BY <1>1, <1>5, <1>6, UpTo
<1>8. {j \in 0 .. C : at[j] # NULL} = 0 .. L - 1
  <2>1. ASSUME NEW j \in 0 .. C, at[j] # NULL PROVE j \in 0 .. L - 1 BY <1>1, <1>3, <1>7, <2>1
  <2>2. ASSUME NEW j \in 0 .. L - 1 PROVE j \in 0 .. C /\ at[j] # NULL
    <3>1. j \in 0 .. C /\ j < L /\ j + 1 \in 1 .. L BY <1>1, <1>3
    <3> QED BY <1>3, <1>4, <1>7, <3>1
  <2> QED BY <2>1, <2>2
<1>9. Cardinality(0 .. L - 1) = L
  <2>1. 0 \in Int /\ L - 1 \in Int BY <1>3
  <2>2. Cardinality(0 .. L - 1) = IF 0 > L - 1 THEN 0 ELSE (L - 1) - 0 + 1 BY <2>1, FS_Interval
  <2> QED BY <1>3, <2>2
<1>10. Walk(m, l) = [i \in 1 .. L |-> at[i - 1]] BY <1>2, <1>8, <1>9 DEF Walk, at
<1>11. \A i \in 1 .. L : at[i - 1] = s[i]
  <2>1. ASSUME NEW i \in 1 .. L PROVE at[i - 1] = s[i]
    <3>1. i - 1 \in 0 .. C /\ i - 1 < L /\ (i - 1) + 1 = i BY <1>1, <1>3
    <3> QED BY <1>7, <3>1
  <2> QED BY <2>1
<1>12. s = [i \in 1 .. L |-> s[i]] OBVIOUS
<1> HIDE DEF L
<1> QED BY <1>10, <1>11, <1>12, Zenon

\* A memory decides what its lists hold.
LEMMA WalkHolds ==
    ASSUME NEW m, NEW q, NEW loose, Holds(m, q, loose)
    PROVE  q = [l \in Lists |-> Walk(m, l)]
<1>1. m \in Mems /\ q \in Contents /\ \A l \in Lists : Chain(m, l, q[l]) BY DEF Holds
<1>2. q = [l \in Lists |-> q[l]] /\ \A l \in Lists : q[l] \in Seq(Node) BY <1>1 DEF Contents
<1>3. \A l \in Lists : Walk(m, l) = q[l] BY <1>1, <1>2, WalkIs
<1> QED BY <1>2, <1>3, Zenon

\* One list is changed: its nodes and the loose ones stay in it, get loose or
\* are freed, and no other node is touched.
LEMMA OneList ==
    ASSUME NEW m, NEW q, NEW loose, Holds(m, q, loose), NEW l \in Lists, NEW s \in Seq(Node),
           NEW m2 \in Mems, NEW loose2, Chain(m2, l, s),
           \A k \in Lists : k # l => /\ m2.head[k] = m.head[k] /\ m2.tail[k] = m.tail[k]
                                     /\ m2.size[k] = m.size[k],
           \A n \in Node : n \notin Range(q[l]) \cup loose => m2.next[n] = m.next[n],
           Range(s) \cup loose2 \subseteq Range(q[l]) \cup loose,
           Range(s) \cap loose2 = {},
           \A n \in loose2 : m2.next[n] = NULL,
           \A n \in (Range(q[l]) \cup loose) \ (Range(s) \cup loose2) : m2.next[n] = Freed
    PROVE  Holds(m2, [q EXCEPT ![l] = s], loose2)
<1> DEFINE q2 == [q EXCEPT ![l] = s]
<1>1. m \in Mems /\ q \in Contents /\ (\A k \in Lists : Chain(m, k, q[k])) /\ Apart(m, q, loose)
  BY DEF Holds
<1>2. q2 \in Contents /\ q2[l] = s /\ \A k \in Lists : k # l => q2[k] = q[k] BY <1>1 DEF Contents
<1>3. \A k \in Lists : q[k] \in Seq(Node) BY <1>1 DEF Contents
<1> HIDE DEF q2
<1>4. /\ loose \subseteq Node
      /\ \A k, j \in Lists : k # j => Range(q[k]) \cap Range(q[j]) = {}
      /\ \A k \in Lists : Range(q[k]) \cap loose = {}
      /\ \A n \in loose : m.next[n] = NULL
      /\ \A n \in Node : m.next[n] = Freed
                           <=> n \notin loose /\ \A k \in Lists : n \notin Range(q[k])
  BY <1>1 DEF Apart
<1>5. ASSUME NEW k \in Lists PROVE Chain(m2, k, q2[k])
  <2>1. CASE k = l BY <1>2, <2>1
  <2>2. CASE k # l
    <3> DEFINE t == q[k]
    <3>1. q2[k] = t /\ t \in Seq(Node) /\ Chain(m, k, t) BY <1>1, <1>2, <1>3, <2>2
    <3>2. \A i \in 1 .. Len(t) : t[i] \in Range(t) /\ t[i] \in Node BY <1>1, <3>1, Linked
    <3>3. Range(t) \cap (Range(q[l]) \cup loose) = {} BY <1>4, <2>2
    <3>4. \A i \in 1 .. Len(t) : m2.next[t[i]] = m.next[t[i]] BY <3>2, <3>3
    <3>5. m2.head[k] = m.head[k] /\ m2.tail[k] = m.tail[k] /\ m2.size[k] = m.size[k] BY <2>2
    <3> HIDE DEF t
    <3>6. Len(t) \in Nat /\ (t # <<>> => Len(t) \in 1 .. Len(t)) /\ 1 .. Len(t) - 1 \subseteq 1 .. Len(t)
      BY <3>1
    <3>7. Chain(m2, k, t) BY <3>1, <3>4, <3>5, <3>6 DEF Chain
    <3> QED BY <3>1, <3>7
  <2> QED BY <2>1, <2>2
<1>6. /\ loose2 \subseteq Node /\ Range(s) \subseteq Node
      /\ \A n \in Range(s) : m2.next[n] # Freed
  <2>1. Range(q[l]) \subseteq Node BY <1>3, QueueMembers
  <2> QED BY <1>4, <2>1, Linked
<1>7. \A k, j \in Lists : k # j => Range(q2[k]) \cap Range(q2[j]) = {}
  <2>1. ASSUME NEW k \in Lists, k # l PROVE Range(q[k]) \cap Range(s) = {} BY <1>4, <2>1
  <2> QED BY <1>2, <1>4, <2>1
<1>8. \A k \in Lists : Range(q2[k]) \cap loose2 = {}
  <2>1. ASSUME NEW k \in Lists, k # l PROVE Range(q[k]) \cap loose2 = {} BY <1>4, <2>1
  <2> QED BY <1>2, <2>1
<1>9. ASSUME NEW n \in Node
      PROVE  m2.next[n] = Freed <=> n \notin loose2 /\ \A k \in Lists : n \notin Range(q2[k])
  <2>1. CASE n \in Range(s) BY <1>2, <1>6, <2>1
  <2>2. CASE n \in loose2 BY <2>2, LinkedQueuesAssumption
  <2>3. CASE n \in (Range(q[l]) \cup loose) \ (Range(s) \cup loose2)
    <3>1. \A k \in Lists : k # l => n \notin Range(q[k]) BY <1>4, <2>3
    <3> QED BY <1>2, <2>3, <3>1
  <2>4. CASE n \notin Range(q[l]) \cup loose
    <3>1. m2.next[n] = m.next[n] /\ n \notin loose2 /\ n \notin Range(s) BY <2>4
    <3>2. (\A k \in Lists : n \notin Range(q2[k])) <=> (\A k \in Lists : n \notin Range(q[k]))
      BY <1>2, <2>4, <3>1
    <3> QED BY <1>4, <2>4, <3>1, <3>2
  <2> QED BY <2>1, <2>2, <2>3, <2>4
<1>10. Apart(m2, q2, loose2) BY <1>6, <1>7, <1>8, <1>9 DEF Apart
<1> QED BY <1>2, <1>5, <1>10 DEF Holds, q2

-----------------------------------------------------------------------------
(* The operations. *)

\* What is known of one list.
LEMMA ListOf ==
    ASSUME NEW m, NEW q, NEW loose, Holds(m, q, loose), NEW l \in Lists
    PROVE  /\ q[l] \in Seq(Node) /\ Len(q[l]) \in Nat /\ m \in Mems /\ Chain(m, l, q[l])
           /\ DOMAIN q[l] = 1 .. Len(q[l]) /\ IsInjective(q[l])
           /\ \A i \in 1 .. Len(q[l]) : q[l][i] \in Node /\ q[l][i] \in Range(q[l])
           /\ Range(q[l]) \subseteq Node
           /\ m.size[l] = Len(q[l])
           /\ q[l] # <<>> <=> m.head[l] # NULL
           /\ q[l] # <<>> => /\ m.head[l] = q[l][1] /\ m.tail[l] = q[l][Len(q[l])]
                             /\ m.next[q[l][Len(q[l])]] = NULL
           /\ \A i \in 1 .. Len(q[l]) - 1 : m.next[q[l][i]] = q[l][i + 1]
<1> DEFINE s == q[l]
<1>1. s \in Seq(Node) /\ m \in Mems /\ Chain(m, l, s) BY DEF Holds, Contents
<1> HIDE DEF s
<1>2. /\ DOMAIN s = 1 .. Len(s) /\ Len(s) \in Nat
      /\ \A i \in 1 .. Len(s) : s[i] \in Node /\ s[i] \in Range(s)
      /\ Range(s) \subseteq Node
  BY <1>1, Linked
<1>3. /\ IsInjective(s) /\ m.size[l] = Len(s)
      /\ s = <<>> => m.head[l] = NULL
      /\ s # <<>> => m.head[l] = s[1] /\ m.tail[l] = s[Len(s)] /\ m.next[s[Len(s)]] = NULL
      /\ \A i \in 1 .. Len(s) - 1 : m.next[s[i]] = s[i + 1]
  BY <1>1 DEF Chain
<1>4. s # <<>> => s[1] # NULL
  <2>1. s # <<>> => 1 \in 1 .. Len(s) BY <1>1
  <2> QED BY <1>2, <2>1, LinkedQueuesAssumption
<1> QED BY <1>1, <1>2, <1>3, <1>4 DEF s

\* Two positions of a list with the same node are one.
LEMMA SamePlace ==
    ASSUME NEW s \in Seq(Node), IsInjective(s), NEW i \in 1 .. Len(s), NEW j \in 1 .. Len(s),
           s[i] = s[j]
    PROVE  i = j
  BY DEF IsInjective

\* pop_queue: the head gets loose.
LEMMA PopHolds ==
    ASSUME NEW m, NEW q, Holds(m, q, {}), NEW l \in Lists, q[l] # <<>>
    PROVE  /\ Holds(pop_queue(m, l), [q EXCEPT ![l] = Tail(q[l])], {q[l][1]})
           /\ m.head[l] = q[l][1]
<1> DEFINE s == q[l]
           t == Tail(s)
           m2 == pop_queue(m, l)
           h == s[1]
<1>1. /\ s \in Seq(Node) /\ Len(s) \in Nat /\ m \in Mems /\ DOMAIN s = 1 .. Len(s)
      /\ IsInjective(s) /\ (\A i \in 1 .. Len(s) : s[i] \in Node /\ s[i] \in Range(s))
      /\ Range(s) \subseteq Node
      /\ m.size[l] = Len(s)
      /\ m.head[l] = h /\ m.tail[l] = s[Len(s)] /\ m.next[s[Len(s)]] = NULL
      /\ \A i \in 1 .. Len(s) - 1 : m.next[s[i]] = s[i + 1]
  BY ListOf
<1>2. s # <<>> OBVIOUS
<1> HIDE DEF s
<1>3. Len(s) # 0 BY <1>1, <1>2
<1>4. /\ t \in Seq(Node) /\ Len(t) = Len(s) - 1 /\ (\A i \in 1 .. Len(t) : t[i] = s[i + 1])
      /\ (t = <<>> <=> Len(s) = 1)
  <2>1. t \in Seq(Node) /\ Len(t) = Len(s) - 1 /\ \A i \in 1 .. Len(t) : t[i] = s[i + 1]
    BY <1>1, <1>2
  <2>2. t = <<>> <=> Len(t) = 0
    <3> HIDE DEF t
    <3> QED BY <2>1
  <2> QED BY <1>1, <2>1, <2>2
<1>5. Range(t) = Range(s) \ {Head(s)} /\ IsInjective(t) /\ Head(s) = h BY <1>1, <1>2, TailQueue
<1>6. 1 \in 1 .. Len(s) /\ Len(s) \in 1 .. Len(s) BY <1>1, <1>3
<1>7. h \in Node /\ h \in Range(s) BY <1>1, <1>6
<1> HIDE DEF t, h
<1>8. /\ m.next \in [Node -> Node \cup {NULL, Freed}] /\ m.head \in [Lists -> Node \cup {NULL}]
      /\ m.tail \in [Lists -> Node \cup {NULL}] /\ m.size \in [Lists -> Nat]
  BY <1>1 DEF Mems
<1>9. /\ m2.head = [m.head EXCEPT ![l] = m.next[h]] /\ m2.tail = m.tail
      /\ m2.next = [m.next EXCEPT ![h] = NULL] /\ m2.size = [m.size EXCEPT ![l] = Len(s) - 1]
      /\ m2 = [next |-> m2.next, head |-> m2.head, tail |-> m2.tail, size |-> m2.size]
  <2>1. m = [next |-> m.next, head |-> m.head, tail |-> m.tail, size |-> m.size] BY <1>1 DEF Mems
  <2>2. m2 = [m EXCEPT !.head[l] = m.next[h], !.next[h] = NULL, !.size[l] = Len(s) - 1]
    BY <1>1, <2>1 DEF pop_queue
  <2> HIDE DEF m2
  <2> QED BY <2>1, <2>2
<1>10. m.next[h] = IF Len(s) = 1 THEN NULL ELSE t[1]
  <2>1. CASE Len(s) = 1 BY <1>1, <2>1 DEF h
  <2>2. CASE Len(s) # 1
    <3>1. 1 \in 1 .. Len(s) - 1 /\ 1 \in 1 .. Len(t) BY <1>1, <1>3, <1>4, <2>2
    <3> QED BY <1>1, <1>4, <2>2, <3>1 DEF h
  <2> QED BY <2>1, <2>2
<1>11. m.next[h] \in Node \cup {NULL}
  <2>1. Len(s) # 1 => 2 \in 1 .. Len(s) /\ t[1] = s[2] BY <1>1, <1>3, <1>4
  <2> QED BY <1>1, <1>10, <2>1
<1>12. m2 \in Mems
  <2>1. m2.next \in [Node -> Node \cup {NULL, Freed}] BY <1>8, <1>9
  <2>2. m2.head \in [Lists -> Node \cup {NULL}] BY <1>8, <1>9, <1>11
  <2>3. m2.size \in [Lists -> Nat]
    <3>1. Len(s) - 1 \in Nat BY <1>1, <1>3
    <3> QED BY <1>8, <1>9, <3>1
  <2> QED BY <1>8, <1>9, <2>1, <2>2, <2>3 DEF Mems
<1> HIDE DEF m2
<1>13. Chain(m2, l, t)
  <2>1. m2.size[l] = Len(t) /\ m2.head[l] = m.next[h] BY <1>4, <1>8, <1>9
  <2>2. ASSUME NEW i \in 1 .. Len(t)
        PROVE  /\ t[i] = s[i + 1] /\ t[i] \in Node /\ i + 1 \in 1 .. Len(s) /\ m2.next[t[i]] = m.next[t[i]]
    <3>1. i + 1 \in 1 .. Len(s) /\ i + 1 # 1 BY <1>1, <1>4
    <3>2. t[i] = s[i + 1] /\ s[i + 1] \in Node BY <1>1, <1>4, <3>1
    <3>3. t[i] # h BY <1>1, <1>6, <3>1, <3>2, SamePlace DEF h
    <3> QED BY <1>8, <1>9, <3>1, <3>2, <3>3
  <2>3. ASSUME NEW i \in 1 .. Len(t) - 1 PROVE m2.next[t[i]] = t[i + 1]
    <3>1. /\ i \in 1 .. Len(t) /\ i + 1 \in 1 .. Len(t) /\ i + 1 \in 1 .. Len(s) - 1
      BY <1>1, <1>4
    <3> QED BY <1>1, <2>2, <3>1
  <2>4. ASSUME t # <<>> PROVE /\ m2.head[l] = t[1] /\ m2.tail[l] = t[Len(t)]
                              /\ m2.next[t[Len(t)]] = NULL
    <3>1. Len(t) \in 1 .. Len(t) /\ Len(t) + 1 = Len(s) /\ Len(s) # 1 BY <1>1, <1>3, <1>4, <2>4
    <3>2. t[Len(t)] = s[Len(s)] /\ m2.next[t[Len(t)]] = m.next[t[Len(t)]] BY <2>2, <3>1
    <3> QED BY <1>1, <1>9, <1>10, <2>1, <3>1, <3>2
  <2>5. t = <<>> => m2.head[l] = NULL BY <1>4, <1>10, <2>1
  <2> QED BY <1>5, <2>1, <2>3, <2>4, <2>5 DEF Chain
<1>14. \A k \in Lists : k # l => m2.head[k] = m.head[k] /\ m2.tail[k] = m.tail[k] /\ m2.size[k] = m.size[k]
  BY <1>8, <1>9
<1>15. \A n \in Node : n \notin Range(s) \cup {} => m2.next[n] = m.next[n] BY <1>7, <1>8, <1>9
<1>16. Range(t) \cup {h} = Range(s) \cup {} /\ Range(t) \cap {h} = {} BY <1>5, <1>7
<1>17. \A n \in {h} : m2.next[n] = NULL BY <1>7, <1>8, <1>9
<1>18. \A n \in (Range(s) \cup {}) \ (Range(t) \cup {h}) : m2.next[n] = Freed BY <1>16
<1>19. Holds(m2, [q EXCEPT ![l] = t], {h})
  BY <1>4, <1>12, <1>13, <1>14, <1>15, <1>16, <1>17, <1>18, OneList, ZenonT(30) DEF s
<1> QED BY <1>1, <1>19 DEF s, t, h, m2

\* append_node_to_queue of a loose node.
LEMMA AppendHolds ==
    ASSUME NEW m, NEW q, NEW n0 \in Node, Holds(m, q, {n0}), NEW l \in Lists
    PROVE  Holds(append_node_to_queue(m, l, n0), [q EXCEPT ![l] = Append(q[l], n0)], {})
<1> DEFINE s == q[l]
           t == Append(s, n0)
           m2 == append_node_to_queue(m, l, n0)
           z == s[Len(s)]
<1>1. /\ s \in Seq(Node) /\ Len(s) \in Nat /\ m \in Mems /\ DOMAIN s = 1 .. Len(s)
      /\ IsInjective(s) /\ (\A i \in 1 .. Len(s) : s[i] \in Node /\ s[i] \in Range(s))
      /\ Range(s) \subseteq Node
      /\ m.size[l] = Len(s) /\ (s # <<>> <=> m.head[l] # NULL)
      /\ (s # <<>> => m.head[l] = s[1] /\ m.tail[l] = z /\ m.next[z] = NULL)
      /\ \A i \in 1 .. Len(s) - 1 : m.next[s[i]] = s[i + 1]
  BY ListOf
<1>2. n0 \notin Range(s) /\ m.next[n0] = NULL BY DEF Holds, Apart
<1> HIDE DEF s
<1>3. /\ t \in Seq(Node) /\ Len(t) = Len(s) + 1 /\ (\A i \in 1 .. Len(s) : t[i] = s[i])
      /\ t[Len(s) + 1] = n0 /\ t # <<>>
  <2>1. /\ t \in Seq(Node) /\ Len(t) = Len(s) + 1 /\ (\A i \in 1 .. Len(s) : t[i] = s[i])
        /\ t[Len(s) + 1] = n0
    BY <1>1
  <2> QED BY <1>1, <2>1, AppendQueue
<1>4. Range(t) = Range(s) \cup {n0} /\ IsInjective(t) BY <1>1, <1>2, AppendQueue
<1>5. s # <<>> => Len(s) \in 1 .. Len(s) /\ 1 \in 1 .. Len(s) BY <1>1
<1>6. s # <<>> => z \in Node /\ z \in Range(s) /\ z # n0 BY <1>1, <1>2, <1>5
<1> HIDE DEF t, z
<1>7. /\ m.next \in [Node -> Node \cup {NULL, Freed}] /\ m.head \in [Lists -> Node \cup {NULL}]
      /\ m.tail \in [Lists -> Node \cup {NULL}] /\ m.size \in [Lists -> Nat]
  BY <1>1 DEF Mems
<1>8. /\ m2.tail = [m.tail EXCEPT ![l] = n0] /\ m2.size = [m.size EXCEPT ![l] = Len(s) + 1]
      /\ m2 = [next |-> m2.next, head |-> m2.head, tail |-> m2.tail, size |-> m2.size]
      /\ s = <<>> => m2.head = [m.head EXCEPT ![l] = n0] /\ m2.next = m.next
      /\ s # <<>> => m2.head = m.head /\ m2.next = [m.next EXCEPT ![z] = n0]
  BY <1>1 DEF append_node_to_queue, Mems
<1>9. m2 \in Mems
  <2>1. m2.next \in [Node -> Node \cup {NULL, Freed}] BY <1>6, <1>7, <1>8
  <2>2. m2.head \in [Lists -> Node \cup {NULL}] BY <1>7, <1>8
  <2>3. m2.tail \in [Lists -> Node \cup {NULL}] BY <1>7, <1>8
  <2>4. m2.size \in [Lists -> Nat]
    <3>1. Len(s) + 1 \in Nat BY <1>1
    <3> QED BY <1>7, <1>8, <3>1
  <2> QED BY <1>8, <2>1, <2>2, <2>3, <2>4 DEF Mems
<1> HIDE DEF m2
<1>10. \A n \in Node : n # z => m2.next[n] = m.next[n] BY <1>7, <1>8
<1>11. Chain(m2, l, t)
  <2>1. m2.size[l] = Len(t) /\ m2.tail[l] = t[Len(t)] BY <1>3, <1>7, <1>8
  <2>2. m2.head[l] = t[1]
    <3>1. CASE s = <<>> BY <1>1, <1>3, <1>7, <1>8, <3>1
    <3>2. CASE s # <<>> BY <1>1, <1>3, <1>5, <1>7, <1>8, <3>2
    <3> QED BY <3>1, <3>2
  <2>3. m2.next[t[Len(t)]] = NULL BY <1>2, <1>3, <1>6, <1>8, <1>10
  <2>4. ASSUME NEW i \in 1 .. Len(t) - 1 PROVE m2.next[t[i]] = t[i + 1]
    <3>1. i \in 1 .. Len(s) /\ t[i] = s[i] /\ s # <<>> BY <1>1, <1>3
    <3>2. CASE i = Len(s) BY <1>3, <1>6, <1>7, <1>8, <3>1, <3>2 DEF z
    <3>3. CASE i # Len(s)
      <4>1. Len(s) \in Nat /\ i \in 1 .. Len(s) BY <1>1, <3>1
      <4>2. i \in 1 .. Len(s) - 1 /\ i + 1 \in 1 .. Len(s) BY ONLY <3>3, <4>1
      <4>3. s[i] # z BY <1>1, <1>5, <3>1, <3>3, SamePlace DEF z
      <4> QED BY <1>1, <1>3, <1>10, <3>1, <4>2, <4>3
    <3> QED BY <3>2, <3>3
  <2> QED BY <1>3, <1>4, <2>1, <2>2, <2>3, <2>4 DEF Chain
<1>12. \A k \in Lists : k # l => m2.head[k] = m.head[k] /\ m2.tail[k] = m.tail[k] /\ m2.size[k] = m.size[k]
  BY <1>7, <1>8
<1>13. \A n \in Node : n \notin Range(s) \cup {n0} => m2.next[n] = m.next[n]
  <2>1. CASE s = <<>> BY <1>8, <2>1
  <2>2. CASE s # <<>> BY <1>6, <1>10, <2>2
  <2> QED BY <2>1, <2>2
<1>14. Range(t) \cup {} = Range(s) \cup {n0} /\ Range(t) \cap {} = {} BY <1>4
<1>15. (Range(s) \cup {n0}) \ (Range(t) \cup {}) = {} BY <1>4
<1>16. Holds(m2, [q EXCEPT ![l] = t], {})
  <2> DEFINE old == {n0}
             none == {}
  <2>1. Holds(m, q, old) /\ \A n \in Node : n \notin Range(q[l]) \cup old => m2.next[n] = m.next[n]
    BY <1>13 DEF s
  <2>2. /\ Range(t) \cup none \subseteq Range(q[l]) \cup old /\ Range(t) \cap none = {}
        /\ \A n \in none : m2.next[n] = NULL
        /\ \A n \in (Range(q[l]) \cup old) \ (Range(t) \cup none) : m2.next[n] = Freed
    BY <1>14, <1>15 DEF s
  <2> HIDE DEF old, none
  <2>3. Holds(m2, [q EXCEPT ![l] = t], none)
    BY ONLY <1>3, <1>9, <1>11, <1>12, <2>1, <2>2, OneList, l \in Lists
  <2> QED BY <2>3 DEF none
<1> QED BY <1>16 DEF s, t, m2

\* malloc: a free node gets loose.
LEMMA AllocHolds ==
    ASSUME NEW m, NEW q, Holds(m, q, {}), NEW n0 \in Node, m.next[n0] = Freed
    PROVE  Holds([m EXCEPT !.next[n0] = NULL], q, {n0})
<1> DEFINE m2 == [m EXCEPT !.next[n0] = NULL]
<1>1. m \in Mems /\ q \in Contents /\ (\A l \in Lists : Chain(m, l, q[l])) /\ Apart(m, q, {})
  BY DEF Holds
<1>2. /\ m2.head = m.head /\ m2.tail = m.tail /\ m2.size = m.size
      /\ m2.next = [m.next EXCEPT ![n0] = NULL] /\ m2 \in Mems
  BY <1>1 DEF Mems
<1>3. m.next \in [Node -> Node \cup {NULL, Freed}] BY <1>1 DEF Mems
<1> HIDE DEF m2
<1>4. m2.next[n0] = NULL /\ \A n \in Node : n # n0 => m2.next[n] = m.next[n] BY <1>2, <1>3
<1>5. \A l \in Lists : n0 \notin Range(q[l]) BY <1>1 DEF Apart
<1>6. ASSUME NEW l \in Lists PROVE Chain(m2, l, q[l])
  <2> DEFINE s == q[l]
  <2>1. s \in Seq(Node) /\ Len(s) \in Nat /\ Chain(m, l, s) BY ListOf
  <2>2. \A i \in 1 .. Len(s) : m2.next[s[i]] = m.next[s[i]] BY <1>4, <1>5, ListOf
  <2> HIDE DEF s
  <2>3. (s # <<>> => Len(s) \in 1 .. Len(s)) /\ 1 .. Len(s) - 1 \subseteq 1 .. Len(s) BY <2>1
  <2>4. Chain(m2, l, s) BY <1>2, <2>1, <2>2, <2>3 DEF Chain
  <2> QED BY <2>4 DEF s
<1>7. Apart(m2, q, {n0}) BY <1>1, <1>4, <1>5, LinkedQueuesAssumption DEF Apart
<1> QED BY <1>1, <1>2, <1>6, <1>7 DEF Holds, m2

\* free: a loose node is free.
LEMMA FreeHolds ==
    ASSUME NEW m, NEW q, NEW n0 \in Node, Holds(m, q, {n0})
    PROVE  Holds([m EXCEPT !.next[n0] = Freed], q, {})
<1> DEFINE m2 == [m EXCEPT !.next[n0] = Freed]
<1>1. m \in Mems /\ q \in Contents /\ (\A l \in Lists : Chain(m, l, q[l])) /\ Apart(m, q, {n0})
  BY DEF Holds
<1>2. /\ m2.head = m.head /\ m2.tail = m.tail /\ m2.size = m.size
      /\ m2.next = [m.next EXCEPT ![n0] = Freed] /\ m2 \in Mems
  BY <1>1 DEF Mems
<1>3. m.next \in [Node -> Node \cup {NULL, Freed}] BY <1>1 DEF Mems
<1> HIDE DEF m2
<1>4. m2.next[n0] = Freed /\ \A n \in Node : n # n0 => m2.next[n] = m.next[n] BY <1>2, <1>3
<1>5. \A l \in Lists : n0 \notin Range(q[l]) BY <1>1 DEF Apart
<1>6. ASSUME NEW l \in Lists PROVE Chain(m2, l, q[l])
  <2> DEFINE s == q[l]
  <2>1. s \in Seq(Node) /\ Len(s) \in Nat /\ Chain(m, l, s) BY ListOf
  <2>2. \A i \in 1 .. Len(s) : m2.next[s[i]] = m.next[s[i]] BY <1>4, <1>5, ListOf
  <2> HIDE DEF s
  <2>3. (s # <<>> => Len(s) \in 1 .. Len(s)) /\ 1 .. Len(s) - 1 \subseteq 1 .. Len(s) BY <2>1
  <2>4. Chain(m2, l, s) BY <1>2, <2>1, <2>2, <2>3 DEF Chain
  <2> QED BY <2>4 DEF s
<1>7. Apart(m2, q, {}) BY <1>1, <1>4, <1>5 DEF Apart
<1> QED BY <1>1, <1>2, <1>6, <1>7 DEF Holds, m2

\* append_to_queue
LEMMA NewHolds ==
    ASSUME NEW m, NEW q, Holds(m, q, {}), NEW n0 \in Node, m.next[n0] = Freed, NEW l \in Lists
    PROVE  Holds(append_to_queue(m, l, n0), [q EXCEPT ![l] = Append(q[l], n0)], {})
  BY AllocHolds, AppendHolds DEF append_to_queue

\* The head of one list goes to the end of another.
LEMMA TransferHolds ==
    ASSUME NEW m, NEW q, Holds(m, q, {}), NEW from \in Lists, NEW to \in Lists, from # to,
           q[from] # <<>>
    PROVE  /\ Holds(Transfer(m, from, to),
                    [q EXCEPT ![from] = Tail(q[from]), ![to] = Append(q[to], q[from][1])], {})
           /\ q[from][1] \in Node
<1> DEFINE h == q[from][1]
           p == pop_queue(m, from)
           q1 == [q EXCEPT ![from] = Tail(q[from])]
<1>1. Holds(p, q1, {h}) /\ m.head[from] = h BY PopHolds
<1>2. h \in Node
  <2>1. 1 \in 1 .. Len(q[from])
    <3>1. q[from] \in Seq(Node) /\ Len(q[from]) \in Nat BY ListOf
    <3> QED BY <3>1
  <2> QED BY <2>1, ListOf
<1>3. q1[to] = q[to] BY DEF Holds, Contents
<1> HIDE DEF p, q1, h
<1>4. Holds(append_node_to_queue(p, to, h), [q1 EXCEPT ![to] = Append(q1[to], h)], {})
  BY <1>1, <1>2, AppendHolds
<1>5. [q1 EXCEPT ![to] = Append(q1[to], h)] = [q EXCEPT ![from] = Tail(q[from]), ![to] = Append(q[to], h)]
  BY <1>3 DEF q1
<1>6. Transfer(m, from, to) = append_node_to_queue(p, to, h) BY <1>1 DEF Transfer, p
<1> QED BY <1>2, <1>4, <1>5, <1>6 DEF h

\* move_head_to_end does what pop_queue and append_node_to_queue do.
LEMMA RotateHolds ==
    ASSUME NEW m, NEW q, Holds(m, q, {}), NEW l \in Lists, Len(q[l]) > 1
    PROVE  Holds(move_head_to_end(m, l), [q EXCEPT ![l] = Append(Tail(q[l]), q[l][1])], {})
<1> DEFINE s == q[l]
           h == s[1]
           z == s[Len(s)]
           p == pop_queue(m, l)
           m2 == append_node_to_queue(p, l, h)
           m3 == move_head_to_end(m, l)
<1>1. /\ s \in Seq(Node) /\ Len(s) \in Nat /\ m \in Mems /\ IsInjective(s)
      /\ m.size[l] = Len(s) /\ s # <<>>
      /\ m.head[l] = h /\ m.tail[l] = z
      /\ \A i \in 1 .. Len(s) - 1 : m.next[s[i]] = s[i + 1]
      /\ \A i \in 1 .. Len(s) : s[i] \in Node
  <2>1. s \in Seq(Node) /\ Len(s) \in Nat BY ListOf
  <2>2. s # <<>> BY <2>1
  <2> QED BY <2>2, ListOf
<1>2. Len(s) > 1 OBVIOUS
<1> HIDE DEF s
<1>3. 1 \in 1 .. Len(s) /\ Len(s) \in 1 .. Len(s) /\ 1 \in 1 .. Len(s) - 1 /\ 2 \in 1 .. Len(s) BY <1>1, <1>2
<1>4. h \in Node /\ z \in Node /\ h # z /\ m.next[h] = s[2] /\ s[2] \in Node /\ s[2] # NULL
  <2>1. h # z BY <1>1, <1>2, <1>3, SamePlace
  <2> QED BY <1>1, <1>3, <2>1, LinkedQueuesAssumption
<1>5. Holds(p, [q EXCEPT ![l] = Tail(s)], {h}) BY <1>1, PopHolds DEF s
<1>6. [q EXCEPT ![l] = Tail(s)][l] = Tail(s) /\ q \in [Lists -> Seq(Node)] BY DEF Holds, Contents
<1>7. Holds(m2, [q EXCEPT ![l] = Append(Tail(s), h)], {})
  <2> DEFINE q1 == [q EXCEPT ![l] = Tail(s)]
  <2>1. q1[l] = Tail(s) /\ [q1 EXCEPT ![l] = Append(Tail(s), h)] = [q EXCEPT ![l] = Append(Tail(s), h)]
    BY <1>6
  <2>2. Holds(p, q1, {h}) BY <1>5
  <2> HIDE DEF q1, p, h
  <2>3. Holds(append_node_to_queue(p, l, h), [q1 EXCEPT ![l] = Append(q1[l], h)], {})
    BY <1>4, <2>2, AppendHolds
  <2> QED BY <2>1, <2>3
<1> HIDE DEF h, z
<1>8. m = [next |-> m.next, head |-> m.head, tail |-> m.tail, size |-> m.size]
      /\ m.next \in [Node -> Node \cup {NULL, Freed}] /\ m.head \in [Lists -> Node \cup {NULL}]
      /\ m.tail \in [Lists -> Node \cup {NULL}] /\ m.size \in [Lists -> Nat]
  BY <1>1 DEF Mems
<1>9. p = [next |-> [m.next EXCEPT ![h] = NULL], head |-> [m.head EXCEPT ![l] = s[2]],
           tail |-> m.tail, size |-> [m.size EXCEPT ![l] = m.size[l] - 1]]
  <2>1. p = [m EXCEPT !.head[l] = s[2], !.next[h] = NULL, !.size[l] = m.size[l] - 1]
    BY <1>1, <1>4, <1>8 DEF pop_queue
  <2> HIDE DEF p
  <2>2. /\ p.head = [m.head EXCEPT ![l] = s[2]] /\ p.tail = m.tail
        /\ p.next = [m.next EXCEPT ![h] = NULL] /\ p.size = [m.size EXCEPT ![l] = m.size[l] - 1]
        /\ p = [next |-> p.next, head |-> p.head, tail |-> p.tail, size |-> p.size]
    BY <1>8, <2>1
  <2> QED BY <2>2
<1> HIDE DEF p
<1>10. p.head[l] = s[2] /\ p.tail[l] = z /\ p.size[l] = m.size[l] - 1 BY <1>1, <1>8, <1>9
<1>11. m2 = [next |-> [p.next EXCEPT ![z] = h], head |-> p.head, tail |-> [p.tail EXCEPT ![l] = h],
             size |-> [p.size EXCEPT ![l] = p.size[l] + 1]]
  BY <1>4, <1>9, <1>10 DEF append_node_to_queue
<1>12. m3 = [next |-> [m.next EXCEPT ![z] = h, ![h] = NULL], head |-> [m.head EXCEPT ![l] = s[2]],
             tail |-> [m.tail EXCEPT ![l] = h], size |-> m.size]
  <2>1. ~(m.size[l] <= 1) BY <1>1, <1>2
  <2> QED BY <1>1, <1>4, <1>8, <2>1 DEF move_head_to_end
<1> HIDE DEF m2, m3
<1>13. [p.next EXCEPT ![z] = h] = [m.next EXCEPT ![z] = h, ![h] = NULL] BY <1>4, <1>8, <1>9
<1>14. [p.size EXCEPT ![l] = p.size[l] + 1] = m.size
  <2>1. (m.size[l] - 1) + 1 = m.size[l] BY <1>1
  <2>2. p.size = [m.size EXCEPT ![l] = m.size[l] - 1] BY <1>9
  <2> QED BY <1>8, <1>10, <2>1, <2>2
<1>15. m2 = m3 BY <1>9, <1>11, <1>12, <1>13, <1>14
<1> QED BY <1>7, <1>15 DEF s, h, m3

\* Two sequences, one behind the other.
LEMMA ConcatIs ==
    ASSUME NEW S, NEW a \in Seq(S), NEW b \in Seq(S)
    PROVE  /\ a \o b \in Seq(S) /\ Len(a \o b) = Len(a) + Len(b)
           /\ \A k \in 1 .. Len(a) : (a \o b)[k] = a[k]
           /\ \A k \in 1 .. Len(b) : (a \o b)[Len(a) + k] = b[k]
  OBVIOUS

\* What is left when position i leaves a sequence.
LEMMA RemoveAtIs ==
    ASSUME NEW S, NEW s \in Seq(S), NEW i \in 1 .. Len(s)
    PROVE  /\ RemoveAt(s, i) \in Seq(S) /\ Len(RemoveAt(s, i)) = Len(s) - 1
           /\ \A k \in 1 .. i - 1 : RemoveAt(s, i)[k] = s[k]
           /\ \A k \in i .. Len(s) - 1 : RemoveAt(s, i)[k] = s[k + 1]
<1> DEFINE a == SubSeq(s, 1, i - 1)
           b == SubSeq(s, i + 1, Len(s))
<1>1. /\ a \in Seq(S) /\ Len(a) = i - 1 /\ (\A k \in 1 .. i - 1 : a[k] = s[k])
      /\ b \in Seq(S) /\ Len(b) = Len(s) - i /\ (\A k \in 1 .. Len(s) - i : b[k] = s[i + k])
      /\ Len(s) \in Nat
  OBVIOUS
<1> HIDE DEF a, b
<1>2. /\ a \o b \in Seq(S) /\ Len(a \o b) = Len(a) + Len(b)
      /\ \A k \in 1 .. Len(a) : (a \o b)[k] = a[k]
      /\ \A k \in 1 .. Len(b) : (a \o b)[Len(a) + k] = b[k]
  <2>1. a \in Seq(S) /\ b \in Seq(S) BY <1>1
  <2> QED BY ONLY <2>1, ConcatIs
<1> DEFINE c == a \o b
<1> HIDE DEF c
<1>3. c \in Seq(S) /\ Len(c) = Len(s) - 1 BY <1>1, <1>2 DEF c
<1>4. \A k \in 1 .. i - 1 : c[k] = s[k] BY <1>1, <1>2 DEF c
<1>5. ASSUME NEW k \in i .. Len(s) - 1 PROVE c[k] = s[k + 1]
  <2> DEFINE j == (k + 1) - i
  <2>1. j \in 1 .. Len(s) - i /\ (i - 1) + j = k /\ i + j = k + 1 BY <1>1
  <2>2. c[(i - 1) + j] = b[j] BY <1>1, <1>2, <2>1 DEF c
  <2> QED BY <1>1, <2>1, <2>2
<1>6. RemoveAt(s, i) = c BY DEF RemoveAt, a, b, c
<1> QED BY <1>3, <1>4, <1>5, <1>6

\* The node target behind prev is taken out of its list.
Unlink(m, l, target, prev) ==
    [m EXCEPT !.next = [@ EXCEPT ![prev] = m.next[target], ![target] = NULL],
              !.tail[l] = IF @ = target THEN prev ELSE @,
              !.size[l] = @ - 1]

\* Then the list holds the others, and the node is loose.
LEMMA UnlinkHolds ==
    ASSUME NEW m, NEW q, Holds(m, q, {}), NEW l \in Lists, NEW i \in 2 .. Len(q[l])
    PROVE  /\ Holds(Unlink(m, l, q[l][i], q[l][i - 1]), [q EXCEPT ![l] = RemoveAt(q[l], i)], {q[l][i]})
           /\ q[l][i] \in Node /\ q[l][i - 1] \in Node /\ q[l][i] # q[l][i - 1]
<1> DEFINE s == q[l]
           t == RemoveAt(s, i)
           x == s[i]
           y == s[i - 1]
           m2 == Unlink(m, l, x, y)
           L == Len(s)
<1>1. /\ s \in Seq(Node) /\ L \in Nat /\ m \in Mems
      /\ IsInjective(s) /\ (\A k \in 1 .. L : s[k] \in Node /\ s[k] \in Range(s))
      /\ Range(s) \subseteq Node /\ m.size[l] = L
      /\ \A k \in 1 .. L - 1 : m.next[s[k]] = s[k + 1]
  BY ListOf
<1>2. m.head[l] = s[1] /\ m.tail[l] = s[L] /\ m.next[s[L]] = NULL
  <2>1. s # <<>> BY <1>1
  <2> QED BY <2>1, ListOf
<1>3. i \in 2 .. L OBVIOUS
<1> HIDE DEF s
<1>4. i \in 1 .. L /\ i - 1 \in 1 .. L /\ i # i - 1 /\ L \in 1 .. L BY <1>1, <1>3
<1>5. /\ t \in Seq(Node) /\ Len(t) = L - 1 /\ (\A k \in 1 .. i - 1 : t[k] = s[k])
      /\ \A k \in i .. L - 1 : t[k] = s[k + 1]
  BY <1>1, <1>4, RemoveAtIs
<1>6. Range(t) = Range(s) \ {x} /\ IsInjective(t) /\ x \in Range(s) BY <1>1, <1>4, RemoveQueue
<1>7. x \in Node /\ y \in Node /\ x # y /\ y \in Range(s) BY <1>1, <1>4, SamePlace
<1>8. m = [next |-> m.next, head |-> m.head, tail |-> m.tail, size |-> m.size]
      /\ m.next \in [Node -> Node \cup {NULL, Freed}] /\ m.head \in [Lists -> Node \cup {NULL}]
      /\ m.tail \in [Lists -> Node \cup {NULL}] /\ m.size \in [Lists -> Nat]
  BY <1>1 DEF Mems
<1> HIDE DEF t, x, y, L
<1>9. /\ m2.next = [m.next EXCEPT ![y] = m.next[x], ![x] = NULL] /\ m2.head = m.head
      /\ m2.tail = [m.tail EXCEPT ![l] = IF m.tail[l] = x THEN y ELSE m.tail[l]]
      /\ m2.size = [m.size EXCEPT ![l] = m.size[l] - 1]
      /\ m2 = [next |-> m2.next, head |-> m2.head, tail |-> m2.tail, size |-> m2.size]
  <2>1. m2 = [m EXCEPT !.next = [m.next EXCEPT ![y] = m.next[x], ![x] = NULL],
                       !.tail = [m.tail EXCEPT ![l] = IF m.tail[l] = x THEN y ELSE m.tail[l]],
                       !.size = [m.size EXCEPT ![l] = m.size[l] - 1]]
    BY <1>8 DEF Unlink
  <2> HIDE DEF m2
  <2> QED BY <1>8, <2>1
<1> HIDE DEF m2
<1>10. /\ m2.next[x] = NULL /\ m2.next[y] = m.next[x]
       /\ \A n \in Node : n # x /\ n # y => m2.next[n] = m.next[n]
       /\ m2.tail[l] = (IF m.tail[l] = x THEN y ELSE m.tail[l]) /\ m2.size[l] = L - 1
  BY <1>1, <1>7, <1>8, <1>9
<1>11. m2 \in Mems
  <2>1. L - 1 \in Nat BY <1>1, <1>3
  <2>2. m2.size \in [Lists -> Nat] BY <1>1, <1>8, <1>9, <2>1
  <2>3. m2.tail \in [Lists -> Node \cup {NULL}] BY <1>7, <1>8, <1>9
  <2>4. m2.next \in [Node -> Node \cup {NULL, Freed}] BY <1>7, <1>8, <1>9
  <2> QED BY <1>8, <1>9, <2>2, <2>3, <2>4 DEF Mems
<1>12. ASSUME NEW k \in 1 .. L, k # i, k # i - 1 PROVE m2.next[s[k]] = m.next[s[k]]
  <2>1. s[k] # x /\ s[k] # y BY <1>1, <1>4, <1>12, SamePlace DEF x, y, L
  <2> QED BY <1>1, <1>10, <2>1
<1>13. Chain(m2, l, t)
  <2>1. t # <<>> /\ Len(t) \in 1 .. Len(t) /\ t[1] = s[1]
    <3>1. Len(t) # 0 /\ 1 \in 1 .. i - 1 /\ Len(t) \in Nat BY <1>1, <1>3, <1>5
    <3>2. t # <<>> BY <3>1
    <3> QED BY <1>5, <3>1, <3>2
  <2>2. m2.head[l] = t[1] BY <1>2, <1>9, <2>1
  <2>3. m2.tail[l] = t[Len(t)] /\ m2.next[t[Len(t)]] = NULL
    <3>1. CASE i = L
      <4>1. L - 1 \in 1 .. i - 1 /\ L - 1 = i - 1 BY <1>1, <1>3, <3>1
      <4>2. t[Len(t)] = y BY <1>5, <4>1 DEF y
      <4>3. m.tail[l] = x /\ m.next[x] = NULL BY <1>2, <3>1 DEF x
      <4> QED BY <1>10, <4>2, <4>3
    <3>2. CASE i # L
      <4>1. L - 1 \in i .. L - 1 /\ (L - 1) + 1 = L /\ L # i - 1 BY <1>1, <1>3, <3>2
      <4>2. t[Len(t)] = s[L] BY <1>5, <4>1
      <4>3. s[L] # x BY <1>1, <1>4, <3>2, SamePlace DEF x, L
      <4>4. m2.next[s[L]] = m.next[s[L]] BY <1>4, <1>12, <3>2, <4>1
      <4> QED BY <1>2, <1>10, <4>2, <4>3, <4>4
    <3> QED BY <3>1, <3>2
  <2>4. ASSUME NEW k \in 1 .. Len(t) - 1 PROVE m2.next[t[k]] = t[k + 1]
    <3>1. k \in 1 .. L - 2 BY <1>1, <1>5
    <3>2. CASE k < i - 1
      <4>1. k \in 1 .. i - 1 /\ k + 1 \in 1 .. i - 1 /\ k \in 1 .. L - 1 /\ k \in 1 .. L /\ k # i /\ k # i - 1
        BY <1>1, <1>3, <3>1, <3>2
      <4> QED BY <1>1, <1>5, <1>12, <4>1
    <3>3. CASE k = i - 1
      <4>1. k \in 1 .. i - 1 /\ i \in i .. L - 1 /\ i \in 1 .. L - 1 /\ k + 1 = i BY <1>1, <1>3, <3>1, <3>3
      <4>2. t[k] = y /\ t[k + 1] = s[i + 1] BY <1>5, <3>3, <4>1 DEF y
      <4>3. m.next[x] = s[i + 1] BY <1>1, <4>1 DEF x
      <4> QED BY <1>10, <4>2, <4>3
    <3>4. CASE k > i - 1
      <4>1. /\ k \in i .. L - 1 /\ k + 1 \in i .. L - 1 /\ k + 1 \in 1 .. L - 1 /\ k + 1 \in 1 .. L
            /\ k + 1 # i /\ k + 1 # i - 1
        BY <1>1, <1>3, <3>1, <3>4
      <4>2. t[k] = s[k + 1] /\ t[k + 1] = s[(k + 1) + 1] BY <1>5, <4>1
      <4>3. m2.next[s[k + 1]] = m.next[s[k + 1]] BY <1>12, <4>1
      <4> QED BY <1>1, <4>1, <4>2, <4>3
    <3> QED BY <1>1, <1>3, <3>1, <3>2, <3>3, <3>4
  <2>5. m2.size[l] = Len(t) BY <1>5, <1>10
  <2> QED BY <1>6, <2>1, <2>2, <2>3, <2>4, <2>5 DEF Chain
<1>14. \A k \in Lists : k # l => m2.head[k] = m.head[k] /\ m2.tail[k] = m.tail[k] /\ m2.size[k] = m.size[k]
  BY <1>8, <1>9
<1>15. \A n \in Node : n \notin Range(s) \cup {} => m2.next[n] = m.next[n] BY <1>6, <1>7, <1>10
<1>16. Range(t) \cup {x} = Range(s) \cup {} /\ Range(t) \cap {x} = {} BY <1>6
<1>17. \A n \in (Range(s) \cup {}) \ (Range(t) \cup {x}) : m2.next[n] = Freed BY <1>16
<1>18. \A n \in {x} : m2.next[n] = NULL BY <1>10
<1>19. Holds(m2, [q EXCEPT ![l] = t], {x})
  BY <1>5, <1>11, <1>13, <1>14, <1>15, <1>16, <1>17, <1>18, OneList, ZenonT(30) DEF s
<1> QED BY <1>7, <1>19 DEF s, t, x, y, m2

\* A loose node is put in front of a list that is not empty.
Push(m, l, n) ==
    [m EXCEPT !.next[n] = m.head[l], !.head[l] = n, !.size[l] = @ + 1]

\* Then the list begins with it.
LEMMA PushHolds ==
    ASSUME NEW m, NEW q, NEW n0 \in Node, Holds(m, q, {n0}), NEW l \in Lists, q[l] # <<>>
    PROVE  Holds(Push(m, l, n0), [q EXCEPT ![l] = <<n0>> \o q[l]], {})
<1> DEFINE s == q[l]
           t == <<n0>> \o s
           m2 == Push(m, l, n0)
           L == Len(s)
<1>1. /\ s \in Seq(Node) /\ L \in Nat /\ m \in Mems
      /\ IsInjective(s) /\ (\A k \in 1 .. L : s[k] \in Node /\ s[k] \in Range(s))
      /\ Range(s) \subseteq Node /\ m.size[l] = L
      /\ (\A k \in 1 .. L - 1 : m.next[s[k]] = s[k + 1])
      /\ m.head[l] = s[1] /\ m.tail[l] = s[L] /\ m.next[s[L]] = NULL
  BY ListOf
<1>2. n0 \notin Range(s) /\ m.next[n0] = NULL BY DEF Holds, Apart
<1>3. s # <<>> OBVIOUS
<1> HIDE DEF s
<1>4. 1 \in 1 .. L /\ L \in 1 .. L BY <1>1, <1>3
<1>5. /\ t \in Seq(Node) /\ Len(t) = 1 + L /\ t[1] = n0 /\ (\A k \in 1 .. L : t[k + 1] = s[k])
      /\ t # <<>>
  <2>1. ASSUME NEW r \in Seq(Node)
        PROVE  /\ <<n0>> \o r \in Seq(Node) /\ Len(<<n0>> \o r) = 1 + Len(r) /\ (<<n0>> \o r)[1] = n0
               /\ \A k \in 1 .. Len(r) : (<<n0>> \o r)[k + 1] = r[k]
    OBVIOUS
  <2>2. /\ t \in Seq(Node) /\ Len(t) = 1 + L /\ t[1] = n0 /\ (\A k \in 1 .. L : t[k + 1] = s[k])
    BY <1>1, <2>1
  <2> HIDE DEF t
  <2> QED BY <1>1, <2>2
<1>6. Range(t) = Range(s) \cup {n0} /\ IsInjective(t)
  <2>1. <<n0>> \in Seq(Node) /\ Range(<<n0>>) = {n0} /\ IsInjective(<<n0>>) BY DEF Range, IsInjective
  <2>2. Range(<<n0>>) \cap Range(s) = {} /\ s \in Seq(Node) /\ IsInjective(s) BY <1>1, <1>2, <2>1
  <2> DEFINE p == <<n0>>
  <2>3. p \in Seq(Node) /\ IsInjective(p) /\ Range(p) \cap Range(s) = {} BY <2>1, <2>2
  <2>4. t = p \o s OBVIOUS
  <2> HIDE DEF p, t
  <2>5. Range(t) = Range(p) \cup Range(s) /\ IsInjective(t) BY ONLY <2>2, <2>3, <2>4, ConcatQueue
  <2> QED BY <2>1, <2>5 DEF p
<1>7. m = [next |-> m.next, head |-> m.head, tail |-> m.tail, size |-> m.size]
      /\ m.next \in [Node -> Node \cup {NULL, Freed}] /\ m.head \in [Lists -> Node \cup {NULL}]
      /\ m.tail \in [Lists -> Node \cup {NULL}] /\ m.size \in [Lists -> Nat]
  BY <1>1 DEF Mems
<1> HIDE DEF t, L
<1>8. /\ m2.next = [m.next EXCEPT ![n0] = m.head[l]] /\ m2.head = [m.head EXCEPT ![l] = n0]
      /\ m2.tail = m.tail /\ m2.size = [m.size EXCEPT ![l] = m.size[l] + 1]
      /\ m2 = [next |-> m2.next, head |-> m2.head, tail |-> m2.tail, size |-> m2.size]
  <2>1. m2 = [m EXCEPT !.next = [m.next EXCEPT ![n0] = m.head[l]], !.head = [m.head EXCEPT ![l] = n0],
                       !.size = [m.size EXCEPT ![l] = m.size[l] + 1]]
    BY <1>7 DEF Push
  <2> HIDE DEF m2
  <2> QED BY <1>7, <2>1
<1> HIDE DEF m2
<1>9. /\ m2.next[n0] = s[1] /\ m2.head[l] = n0 /\ m2.size[l] = L + 1
      /\ \A n \in Node : n # n0 => m2.next[n] = m.next[n]
  BY <1>1, <1>7, <1>8
<1>10. m2 \in Mems
  <2>1. L + 1 \in Nat BY <1>1
  <2>2. m2.size \in [Lists -> Nat] BY <1>1, <1>7, <1>8, <2>1
  <2>3. m2.head \in [Lists -> Node \cup {NULL}] BY <1>7, <1>8
  <2>4. m2.next \in [Node -> Node \cup {NULL, Freed}] BY <1>1, <1>4, <1>7, <1>8
  <2> QED BY <1>7, <1>8, <2>2, <2>3, <2>4 DEF Mems
<1>11. \A k \in 1 .. L : m2.next[s[k]] = m.next[s[k]] BY <1>1, <1>2, <1>9
<1>12. Chain(m2, l, t)
  <2>1. m2.size[l] = Len(t) /\ m2.head[l] = t[1] BY <1>1, <1>5, <1>9
  <2>2. m2.tail[l] = t[Len(t)] /\ m2.next[t[Len(t)]] = NULL
    <3>1. t[Len(t)] = s[L]
      <4>1. Len(t) = L + 1 BY <1>1, <1>5
      <4> QED BY <1>4, <1>5, <4>1
    <3> QED BY <1>1, <1>4, <1>8, <1>11, <3>1
  <2>3. ASSUME NEW k \in 1 .. Len(t) - 1 PROVE m2.next[t[k]] = t[k + 1]
    <3>1. k \in 1 .. L BY <1>1, <1>5
    <3>2. CASE k = 1 BY <1>4, <1>5, <1>9, <3>2
    <3>3. CASE k # 1
      <4>1. k - 1 \in 1 .. L /\ (k - 1) + 1 = k /\ k - 1 \in 1 .. L - 1 BY <1>1, <3>1, <3>3
      <4>2. t[k] = s[k - 1] /\ t[k + 1] = s[k] BY <1>5, <3>1, <4>1
      <4> QED BY <1>1, <1>11, <4>1, <4>2
    <3> QED BY <3>2, <3>3
  <2> QED BY <1>5, <1>6, <2>1, <2>2, <2>3 DEF Chain
<1>13. \A k \in Lists : k # l => m2.head[k] = m.head[k] /\ m2.tail[k] = m.tail[k] /\ m2.size[k] = m.size[k]
  BY <1>7, <1>8
<1>14. \A n \in Node : n \notin Range(s) \cup {n0} => m2.next[n] = m.next[n] BY <1>9
<1>15. Range(t) \cup {} = Range(s) \cup {n0} /\ Range(t) \cap {} = {} BY <1>6
<1>16. (Range(s) \cup {n0}) \ (Range(t) \cup {}) = {} BY <1>6
<1>17. Holds(m2, [q EXCEPT ![l] = t], {})
  <2>1. /\ Range(t) \cup {} \subseteq Range(q[l]) \cup {n0} /\ Range(t) \cap {} = {}
        /\ \A n \in (Range(q[l]) \cup {n0}) \ (Range(t) \cup {}) : m2.next[n] = Freed
        /\ \A n \in Node : n \notin Range(q[l]) \cup {n0} => m2.next[n] = m.next[n]
    BY <1>14, <1>15, <1>16 DEF s
  <2>2. \A n \in {} : m2.next[n] = NULL OBVIOUS
  <2> QED BY <1>5, <1>10, <1>12, <1>13, <2>1, <2>2, OneList
<1> QED BY <1>17 DEF s, t, m2

\* The position of the node before the one at i.
LEMMA FindPrev ==
    ASSUME NEW m, NEW q, Holds(m, q, {}), NEW l \in Lists, NEW i \in 1 .. Len(q[l])
    PROVE  /\ i = 1 => find_prev(m, l, q[l][i]) = NULL
           /\ i # 1 => find_prev(m, l, q[l][i]) = q[l][i - 1]
<1> DEFINE s == q[l]
           L == Len(s)
           x == s[i]
<1>1. /\ s \in Seq(Node) /\ L \in Nat /\ IsInjective(s) /\ DOMAIN s = 1 .. L
      /\ (\A k \in 1 .. L : s[k] \in Node)
      /\ \A k \in 1 .. L - 1 : m.next[s[k]] = s[k + 1]
  BY ListOf
<1>2. s # <<>> BY <1>1
<1>3. m.head[l] = s[1] /\ m.next[s[L]] = NULL BY <1>2, ListOf
<1>4. Walk(m, l) = s BY ListOf, WalkIs
<1>5. i \in 1 .. L OBVIOUS
<1> HIDE DEF s
<1>6. 1 \in 1 .. L BY <1>1, <1>5
<1>7. x = s[1] <=> i = 1 BY <1>1, <1>5, <1>6, SamePlace
<1>8. find_prev(m, l, x) = IF x = m.head[l] THEN NULL ELSE s[CHOOSE k \in DOMAIN s : m.next[s[k]] = x]
  BY <1>4 DEF find_prev
<1>9. ASSUME i # 1 PROVE (CHOOSE k \in DOMAIN s : m.next[s[k]] = x) = i - 1
  <2>1. i - 1 \in 1 .. L - 1 /\ (i - 1) + 1 = i /\ i - 1 \in DOMAIN s BY <1>1, <1>5, <1>9
  <2>2. m.next[s[i - 1]] = x BY <1>1, <2>1
  <2>3. ASSUME NEW k \in DOMAIN s, m.next[s[k]] = x PROVE k = i - 1
    <3>1. k \in 1 .. L /\ x \in Node BY <1>1, <1>5
    <3>2. k # L BY <1>3, <2>3, <3>1, LinkedQueuesAssumption
    <3>3. k \in 1 .. L - 1 /\ k + 1 \in 1 .. L BY <1>1, <3>1, <3>2
    <3>4. s[k + 1] = s[i] BY <1>1, <2>3, <3>3
    <3>5. k + 1 = i BY <1>1, <1>5, <3>3, <3>4, SamePlace
    <3> QED BY <3>1, <3>5
  <2> QED BY <2>1, <2>2, <2>3
<1>10. i = 1 => find_prev(m, l, x) = NULL BY <1>3, <1>7, <1>8
<1>11. i # 1 => find_prev(m, l, x) = s[i - 1] BY <1>3, <1>7, <1>8, <1>9
<1> QED BY <1>10, <1>11 DEF s

\* The contents of a list put back are the contents.
LEMMA SameContents ==
    ASSUME NEW m, NEW q, NEW loose, Holds(m, q, loose), NEW l \in Lists, NEW s, s = q[l]
    PROVE  [q EXCEPT ![l] = s] = q
  BY DEF Holds, Contents

\* Positions at the ends of a sequence.
LEMMA RemoveEnds ==
    ASSUME NEW S, NEW s \in Seq(S), Len(s) >= 1
    PROVE  /\ RemoveAt(s, 1) = Tail(s)
           /\ <<s[1]>> \o RemoveAt(s, 1) = s
           /\ Append(RemoveAt(s, Len(s)), s[Len(s)]) = s
<1> DEFINE L == Len(s)
           a == RemoveAt(s, 1)
           b == RemoveAt(s, L)
<1>1. L \in Nat /\ 1 \in 1 .. L /\ L \in 1 .. L OBVIOUS
<1>2. /\ a \in Seq(S) /\ Len(a) = L - 1 /\ (\A k \in 1 .. L - 1 : a[k] = s[k + 1])
      /\ b \in Seq(S) /\ Len(b) = L - 1 /\ (\A k \in 1 .. L - 1 : b[k] = s[k])
  BY <1>1, RemoveAtIs
<1>3. s[1] \in S /\ s[L] \in S BY <1>1
<1> HIDE DEF a, b
<1>4. a = Tail(s)
  <2> DEFINE t == Tail(s)
  <2>1. s # <<>> BY <1>1
  <2>2. t \in Seq(S) /\ Len(t) = L - 1 /\ \A k \in 1 .. L - 1 : t[k] = s[k + 1] BY <2>1
  <2> HIDE DEF t
  <2>3. a = t BY <1>1, <1>2, <2>2
  <2> QED BY <2>3 DEF t
<1>5. <<s[1]>> \o a = s
  <2> DEFINE t == <<s[1]>> \o a
             h == s[1]
  <2>1. ASSUME NEW r \in Seq(S), NEW y \in S
        PROVE  /\ <<y>> \o r \in Seq(S) /\ Len(<<y>> \o r) = 1 + Len(r) /\ (<<y>> \o r)[1] = y
               /\ \A k \in 1 .. Len(r) : (<<y>> \o r)[k + 1] = r[k]
    OBVIOUS
  <2>2. t \in Seq(S) /\ Len(t) = 1 + Len(a) /\ t[1] = h /\ (\A k \in 1 .. Len(a) : t[k + 1] = a[k])
    BY <1>2, <1>3, <2>1
  <2> HIDE DEF t
  <2>3. Len(t) = L BY <1>1, <1>2, <2>2
  <2>4. ASSUME NEW k \in 1 .. L PROVE t[k] = s[k]
    <3>1. CASE k = 1 BY <2>2, <3>1
    <3>2. CASE k # 1
      <4>1. k - 1 \in 1 .. L - 1 /\ (k - 1) + 1 = k BY <1>1, <3>2
      <4>2. k - 1 \in 1 .. Len(a) BY <1>2, <4>1
      <4>3. t[(k - 1) + 1] = a[k - 1] BY <2>2, <4>2
      <4>4. a[k - 1] = s[(k - 1) + 1] BY <1>2, <4>1
      <4> QED BY <4>1, <4>3, <4>4
    <3> QED BY <3>1, <3>2
  <2>5. t = s BY <2>2, <2>3, <2>4
  <2> QED BY <2>5 DEF t
<1>6. Append(b, s[L]) = s
  <2> DEFINE t == Append(b, s[L])
  <2>1. t \in Seq(S) /\ Len(t) = Len(b) + 1 /\ t[Len(b) + 1] = s[L] /\ \A k \in 1 .. Len(b) : t[k] = b[k]
    BY <1>2, <1>3
  <2> HIDE DEF t
  <2>2. Len(t) = L /\ Len(b) + 1 = L BY <1>1, <1>2, <2>1
  <2>3. ASSUME NEW k \in 1 .. L PROVE t[k] = s[k]
    <3>1. CASE k = L BY <2>1, <2>2, <3>1
    <3>2. CASE k # L
      <4>1. k \in 1 .. L - 1 BY <1>1, <3>2
      <4> QED BY <1>2, <2>1, <4>1
    <3> QED BY <3>1, <3>2
  <2>4. t = s BY <2>1, <2>2, <2>3
  <2> QED BY <2>4 DEF t
<1> QED BY <1>4, <1>5, <1>6 DEF a, b

\* move_to_head takes its target out and puts it in front.
LEMMA ToHeadHolds ==
    ASSUME NEW m, NEW q, Holds(m, q, {}), NEW l \in Lists, NEW i \in 2 .. Len(q[l])
    PROVE  Holds(move_to_head(m, l, q[l][i], q[l][i - 1]),
                 [q EXCEPT ![l] = <<q[l][i]>> \o RemoveAt(q[l], i)], {})
<1> DEFINE s == q[l]
           x == s[i]
           y == s[i - 1]
           m1 == Unlink(m, l, x, y)
           q1 == [q EXCEPT ![l] = RemoveAt(s, i)]
           m2 == Push(m1, l, x)
           m3 == move_to_head(m, l, x, y)
<1>1. /\ s \in Seq(Node) /\ Len(s) \in Nat /\ m \in Mems /\ IsInjective(s)
      /\ m.size[l] = Len(s) /\ q \in [Lists -> Seq(Node)]
  BY ListOf DEF Holds, Contents
<1>2. s # <<>> BY <1>1
<1>3. m.head[l] = s[1] BY <1>2, ListOf
<1>4. Holds(m1, q1, {x}) /\ x \in Node /\ y \in Node /\ x # y BY UnlinkHolds
<1>5. i \in 2 .. Len(s) OBVIOUS
<1> HIDE DEF s
<1>6. 1 \in 1 .. Len(s) /\ i \in 1 .. Len(s) BY <1>1, <1>5
<1>7. x # s[1] BY <1>1, <1>5, <1>6, SamePlace
<1>8. q1[l] = RemoveAt(s, i) /\ [q1 EXCEPT ![l] = <<x>> \o RemoveAt(s, i)] = [q EXCEPT ![l] = <<x>> \o RemoveAt(s, i)]
  BY <1>1
<1>9. RemoveAt(s, i) # <<>>
  <2>1. RemoveAt(s, i) \in Seq(Node) /\ Len(RemoveAt(s, i)) = Len(s) - 1 BY <1>1, <1>6, RemoveAtIs
  <2> QED BY <1>1, <1>5, <2>1
<1> HIDE DEF q1, x, y, m1
<1>10. Holds(m2, [q1 EXCEPT ![l] = <<x>> \o q1[l]], {}) BY <1>4, <1>8, <1>9, PushHolds
<1>11. Holds(m2, [q EXCEPT ![l] = <<x>> \o RemoveAt(s, i)], {}) BY <1>8, <1>10
<1>12. m = [next |-> m.next, head |-> m.head, tail |-> m.tail, size |-> m.size]
      /\ m.next \in [Node -> Node \cup {NULL, Freed}] /\ m.head \in [Lists -> Node \cup {NULL}]
      /\ m.tail \in [Lists -> Node \cup {NULL}] /\ m.size \in [Lists -> Nat]
  BY <1>1 DEF Mems
<1> DEFINE z == IF m.tail[l] = x THEN y ELSE m.tail[l]
<1>13. /\ m1.next = [m.next EXCEPT ![y] = m.next[x], ![x] = NULL] /\ m1.head = m.head
       /\ m1.tail = [m.tail EXCEPT ![l] = z] /\ m1.size = [m.size EXCEPT ![l] = m.size[l] - 1]
       /\ m1 = [next |-> m1.next, head |-> m1.head, tail |-> m1.tail, size |-> m1.size]
  <2>1. m1 = [m EXCEPT !.next = [m.next EXCEPT ![y] = m.next[x], ![x] = NULL],
                       !.tail = [m.tail EXCEPT ![l] = z],
                       !.size = [m.size EXCEPT ![l] = m.size[l] - 1]]
    BY <1>12 DEF Unlink, m1
  <2> HIDE DEF z
  <2> QED BY <1>12, <2>1
<1>14. /\ m2.next = [m1.next EXCEPT ![x] = m1.head[l]] /\ m2.head = [m1.head EXCEPT ![l] = x]
       /\ m2.tail = m1.tail /\ m2.size = [m1.size EXCEPT ![l] = m1.size[l] + 1]
       /\ m2 = [next |-> m2.next, head |-> m2.head, tail |-> m2.tail, size |-> m2.size]
  <2>1. m2 = [m1 EXCEPT !.next = [m1.next EXCEPT ![x] = m1.head[l]], !.head = [m1.head EXCEPT ![l] = x],
                        !.size = [m1.size EXCEPT ![l] = m1.size[l] + 1]]
    BY <1>13 DEF Push
  <2> HIDE DEF m2
  <2> QED BY <1>13, <2>1
<1>15. /\ m3.next = [m.next EXCEPT ![y] = m.next[x], ![x] = m.head[l]] /\ m3.head = [m.head EXCEPT ![l] = x]
       /\ m3.tail = [m.tail EXCEPT ![l] = z] /\ m3.size = m.size
       /\ m3 = [next |-> m3.next, head |-> m3.head, tail |-> m3.tail, size |-> m3.size]
  <2>1. ~(m.size[l] <= 1) /\ x # m.head[l] BY <1>1, <1>3, <1>5, <1>7
  <2>2. m3 = [m EXCEPT !.head = [m.head EXCEPT ![l] = x],
                       !.next = [m.next EXCEPT ![y] = m.next[x], ![x] = m.head[l]],
                       !.tail = [m.tail EXCEPT ![l] = z]]
    BY <1>12, <2>1 DEF move_to_head
  <2> HIDE DEF m3, z
  <2> QED BY <1>12, <2>2
<1> HIDE DEF m2, m3, z
<1>16. m2.next = m3.next BY <1>4, <1>12, <1>13, <1>14, <1>15
<1>17. m2.size = m3.size
  <2>1. m1.size[l] + 1 = m.size[l] BY <1>1, <1>12, <1>13
  <2> QED BY <1>12, <1>13, <1>14, <1>15, <2>1
<1>18. m2.head = m3.head /\ m2.tail = m3.tail BY <1>13, <1>14, <1>15
<1>19. m2 = m3 BY <1>14, <1>15, <1>16, <1>17, <1>18
<1> QED BY <1>11, <1>19 DEF s, x, y, m3

\* move_node_to_end takes its node out and appends it.
LEMMA ToEndHolds ==
    ASSUME NEW m, NEW q, Holds(m, q, {}), NEW l \in Lists, NEW i \in 1 .. Len(q[l])
    PROVE  Holds(move_node_to_end(m, l, q[l][i]),
                 [q EXCEPT ![l] = Append(RemoveAt(q[l], i), q[l][i])], {})
<1> DEFINE s == q[l]
           x == s[i]
           L == Len(s)
           t == Append(RemoveAt(s, i), x)
           m3 == move_node_to_end(m, l, x)
<1>1. /\ s \in Seq(Node) /\ L \in Nat /\ m \in Mems /\ IsInjective(s)
      /\ m.size[l] = L /\ q \in [Lists -> Seq(Node)]
  BY ListOf DEF Holds, Contents
<1>2. s # <<>> BY <1>1
<1>3. m.head[l] = s[1] /\ m.tail[l] = s[L] BY <1>2, ListOf
<1>4. i \in 1 .. L /\ 1 \in 1 .. L /\ L \in 1 .. L /\ L >= 1 BY <1>1
<1>5. RemoveAt(s, 1) = Tail(s) /\ Append(RemoveAt(s, L), s[L]) = s BY <1>1, <1>4, RemoveEnds
<1>6. (x = s[1] <=> i = 1) /\ (x = s[L] <=> i = L)
  <2> HIDE DEF s
  <2> QED BY <1>1, <1>4, SamePlace
<1>7. i # 1 => find_prev(m, l, x) = s[i - 1] BY FindPrev
<1>8. CASE L <= 1
  <2>1. i = L /\ m3 = m BY <1>1, <1>4, <1>8 DEF move_node_to_end
  <2>2. t = s BY <1>5, <2>1
  <2>3. [q EXCEPT ![l] = t] = q BY <2>2, SameContents
  <2> HIDE DEF t, m3
  <2>4. Holds(m3, [q EXCEPT ![l] = t], {}) BY <2>1, <2>3
  <2> QED BY <2>4 DEF t, m3
<1>9. CASE L > 1 /\ i = 1
  <2>1. m3 = move_head_to_end(m, l) BY <1>1, <1>3, <1>6, <1>9 DEF move_node_to_end
  <2>2. Holds(move_head_to_end(m, l), [q EXCEPT ![l] = Append(Tail(s), s[1])], {}) BY <1>9, RotateHolds
  <2>3. t = Append(Tail(s), s[1]) BY <1>5, <1>9
  <2> QED BY <2>1, <2>2, <2>3
<1>10. CASE L > 1 /\ i # 1 /\ i = L
  <2>1. m3 = m BY <1>1, <1>3, <1>6, <1>10 DEF move_node_to_end
  <2>2. t = s BY <1>5, <1>10
  <2>3. [q EXCEPT ![l] = t] = q BY <2>2, SameContents
  <2> HIDE DEF t, m3
  <2>4. Holds(m3, [q EXCEPT ![l] = t], {}) BY <2>1, <2>3
  <2> QED BY <2>4 DEF t, m3
<1>11. CASE L > 1 /\ i # 1 /\ i # L
  <2> DEFINE y == s[i - 1]
             z == s[L]
             m1 == Unlink(m, l, x, y)
             q1 == [q EXCEPT ![l] = RemoveAt(s, i)]
             m2 == append_node_to_queue(m1, l, x)
  <2>1. i \in 2 .. L BY <1>4, <1>11
  <2>2. Holds(m1, q1, {x}) /\ x \in Node /\ y \in Node /\ x # y BY <2>1, UnlinkHolds
  <2>3. q1[l] = RemoveAt(s, i) /\ [q1 EXCEPT ![l] = t] = [q EXCEPT ![l] = t] BY <1>1
  <2>4. RemoveAt(s, i) # <<>>
    <3>1. RemoveAt(s, i) \in Seq(Node) /\ Len(RemoveAt(s, i)) = L - 1 BY <1>1, <1>4, RemoveAtIs
    <3> QED BY <1>1, <1>11, <3>1
  <2>5. z \in Node /\ z # x BY <1>1, <1>4, <1>6, <1>11
  <2>6. Holds(m2, [q EXCEPT ![l] = t], {})
    <3>1. Holds(m1, q1, {x}) /\ x \in Node BY <2>2
    <3> HIDE DEF m1, q1, x
    <3>2. Holds(append_node_to_queue(m1, l, x), [q1 EXCEPT ![l] = Append(q1[l], x)], {})
      BY <3>1, AppendHolds
    <3>3. Append(q1[l], x) = t BY <2>3
    <3> HIDE DEF t
    <3> QED BY <2>3, <3>2, <3>3
  <2>7. m1.head[l] # NULL /\ m1.head[l] = s[1]
    <3>1. m1.head = m.head BY <1>1 DEF Unlink, Mems
    <3>2. s[1] \in Node BY <1>1, <1>4
    <3> QED BY <1>3, <3>1, <3>2, LinkedQueuesAssumption
  <2>8. find_prev(m, l, x) = y BY <1>7, <1>11
  <2>9. ~(m.size[l] <= 1) /\ x # m.head[l] /\ x # m.tail[l] /\ m.tail[l] = z
    BY <1>1, <1>3, <1>6, <1>11
  <2>10. m = [next |-> m.next, head |-> m.head, tail |-> m.tail, size |-> m.size]
         /\ m.next \in [Node -> Node \cup {NULL, Freed}] /\ m.head \in [Lists -> Node \cup {NULL}]
         /\ m.tail \in [Lists -> Node \cup {NULL}] /\ m.size \in [Lists -> Nat]
    BY <1>1 DEF Mems
  <2> HIDE DEF s, x, y, z
  <2>11. /\ m1.next = [m.next EXCEPT ![y] = m.next[x], ![x] = NULL] /\ m1.head = m.head
         /\ m1.tail = m.tail /\ m1.size = [m.size EXCEPT ![l] = m.size[l] - 1]
         /\ m1 = [next |-> m1.next, head |-> m1.head, tail |-> m1.tail, size |-> m1.size]
    <3>1. m1 = [m EXCEPT !.next = [m.next EXCEPT ![y] = m.next[x], ![x] = NULL],
                         !.tail = [m.tail EXCEPT ![l] = m.tail[l]],
                         !.size = [m.size EXCEPT ![l] = m.size[l] - 1]]
      BY <2>9, <2>10 DEF Unlink
    <3>2. [m.tail EXCEPT ![l] = m.tail[l]] = m.tail BY <2>10
    <3> HIDE DEF m1
    <3> QED BY <2>10, <3>1, <3>2
  <2>12. /\ m2.next = [m1.next EXCEPT ![z] = x] /\ m2.head = m1.head
         /\ m2.tail = [m1.tail EXCEPT ![l] = x] /\ m2.size = [m1.size EXCEPT ![l] = m1.size[l] + 1]
         /\ m2 = [next |-> m2.next, head |-> m2.head, tail |-> m2.tail, size |-> m2.size]
    <3>1. m1.tail[l] = z BY <2>9, <2>11
    <3> HIDE DEF m1
    <3>2. m2 = [m1 EXCEPT !.next = [m1.next EXCEPT ![z] = x], !.tail = [m1.tail EXCEPT ![l] = x],
                          !.size = [m1.size EXCEPT ![l] = m1.size[l] + 1]]
      BY <2>7, <2>11, <3>1 DEF append_node_to_queue
    <3> HIDE DEF m2
    <3> QED BY <2>11, <3>2
  <2>13. /\ m3.next = [m.next EXCEPT ![y] = m.next[x], ![x] = NULL, ![z] = x] /\ m3.head = m.head
         /\ m3.tail = [m.tail EXCEPT ![l] = x] /\ m3.size = m.size
         /\ m3 = [next |-> m3.next, head |-> m3.head, tail |-> m3.tail, size |-> m3.size]
    <3>1. m3 = [m EXCEPT !.next = [m.next EXCEPT ![y] = m.next[x], ![x] = NULL, ![z] = x],
                         !.tail = [m.tail EXCEPT ![l] = x]]
      BY <2>8, <2>9, <2>10 DEF move_node_to_end
    <3> HIDE DEF m3
    <3> QED BY <2>10, <3>1
  <2> HIDE DEF m1, m2, m3
  <2>14. m2.next = m3.next BY <2>2, <2>5, <2>10, <2>11, <2>12, <2>13
  <2>15. m2.size = m3.size
    <3>1. m1.size[l] + 1 = m.size[l] BY <1>1, <2>10, <2>11
    <3> QED BY <2>10, <2>11, <2>12, <2>13, <3>1
  <2>16. m2.head = m3.head /\ m2.tail = m3.tail BY <2>11, <2>12, <2>13
  <2>17. m2 = m3 BY <2>12, <2>13, <2>14, <2>15, <2>16
  <2> QED BY <2>6, <2>17 DEF m3, s, x
<1> QED BY <1>1, <1>8, <1>9, <1>10, <1>11

\* The last node of a list is freed.
LEMMA RemoveLast ==
    ASSUME NEW m, NEW q, Holds(m, q, {}), NEW l \in Lists, Len(q[l]) = 1
    PROVE  Holds(remove_node_from_LRU(m, l, q[l][1], NULL), [q EXCEPT ![l] = <<>>], {})
<1> DEFINE s == q[l]
           x == s[1]
           m2 == remove_node_from_LRU(m, l, x, NULL)
<1>1. s \in Seq(Node) /\ m \in Mems /\ m.size[l] = 1 /\ DOMAIN s = {1} /\ x \in Node
  <2>1. s \in Seq(Node) /\ m \in Mems /\ m.size[l] = Len(s) BY ListOf DEF Holds
  <2>2. Len(s) = 1 /\ 1 .. 1 = {1} OBVIOUS
  <2> HIDE DEF s
  <2>3. DOMAIN s = 1 .. Len(s) /\ \A i \in 1 .. Len(s) : s[i] \in Node BY <2>1
  <2>4. DOMAIN s = {1} BY <2>2, <2>3
  <2>5. 1 \in 1 .. Len(s) BY <2>2
  <2> QED BY <2>1, <2>2, <2>3, <2>4, <2>5
<1>2. Range(s) = {x} BY <1>1 DEF Range
<1>3. m = [next |-> m.next, head |-> m.head, tail |-> m.tail, size |-> m.size]
      /\ m.next \in [Node -> Node \cup {NULL, Freed}] /\ m.head \in [Lists -> Node \cup {NULL}]
      /\ m.tail \in [Lists -> Node \cup {NULL}] /\ m.size \in [Lists -> Nat]
  BY <1>1 DEF Mems
<1> HIDE DEF s, x
<1>4. /\ m2.next = [m.next EXCEPT ![x] = Freed] /\ m2.head = [m.head EXCEPT ![l] = NULL]
      /\ m2.tail = [m.tail EXCEPT ![l] = NULL] /\ m2.size = [m.size EXCEPT ![l] = 0]
      /\ m2 = [next |-> m2.next, head |-> m2.head, tail |-> m2.tail, size |-> m2.size]
  <2>1. m2 = [m EXCEPT !.next = [m.next EXCEPT ![x] = Freed], !.head = [m.head EXCEPT ![l] = NULL],
                       !.tail = [m.tail EXCEPT ![l] = NULL],
                       !.size = [m.size EXCEPT ![l] = m.size[l] - 1]]
    BY <1>1, <1>3 DEF remove_node_from_LRU
  <2>2. m.size[l] - 1 = 0 BY <1>1
  <2> HIDE DEF m2
  <2> QED BY <1>3, <2>1, <2>2
<1> HIDE DEF m2
<1>5. m2 \in Mems
  <2>1. m2.next \in [Node -> Node \cup {NULL, Freed}] BY <1>3, <1>4
  <2>2. m2.head \in [Lists -> Node \cup {NULL}] /\ m2.tail \in [Lists -> Node \cup {NULL}] BY <1>3, <1>4
  <2>3. m2.size \in [Lists -> Nat] BY <1>3, <1>4
  <2> QED BY <1>4, <2>1, <2>2, <2>3 DEF Mems
<1>6. Chain(m2, l, <<>>) BY <1>3, <1>4, EmptyQueue DEF Chain
<1>7. \A k \in Lists : k # l => m2.head[k] = m.head[k] /\ m2.tail[k] = m.tail[k] /\ m2.size[k] = m.size[k]
  BY <1>3, <1>4
<1>8. m2.next[x] = Freed /\ \A n \in Node : n # x => m2.next[n] = m.next[n] BY <1>1, <1>3, <1>4
<1>9. Holds(m2, [q EXCEPT ![l] = <<>>], {})
  <2> DEFINE e == <<>>
             none == {}
  <2>1. e \in Seq(Node) /\ Chain(m2, l, e) /\ Range(e) = {} BY <1>6, EmptyQueue
  <2>2. /\ Range(e) \cup none \subseteq Range(q[l]) \cup none /\ Range(e) \cap none = {}
        /\ \A n \in (Range(q[l]) \cup none) \ (Range(e) \cup none) : m2.next[n] = Freed
        /\ \A n \in Node : n \notin Range(q[l]) \cup none => m2.next[n] = m.next[n]
    BY <1>2, <1>8, <2>1 DEF s
  <2>3. Holds(m, q, none) /\ \A n \in none : m2.next[n] = NULL OBVIOUS
  <2> HIDE DEF e, none
  <2>4. Holds(m2, [q EXCEPT ![l] = e], none)
    BY ONLY <1>5, <1>7, <2>1, <2>2, <2>3, OneList, l \in Lists, SMTT(30)
  <2> QED BY <2>4 DEF e, none
<1> QED BY <1>9 DEF s, x, m2

\* remove_node_from_LRU of the node at position i behind prev.
LEMMA RemoveHolds ==
    ASSUME NEW m, NEW q, Holds(m, q, {}), NEW l \in Lists, NEW i \in 1 .. Len(q[l]), NEW prev,
           i = 1 => prev = NULL, i # 1 => prev = q[l][i - 1]
    PROVE  Holds(remove_node_from_LRU(m, l, q[l][i], prev), [q EXCEPT ![l] = RemoveAt(q[l], i)], {})
<1> DEFINE s == q[l]
           x == s[i]
           L == Len(s)
           m3 == remove_node_from_LRU(m, l, x, prev)
<1>1. /\ s \in Seq(Node) /\ L \in Nat /\ m \in Mems /\ m.size[l] = L /\ q \in [Lists -> Seq(Node)]
      /\ \A k \in 1 .. L : s[k] \in Node
  BY ListOf DEF Holds, Contents
<1>2. s # <<>> BY <1>1
<1>3. m.head[l] = s[1] BY <1>2, ListOf
<1>4. i \in 1 .. L /\ 1 \in 1 .. L /\ L >= 1 BY <1>1
<1>5. RemoveAt(s, 1) = Tail(s) BY <1>1, <1>4, RemoveEnds
<1>6. m = [next |-> m.next, head |-> m.head, tail |-> m.tail, size |-> m.size]
      /\ m.next \in [Node -> Node \cup {NULL, Freed}] /\ m.head \in [Lists -> Node \cup {NULL}]
      /\ m.tail \in [Lists -> Node \cup {NULL}] /\ m.size \in [Lists -> Nat]
  BY <1>1 DEF Mems
<1>7. x \in Node BY <1>1, <1>4
<1>8. CASE L = 1
  <2>1. i = 1 /\ prev = NULL BY <1>4, <1>8
  <2>2. Holds(remove_node_from_LRU(m, l, s[1], NULL), [q EXCEPT ![l] = <<>>], {}) BY <1>8, RemoveLast
  <2>3. RemoveAt(s, 1) = <<>>
    <3>1. RemoveAt(s, 1) \in Seq(Node) /\ Len(RemoveAt(s, 1)) = L - 1 BY <1>1, <1>4, RemoveAtIs
    <3>2. Len(RemoveAt(s, 1)) = 0 BY <1>8, <3>1
    <3> DEFINE r == RemoveAt(s, 1)
    <3>3. r \in Seq(Node) /\ Len(r) = 0 BY <3>1, <3>2
    <3> HIDE DEF r
    <3>4. r = <<>> BY <3>3
    <3> QED BY <3>4 DEF r
  <2> QED BY <2>1, <2>2, <2>3
<1>9. CASE L # 1 /\ i = 1
  <2> DEFINE m1 == pop_queue(m, l)
             q1 == [q EXCEPT ![l] = Tail(s)]
             m2 == [m1 EXCEPT !.next[x] = Freed]
  <2>1. Holds(m1, q1, {x}) /\ m.head[l] = x BY <1>2, <1>9, PopHolds
  <2>2. Holds(m2, q1, {})
    <3> HIDE DEF m1, q1, x
    <3> QED BY <1>7, <2>1, FreeHolds
  <2>3. q1 = [q EXCEPT ![l] = RemoveAt(s, i)] BY <1>5, <1>9
  <2>4. prev = NULL BY <1>9
  <2>5. m.head[l] = x BY <2>1
  <2> HIDE DEF s, x, L
  <2>6. /\ m1.next = [m.next EXCEPT ![x] = NULL] /\ m1.head = [m.head EXCEPT ![l] = m.next[x]]
        /\ m1.tail = m.tail /\ m1.size = [m.size EXCEPT ![l] = m.size[l] - 1]
        /\ m1 = [next |-> m1.next, head |-> m1.head, tail |-> m1.tail, size |-> m1.size]
    <3>1. m1 = [m EXCEPT !.next = [m.next EXCEPT ![x] = NULL], !.head = [m.head EXCEPT ![l] = m.next[x]],
                         !.size = [m.size EXCEPT ![l] = m.size[l] - 1]]
      BY <1>6, <2>5 DEF pop_queue
    <3> HIDE DEF m1
    <3> QED BY <1>6, <3>1
  <2>7. /\ m2.next = [m1.next EXCEPT ![x] = Freed] /\ m2.head = m1.head /\ m2.tail = m1.tail
        /\ m2.size = m1.size
        /\ m2 = [next |-> m2.next, head |-> m2.head, tail |-> m2.tail, size |-> m2.size]
    <3> HIDE DEF m1
    <3> QED BY <2>6
  <2>8. /\ m3.next = [m.next EXCEPT ![x] = Freed] /\ m3.head = [m.head EXCEPT ![l] = m.next[x]]
        /\ m3.tail = m.tail /\ m3.size = [m.size EXCEPT ![l] = m.size[l] - 1]
        /\ m3 = [next |-> m3.next, head |-> m3.head, tail |-> m3.tail, size |-> m3.size]
    <3>1. m3 = [m EXCEPT !.next = [m.next EXCEPT ![x] = Freed], !.head = [m.head EXCEPT ![l] = m.next[x]],
                         !.size = [m.size EXCEPT ![l] = m.size[l] - 1]]
      BY <1>1, <1>6, <1>9, <2>4 DEF remove_node_from_LRU
    <3> HIDE DEF m3
    <3> QED BY <1>6, <3>1
  <2> HIDE DEF m1, m2, m3
  <2>9. m2.next = m3.next
    <3>1. ASSUME NEW f \in [Node -> Node \cup {NULL, Freed}]
          PROVE  [[f EXCEPT ![x] = NULL] EXCEPT ![x] = Freed] = [f EXCEPT ![x] = Freed]
      OBVIOUS
    <3>2. m2.next = [[m.next EXCEPT ![x] = NULL] EXCEPT ![x] = Freed] BY <2>6, <2>7
    <3> QED BY <1>6, <2>8, <3>1, <3>2
  <2>10. m2 = m3 BY <2>6, <2>7, <2>8, <2>9
  <2> QED BY <2>2, <2>3, <2>10 DEF m3, s, x
<1>10. CASE L # 1 /\ i # 1
  <2> DEFINE y == s[i - 1]
             m1 == Unlink(m, l, x, y)
             q1 == [q EXCEPT ![l] = RemoveAt(s, i)]
             m2 == [m1 EXCEPT !.next[x] = Freed]
             z == IF m.tail[l] = x THEN y ELSE m.tail[l]
  <2>1. i \in 2 .. L BY <1>4, <1>10
  <2>2. Holds(m1, q1, {x}) /\ y \in Node /\ x # y BY <2>1, UnlinkHolds
  <2>3. Holds(m2, q1, {})
    <3> HIDE DEF m1, q1, x
    <3> QED BY <1>7, <2>2, FreeHolds
  <2>4. prev = y /\ prev # NULL BY <1>10, <2>2, LinkedQueuesAssumption
  <2> HIDE DEF s, x, y, L
  <2>5. /\ m1.next = [m.next EXCEPT ![y] = m.next[x], ![x] = NULL] /\ m1.head = m.head
        /\ m1.tail = [m.tail EXCEPT ![l] = z] /\ m1.size = [m.size EXCEPT ![l] = m.size[l] - 1]
        /\ m1 = [next |-> m1.next, head |-> m1.head, tail |-> m1.tail, size |-> m1.size]
    <3>1. m1 = [m EXCEPT !.next = [m.next EXCEPT ![y] = m.next[x], ![x] = NULL],
                         !.tail = [m.tail EXCEPT ![l] = z],
                         !.size = [m.size EXCEPT ![l] = m.size[l] - 1]]
      BY <1>6 DEF Unlink
    <3> HIDE DEF m1, z
    <3> QED BY <1>6, <3>1
  <2>6. /\ m2.next = [m1.next EXCEPT ![x] = Freed] /\ m2.head = m1.head /\ m2.tail = m1.tail
        /\ m2.size = m1.size
        /\ m2 = [next |-> m2.next, head |-> m2.head, tail |-> m2.tail, size |-> m2.size]
    <3> HIDE DEF m1
    <3> QED BY <2>5
  <2>7. /\ m3.next = [m.next EXCEPT ![y] = m.next[x], ![x] = Freed] /\ m3.head = m.head
        /\ m3.tail = [m.tail EXCEPT ![l] = z] /\ m3.size = [m.size EXCEPT ![l] = m.size[l] - 1]
        /\ m3 = [next |-> m3.next, head |-> m3.head, tail |-> m3.tail, size |-> m3.size]
    <3>1. m3 = [m EXCEPT !.next = [m.next EXCEPT ![y] = m.next[x], ![x] = Freed],
                         !.tail = [m.tail EXCEPT ![l] = z],
                         !.size = [m.size EXCEPT ![l] = m.size[l] - 1]]
      BY <1>1, <1>6, <1>10, <2>4 DEF remove_node_from_LRU
    <3> HIDE DEF m3, z
    <3> QED BY <1>6, <3>1
  <2> HIDE DEF m1, m2, m3, z
  <2>8. m2.next = m3.next BY <1>6, <1>7, <2>2, <2>5, <2>6, <2>7, ZenonT(30)
  <2>9. m2 = m3 BY <2>5, <2>6, <2>7, <2>8
  <2> QED BY <2>3, <2>9 DEF m3, s, x
<1> QED BY <1>8, <1>9, <1>10

\* clear_queues frees the nodes of its lists, and no other.
LEMMA ClearHolds ==
    ASSUME NEW m, NEW q, NEW loose, Holds(m, q, loose), NEW ls, ls \subseteq Lists
    PROVE  Holds(clear_queues(m, ls), [l \in Lists |-> IF l \in ls THEN <<>> ELSE q[l]], loose)
<1> DEFINE m2 == clear_queues(m, ls)
           q2 == [l \in Lists |-> IF l \in ls THEN <<>> ELSE q[l]]
           out(n) == \E l \in ls : n \in Range(q[l])
<1>1. m \in Mems /\ q \in Contents /\ Apart(m, q, loose) /\ \A l \in Lists : Chain(m, l, q[l])
  BY DEF Holds
<1>2. /\ m.next \in [Node -> Node \cup {NULL, Freed}] /\ m.head \in [Lists -> Node \cup {NULL}]
      /\ m.tail \in [Lists -> Node \cup {NULL}] /\ m.size \in [Lists -> Nat]
  BY <1>1 DEF Mems
<1>3. \A l \in ls : Walk(m, l) = q[l] /\ q[l] \in Seq(Node)
  <2>1. ASSUME NEW l \in ls PROVE q[l] \in Seq(Node) /\ Chain(m, l, q[l]) /\ l \in Lists
    BY <1>1 DEF Contents
  <2> QED BY <1>1, <2>1, WalkIs
<1>4. \A n : (\E l \in ls : \E i \in DOMAIN Walk(m, l) : Walk(m, l)[i] = n) <=> out(n)
  BY <1>3 DEF Range
<1>5. /\ m2.next = [n \in Node |-> IF out(n) THEN Freed ELSE m.next[n]]
      /\ m2.head = [l \in Lists |-> IF l \in ls THEN NULL ELSE m.head[l]]
      /\ m2.tail = [l \in Lists |-> IF l \in ls THEN NULL ELSE m.tail[l]]
      /\ m2.size = [l \in Lists |-> IF l \in ls THEN 0 ELSE m.size[l]]
      /\ m2 = [next |-> m2.next, head |-> m2.head, tail |-> m2.tail, size |-> m2.size]
  <2> HIDE DEF out
  <2>1. [n \in Node |-> IF \E l \in ls : \E i \in DOMAIN Walk(m, l) : Walk(m, l)[i] = n
                        THEN Freed ELSE m.next[n]]
        = [n \in Node |-> IF out(n) THEN Freed ELSE m.next[n]]
    BY <1>4
  <2> QED BY <2>1 DEF clear_queues
<1> HIDE DEF m2
<1>6. /\ \A n \in Node : m2.next[n] = IF out(n) THEN Freed ELSE m.next[n]
      /\ \A l \in ls : m2.head[l] = NULL /\ m2.size[l] = 0
      /\ \A l \in Lists : l \notin ls => /\ m2.head[l] = m.head[l] /\ m2.tail[l] = m.tail[l]
                                         /\ m2.size[l] = m.size[l]
  <2> HIDE DEF out
  <2> QED BY <1>5
<1>7. m2 \in Mems
  <2> HIDE DEF out
  <2>1. m2.next \in [Node -> Node \cup {NULL, Freed}] BY <1>2, <1>5
  <2>2. m2.head \in [Lists -> Node \cup {NULL}] /\ m2.tail \in [Lists -> Node \cup {NULL}] BY <1>2, <1>5
  <2>3. m2.size \in [Lists -> Nat] BY <1>2, <1>5
  <2> QED BY <1>5, <2>1, <2>2, <2>3 DEF Mems
<1>8. q2 \in Contents
  <2>1. <<>> \in Seq(Node) OBVIOUS
  <2> QED BY <1>1, <2>1 DEF Contents
<1>9. /\ \A l \in ls : q2[l] = <<>> /\ Range(q2[l]) = {}
      /\ \A l \in Lists : l \notin ls => q2[l] = q[l]
      /\ \A l \in Lists : Range(q2[l]) \subseteq Range(q[l])
  BY EmptyQueue
<1> HIDE DEF q2
<1>10. ASSUME NEW l \in Lists PROVE Chain(m2, l, q2[l])
  <2>1. CASE l \in ls
    <3>1. q2[l] = <<>> /\ m2.head[l] = NULL /\ m2.size[l] = 0 BY <1>6, <1>9, <2>1
    <3> QED BY <3>1, EmptyQueue DEF Chain
  <2>2. CASE l \notin ls
    <3> DEFINE s == q[l]
    <3>1. q2[l] = s /\ m2.head[l] = m.head[l] /\ m2.tail[l] = m.tail[l] /\ m2.size[l] = m.size[l]
      BY <1>6, <1>9, <2>2
    <3>2. \A n \in Range(s) : ~out(n) BY <1>1, <2>2 DEF Apart
    <3>3. \A n \in Range(s) : m2.next[n] = m.next[n]
      <4>1. Range(s) \subseteq Node BY ListOf
      <4> HIDE DEF out
      <4> QED BY <1>6, <3>2, <4>1
    <3>4. Len(s) \in Nat /\ \A i \in 1 .. Len(s) : s[i] \in Range(s) BY ListOf
    <3>5. Chain(m, l, s) /\ (s # <<>> => Len(s) \in 1 .. Len(s))
      <4>1. s \in Seq(Node) BY ListOf
      <4> QED BY <1>1, <4>1
    <3> HIDE DEF s
    <3>6. s # <<>> => m2.next[s[Len(s)]] = m.next[s[Len(s)]] BY <3>3, <3>4, <3>5
    <3>7. \A i \in 1 .. Len(s) - 1 : m2.next[s[i]] = m.next[s[i]] BY <3>3, <3>4
    <3>8. Chain(m2, l, s) BY <3>1, <3>5, <3>6, <3>7 DEF Chain
    <3> QED BY <3>1, <3>8
  <2> QED BY <2>1, <2>2
<1>11. Apart(m2, q2, loose)
  <2>1. loose \subseteq Node /\ \A l \in Lists : Range(q[l]) \cap loose = {} BY <1>1 DEF Apart
  <2>2. \A k, l \in Lists : k # l => Range(q2[k]) \cap Range(q2[l]) = {}
    <3>1. \A k, l \in Lists : k # l => Range(q[k]) \cap Range(q[l]) = {} BY <1>1 DEF Apart
    <3> QED BY <1>9, <3>1
  <2>3. \A l \in Lists : Range(q2[l]) \cap loose = {} BY <1>9, <2>1
  <2>4. \A n \in loose : ~out(n) BY <2>1
  <2>5. \A n \in loose : m2.next[n] = NULL
    <3>1. \A n \in loose : m.next[n] = NULL BY <1>1 DEF Apart
    <3> HIDE DEF out
    <3> QED BY <1>6, <2>1, <2>4, <3>1
  <2>6. ASSUME NEW n \in Node
        PROVE  m2.next[n] = Freed <=> n \notin loose /\ \A l \in Lists : n \notin Range(q2[l])
    <3>1. m.next[n] = Freed <=> n \notin loose /\ \A l \in Lists : n \notin Range(q[l])
      BY <1>1 DEF Apart
    <3>2. CASE out(n)
      <4>1. m2.next[n] = Freed BY <1>6, <3>2
      <4>2. n \notin loose BY <2>4, <3>2
      <4>3. PICK k \in ls : n \in Range(q[k]) BY <3>2
      <4>4. \A l \in Lists : l # k => n \notin Range(q[l]) BY <1>1, <4>3 DEF Apart
      <4>5. \A l \in Lists : n \notin Range(q2[l]) BY <1>9, <4>4
      <4> QED BY <4>1, <4>2, <4>5
    <3>3. CASE ~out(n)
      <4>1. m2.next[n] = m.next[n] BY <1>6, <3>3
      <4>2. \A l \in Lists : n \in Range(q[l]) <=> n \in Range(q2[l]) BY <1>9, <3>3
      <4> QED BY <3>1, <4>1, <4>2
    <3> QED BY <3>2, <3>3
  <2> QED BY <2>1, <2>2, <2>3, <2>5, <2>6 DEF Apart
<1>12. Holds(m2, q2, loose) BY <1>7, <1>8, <1>10, <1>11 DEF Holds
<1> QED BY <1>12 DEF m2, q2

-----------------------------------------------------------------------------
(* Loops. *)

\* A part of a sequence.
LEMMA PartIs ==
    ASSUME NEW S, NEW t \in Seq(S), NEW a \in 1 .. Len(t) + 1, NEW b \in 0 .. Len(t), a <= b + 1
    PROVE  /\ SubSeq(t, a, b) \in Seq(S) /\ Len(SubSeq(t, a, b)) = b - a + 1
           /\ \A i \in 1 .. b - a + 1 : SubSeq(t, a, b)[i] = t[a + i - 1]
<1>1. Len(t) \in Nat /\ a \in Int /\ b \in Int OBVIOUS
<1>2. SubSeq(t, a, b) = [i \in 1 .. b - a + 1 |-> t[a + i - 1]] BY <1>1
<1>3. \A i \in 1 .. b - a + 1 : a + i - 1 \in 1 .. Len(t) BY <1>1
<1>4. \A i \in 1 .. b - a + 1 : t[a + i - 1] \in S BY <1>3
<1>5. b - a + 1 \in Nat BY <1>1
<1> DEFINE f == [i \in 1 .. b - a + 1 |-> t[a + i - 1]]
<1>6. f \in Seq(S) /\ Len(f) = b - a + 1 BY <1>4, <1>5
<1> QED BY <1>2, <1>6

\* Sequences with the same elements are the same.
LEMMA SameSeq ==
    ASSUME NEW S, NEW s \in Seq(S), NEW t \in Seq(S), Len(s) = Len(t),
           \A i \in 1 .. Len(s) : s[i] = t[i]
    PROVE  s = t
  OBVIOUS

\* One node leaves the front of t for the end of r.
LEMMA OneOver ==
    ASSUME NEW S, NEW r \in Seq(S), NEW t \in Seq(S), NEW k \in 0 .. Len(t) - 1
    PROVE  /\ SubSeq(t, k + 1, Len(t)) # <<>>
           /\ SubSeq(t, k + 1, Len(t))[1] = t[k + 1] /\ t[k + 1] \in S
           /\ Tail(SubSeq(t, k + 1, Len(t))) = SubSeq(t, k + 2, Len(t))
           /\ Append(r \o SubSeq(t, 1, k), t[k + 1]) = r \o SubSeq(t, 1, k + 1)
<1> DEFINE L == Len(t)
           u == SubSeq(t, k + 1, L)
           v == SubSeq(t, k + 2, L)
           x == SubSeq(t, 1, k)
           y == SubSeq(t, 1, k + 1)
<1>1. L \in Nat /\ k \in Nat /\ k + 1 <= L /\ k + 1 \in 1 .. L OBVIOUS
<1>2. u \in Seq(S) /\ Len(u) = L - k /\ \A i \in 1 .. L - k : u[i] = t[k + i]
  <2>1. k + 1 \in 1 .. L + 1 /\ L \in 0 .. L /\ k + 1 <= L + 1 /\ L - (k + 1) + 1 = L - k BY <1>1
  <2>2. /\ u \in Seq(S) /\ Len(u) = L - (k + 1) + 1
        /\ \A i \in 1 .. L - (k + 1) + 1 : u[i] = t[k + 1 + i - 1]
    BY <2>1, PartIs
  <2>3. \A i \in 1 .. L - k : k + 1 + i - 1 = k + i BY <1>1
  <2> HIDE DEF u, L
  <2> QED BY <2>1, <2>2, <2>3
<1>3. v \in Seq(S) /\ Len(v) = L - k - 1 /\ \A i \in 1 .. L - k - 1 : v[i] = t[k + i + 1]
  <2>1. k + 2 \in 1 .. L + 1 /\ L \in 0 .. L /\ k + 2 <= L + 1 /\ L - (k + 2) + 1 = L - k - 1 BY <1>1
  <2>2. /\ v \in Seq(S) /\ Len(v) = L - (k + 2) + 1
        /\ \A i \in 1 .. L - (k + 2) + 1 : v[i] = t[k + 2 + i - 1]
    BY <2>1, PartIs
  <2>3. \A i \in 1 .. L - k - 1 : k + 2 + i - 1 = k + i + 1 BY <1>1
  <2> HIDE DEF v, L
  <2> QED BY <2>1, <2>2, <2>3
<1>4. x \in Seq(S) /\ Len(x) = k /\ \A i \in 1 .. k : x[i] = t[i]
  <2>1. 1 \in 1 .. L + 1 /\ k \in 0 .. L /\ 1 <= k + 1 /\ k - 1 + 1 = k BY <1>1
  <2>2. x \in Seq(S) /\ Len(x) = k - 1 + 1 /\ \A i \in 1 .. k - 1 + 1 : x[i] = t[1 + i - 1]
    BY <2>1, PartIs
  <2>3. \A i \in 1 .. k : 1 + i - 1 = i BY <1>1
  <2> HIDE DEF x, L
  <2> QED BY <2>1, <2>2, <2>3
<1>5. y \in Seq(S) /\ Len(y) = k + 1 /\ \A i \in 1 .. k + 1 : y[i] = t[i]
  <2>1. 1 \in 1 .. L + 1 /\ k + 1 \in 0 .. L /\ 1 <= k + 1 + 1 /\ k + 1 - 1 + 1 = k + 1 BY <1>1
  <2>2. y \in Seq(S) /\ Len(y) = k + 1 - 1 + 1 /\ \A i \in 1 .. k + 1 - 1 + 1 : y[i] = t[1 + i - 1]
    BY <2>1, PartIs
  <2>3. \A i \in 1 .. k + 1 : 1 + i - 1 = i BY <1>1
  <2> HIDE DEF y, L
  <2> QED BY <2>1, <2>2, <2>3
<1>6. t[k + 1] \in S BY <1>1
<1> HIDE DEF L, u, v, x, y
<1>7. u # <<>> /\ u[1] = t[k + 1]
  <2>1. 1 \in 1 .. L - k BY <1>1
  <2> QED BY <1>2, <2>1
<1>8. Tail(u) = v
  <2>1. Tail(u) \in Seq(S) /\ Len(Tail(u)) = L - k - 1 /\ \A i \in 1 .. L - k - 1 : Tail(u)[i] = u[i + 1]
    BY <1>1, <1>2, <1>7
  <2>2. \A i \in 1 .. L - k - 1 : i + 1 \in 1 .. L - k /\ k + (i + 1) = k + i + 1 BY <1>1
  <2>3. \A i \in 1 .. L - k - 1 : u[i + 1] = t[k + i + 1] BY <1>2, <2>2
  <2> DEFINE tu == Tail(u)
  <2>4. tu \in Seq(S) /\ Len(tu) = Len(v) /\ \A i \in 1 .. Len(tu) : tu[i] = v[i] BY <1>3, <2>1, <2>3
  <2> HIDE DEF tu
  <2>5. tu = v BY <1>3, <2>4, SameSeq
  <2> QED BY <2>5 DEF tu
<1>9. Append(r \o x, t[k + 1]) = r \o y
  <2> DEFINE R == Len(r)
             rx == r \o x
             ry == r \o y
             z == Append(rx, t[k + 1])
  <2>1. R \in Nat OBVIOUS
  <2>2. /\ rx \in Seq(S) /\ Len(rx) = R + k /\ \A i \in 1 .. R : rx[i] = r[i]
        /\ \A i \in 1 .. k : rx[R + i] = x[i]
    <3>1. /\ rx \in Seq(S) /\ Len(rx) = R + Len(x) /\ \A i \in 1 .. R : rx[i] = r[i]
          /\ \A i \in 1 .. Len(x) : rx[R + i] = x[i]
      <4>1. x \in Seq(S) BY <1>4
      <4> QED BY ONLY r \in Seq(S), <4>1, ConcatIs
    <3> HIDE DEF rx, R
    <3> QED BY <1>4, <3>1
  <2>3. /\ ry \in Seq(S) /\ Len(ry) = R + (k + 1) /\ \A i \in 1 .. R : ry[i] = r[i]
        /\ \A i \in 1 .. k + 1 : ry[R + i] = y[i]
    <3>1. /\ ry \in Seq(S) /\ Len(ry) = R + Len(y) /\ \A i \in 1 .. R : ry[i] = r[i]
          /\ \A i \in 1 .. Len(y) : ry[R + i] = y[i]
      <4>1. y \in Seq(S) BY <1>5
      <4> QED BY ONLY r \in Seq(S), <4>1, ConcatIs
    <3> HIDE DEF ry, R
    <3> QED BY <1>5, <3>1
  <2> HIDE DEF rx, ry, R
  <2>4. /\ z \in Seq(S) /\ Len(z) = R + k + 1 /\ z[R + k + 1] = t[k + 1]
        /\ \A i \in 1 .. R + k : z[i] = rx[i]
    BY <1>1, <1>6, <2>1, <2>2
  <2> HIDE DEF z
  <2>5. ASSUME NEW i \in 1 .. R + k + 1 PROVE z[i] = ry[i]
    <3>1. CASE i \in 1 .. R
      <4>1. i \in 1 .. R + k BY <1>1, <2>1, <3>1
      <4> QED BY <2>2, <2>3, <2>4, <3>1, <4>1
    <3>2. CASE i \in R + 1 .. R + k
      <4>1. i \in 1 .. R + k /\ i - R \in 1 .. k /\ i - R \in 1 .. k + 1 /\ R + (i - R) = i
        BY <1>1, <2>1, <3>2
      <4>2. rx[i] = x[i - R] /\ ry[i] = y[i - R] /\ x[i - R] = t[i - R] /\ y[i - R] = t[i - R]
        BY <1>4, <1>5, <2>2, <2>3, <4>1
      <4> QED BY <2>4, <4>1, <4>2
    <3>3. CASE i = R + k + 1
      <4>1. k + 1 \in 1 .. k + 1 /\ R + (k + 1) = i BY <1>1, <2>1, <3>3
      <4>2. ry[i] = y[k + 1] /\ y[k + 1] = t[k + 1] BY <1>5, <2>3, <4>1
      <4> QED BY <2>4, <3>3, <4>2
    <3> QED BY <1>1, <2>1, <3>1, <3>2, <3>3, SMTT(30)
  <2>6. Len(z) = Len(ry) BY <1>1, <2>1, <2>3, <2>4
  <2>7. z = ry BY <2>3, <2>4, <2>5, <2>6, SameSeq
  <2> QED BY <2>7 DEF z, rx, ry
<1> QED BY <1>6, <1>7, <1>8, <1>9 DEF u, v, x, y, L

\* Of a sequence, all and nothing.
LEMMA WholePart ==
    ASSUME NEW S, NEW t \in Seq(S)
    PROVE  /\ SubSeq(t, 1, Len(t)) = t /\ SubSeq(t, Len(t) + 1, Len(t)) = <<>>
           /\ SubSeq(t, 1, 0) = <<>>
<1> DEFINE L == Len(t)
<1>1. L \in Nat OBVIOUS
<1>2. /\ SubSeq(t, 1, L) \in Seq(S) /\ Len(SubSeq(t, 1, L)) = L - 1 + 1
      /\ \A i \in 1 .. L - 1 + 1 : SubSeq(t, 1, L)[i] = t[1 + i - 1]
  BY <1>1, PartIs
<1>3. SubSeq(t, L + 1, L) \in Seq(S) /\ Len(SubSeq(t, L + 1, L)) = L - (L + 1) + 1
  BY <1>1, PartIs
<1>4. SubSeq(t, 1, 0) \in Seq(S) /\ Len(SubSeq(t, 1, 0)) = 0 - 1 + 1
  BY <1>1, PartIs
<1>5. \A z \in Seq(S) : Len(z) = 0 => z = <<>> OBVIOUS
<1>6. L - 1 + 1 = L /\ L - (L + 1) + 1 = 0 /\ 0 - 1 + 1 = 0 /\ \A i \in 1 .. L : 1 + i - 1 = i BY <1>1
<1>7. SubSeq(t, 1, L) = t
  <2> DEFINE z == SubSeq(t, 1, L)
  <2>1. z \in Seq(S) /\ Len(z) = L /\ \A i \in 1 .. L : z[i] = t[i] BY <1>2, <1>6
  <2> HIDE DEF z
  <2>2. z = t BY <2>1, SameSeq
  <2> QED BY <2>2 DEF z
<1> QED BY <1>3, <1>4, <1>5, <1>6, <1>7

\* What WakeTurns computes.
LEMMA WakeSteps ==
    ASSUME NEW m, NEW q, Holds(m, q, {}), NEW w \in WaitQueues
    PROVE  /\ WakeTurns(m, w)[0] = m
           /\ \A i \in 1 .. Cardinality(Node) :
                WakeTurns(m, w)[i] = IF WakeTurns(m, w)[i - 1].head[w] = NULL THEN WakeTurns(m, w)[i - 1]
                                     ELSE Transfer(WakeTurns(m, w)[i - 1], w, "rq")
<1> DEFINE C == Cardinality(Node)
           X == {x \in Mems : \E p \in Contents : Holds(x, p, {})}
           go(x) == IF x.head[w] = NULL THEN x ELSE Transfer(x, w, "rq")
           st == [i \in 1 .. C |-> [x \in X |-> go(x)]]
           val(f, i) == IF i = 0 THEN m ELSE go(f[i - 1])
           body(f) == [i \in 0 .. C |-> val(f, i)]
           k == WakeTurns(m, w)
<1>1. C \in Nat BY LinkedQueuesAssumption, FS_CardinalityType
<1>2. m \in X BY DEF Holds
<1>3. k = CHOOSE g : g = body(g) BY DEF WakeTurns
<1>4. ASSUME NEW x \in X PROVE go(x) \in X
  <2>1. PICK p \in Contents : Holds(x, p, {}) OBVIOUS
  <2>2. w \in Lists /\ "rq" \in Lists /\ w # "rq" BY LinkedQueuesAssumption DEF Lists
  <2>3. CASE x.head[w] = NULL BY <2>3
  <2>4. CASE x.head[w] # NULL
    <3>1. p[w] # <<>> BY <2>1, <2>2, <2>4, ListOf
    <3>2. \E p2 : Holds(Transfer(x, w, "rq"), p2, {}) BY <2>1, <2>2, <3>1, TransferHolds
    <3> QED BY <2>4, <3>2 DEF Holds
  <2> QED BY <2>3, <2>4
<1> HIDE DEF C, X, k
<1>5. st \in [1 .. C -> [X -> X]]
  <2> HIDE DEF go
  <2> QED BY <1>4
<1>6. \A i \in 1 .. C : \A x \in X : st[i][x] = go(x)
  <2> HIDE DEF go
  <2> QED OBVIOUS
<1> HIDE DEF st, go
<1>7. PICK f \in [0 .. C -> X] : f[0] = m /\ \A i \in 1 .. C : f[i] = st[i][f[i - 1]]
  <2>1. HasSteps(X, m, C, st) BY <1>1, <1>2, <1>5, StepsExist
  <2> QED BY <2>1 DEF HasSteps
<1>8. f = body(f)
  <2>1. \A i \in 1 .. C : i - 1 \in 0 .. C /\ f[i - 1] \in X BY <1>1
  <2>2. \A i \in 1 .. C : f[i] = go(f[i - 1]) BY <1>6, <1>7, <2>1
  <2>3. \A i \in 0 .. C : i = 0 \/ i \in 1 .. C BY <1>1
  <2>4. \A i \in 0 .. C : f[i] = val(f, i) BY <1>7, <2>2, <2>3
  <2>5. f = [i \in 0 .. C |-> f[i]] OBVIOUS
  <2> HIDE DEF val
  <2> QED BY <2>4, <2>5, Zenon
<1>9. k = body(k)
  <2> HIDE DEF body
  <2> QED BY <1>3, <1>8
<1>10. \A i \in 0 .. C : k[i] = val(k, i)
  <2> HIDE DEF val
  <2> QED BY <1>9, Zenon
<1>11. k[0] = m BY <1>1, <1>10
<1>12. \A i \in 1 .. C : k[i] = go(k[i - 1])
  <2>1. \A i \in 1 .. C : i \in 0 .. C /\ i # 0 BY <1>1
  <2> QED BY <1>10, <2>1, Zenon
<1> QED BY <1>11, <1>12 DEF C, k, go

\* thread_wakeup of all threads: they follow the ready threads, in their order.
LEMMA WakeAllHolds ==
    ASSUME NEW m, NEW q, Holds(m, q, {}), NEW w \in WaitQueues
    PROVE  Holds(WakeAll(m, w), [q EXCEPT !["rq"] = q["rq"] \o q[w], ![w] = <<>>], {})
<1> DEFINE C == Cardinality(Node)
           r == q["rq"]
           t == q[w]
           L == Len(t)
           at == WakeTurns(m, w)
           least(k) == IF k < L THEN k ELSE L
           Q(k) == [q EXCEPT !["rq"] = r \o SubSeq(t, 1, k), ![w] = SubSeq(t, k + 1, L)]
           T == {k \in 0 .. C : Holds(at[k], Q(least(k)), {})}
<1>1. w \in Lists /\ "rq" \in Lists /\ w # "rq" BY LinkedQueuesAssumption DEF Lists
<1>2. r \in Seq(Node) /\ t \in Seq(Node) /\ L \in Nat /\ L <= C /\ C \in Nat
  <2>1. r \in Seq(Node) BY <1>1, ListOf
  <2>2. t \in Seq(Node) /\ L \in Nat /\ IsInjective(t) BY <1>1, ListOf
  <2> QED BY <2>1, <2>2, LengthBound
<1>3. /\ at[0] = m
      /\ \A i \in 1 .. C : at[i] = IF at[i - 1].head[w] = NULL THEN at[i - 1]
                                   ELSE Transfer(at[i - 1], w, "rq")
  BY WakeSteps
<1>4. q \in Contents BY DEF Holds
<1>5. Q(0) = q
  <2>1. SubSeq(t, 1, 0) = <<>> /\ SubSeq(t, 0 + 1, L) = t BY <1>2, WholePart
  <2>2. r \o <<>> = r BY <1>2
  <2>3. Q(0) = [q EXCEPT !["rq"] = r, ![w] = t] BY <2>1, <2>2
  <2> QED BY <1>1, <1>4, <2>3 DEF Contents
<1>6. Q(L) = [q EXCEPT !["rq"] = r \o t, ![w] = <<>>]
  <2>1. SubSeq(t, 1, L) = t /\ SubSeq(t, L + 1, L) = <<>> BY <1>2, WholePart
  <2> QED BY <2>1
<1>7. ASSUME NEW k \in 0 .. L PROVE Q(k)["rq"] = r \o SubSeq(t, 1, k) /\ Q(k)[w] = SubSeq(t, k + 1, L)
  BY <1>1, <1>4 DEF Contents
<1>8. ASSUME NEW k \in 0 .. L - 1
      PROVE  /\ [Q(k) EXCEPT ![w] = Tail(Q(k)[w]), !["rq"] = Append(Q(k)["rq"], Q(k)[w][1])] = Q(k + 1)
             /\ Q(k)[w] # <<>>
  <2>1. /\ SubSeq(t, k + 1, L) # <<>> /\ SubSeq(t, k + 1, L)[1] = t[k + 1]
        /\ Tail(SubSeq(t, k + 1, L)) = SubSeq(t, k + 2, L)
        /\ Append(r \o SubSeq(t, 1, k), t[k + 1]) = r \o SubSeq(t, 1, k + 1)
    BY <1>2, OneOver, ZenonT(30)
  <2>2. k \in 0 .. L /\ k + 1 \in 0 .. L /\ (k + 1) + 1 = k + 2 BY <1>2
  <2>3. Q(k)["rq"] = r \o SubSeq(t, 1, k) /\ Q(k)[w] = SubSeq(t, k + 1, L) BY <1>7, <2>2
  <2> DEFINE a == SubSeq(t, k + 1, L)
             b == SubSeq(t, k + 2, L)
             c == r \o SubSeq(t, 1, k)
             d == r \o SubSeq(t, 1, k + 1)
  <2>4. Q(k) = [q EXCEPT !["rq"] = c, ![w] = a] /\ Q(k + 1) = [q EXCEPT !["rq"] = d, ![w] = b]
    BY <2>2
  <2>5. Tail(Q(k)[w]) = b /\ Append(Q(k)["rq"], Q(k)[w][1]) = d /\ Q(k)[w] # <<>> BY <2>1, <2>3
  <2> HIDE DEF Q, a, b, c, d
  <2>6. [Q(k) EXCEPT ![w] = b, !["rq"] = d] = Q(k + 1) BY <1>1, <1>4, <2>4 DEF Contents
  <2> QED BY <2>5, <2>6
<1>9. m.size[w] = L BY <1>1, ListOf
<1> HIDE DEF Q, at, C
<1>10. 0 \in T
  <2>1. least(0) = 0 BY <1>2
  <2> QED BY <1>2, <1>3, <1>5, <2>1
<1>11. ASSUME NEW k \in 1 .. C, k - 1 \in T PROVE k \in T
  <2>1. Holds(at[k - 1], Q(least(k - 1)), {}) BY <1>11
  <2>2. at[k] = IF at[k - 1].head[w] = NULL THEN at[k - 1] ELSE Transfer(at[k - 1], w, "rq") BY <1>3
  <2>3. k \in 0 .. C BY <1>2
  <2>4. CASE k - 1 < L
    <3>1. least(k - 1) = k - 1 /\ least(k) = k /\ k - 1 \in 0 .. L - 1 /\ (k - 1) + 1 = k BY <1>2, <2>4
    <3> DEFINE j == k - 1
               p == Q(j)
    <3>2. Holds(at[j], p, {}) /\ j \in 0 .. L - 1 /\ j + 1 = k BY <2>1, <3>1
    <3>3. [p EXCEPT ![w] = Tail(p[w]), !["rq"] = Append(p["rq"], p[w][1])] = Q(k) /\ p[w] # <<>>
      BY <1>8, <3>2
    <3> HIDE DEF j, p
    <3>4. at[j].head[w] # NULL BY <1>1, <3>2, <3>3, ListOf
    <3>5. at[k] = Transfer(at[j], w, "rq") BY <2>2, <3>4 DEF j
    <3>6. Holds(Transfer(at[j], w, "rq"), [p EXCEPT ![w] = Tail(p[w]), !["rq"] = Append(p["rq"], p[w][1])], {})
      BY <1>1, <3>2, <3>3, TransferHolds
    <3> QED BY <2>3, <3>1, <3>3, <3>5, <3>6
  <2>5. CASE ~(k - 1 < L)
    <3>1. least(k - 1) = L /\ least(k) = L /\ L \in 0 .. L BY <1>2, <2>5
    <3>2. Holds(at[k - 1], Q(L), {}) BY <2>1, <3>1
    <3>3. Q(L)[w] = <<>>
      <4>1. Q(L)[w] = SubSeq(t, L + 1, L) BY <1>7, <3>1
      <4> QED BY <1>2, <4>1, WholePart
    <3>4. at[k - 1].head[w] = NULL BY <1>1, <3>2, <3>3, ListOf
    <3> QED BY <2>2, <2>3, <3>1, <3>2, <3>4
  <2> QED BY <2>4, <2>5
<1>12. C \in T
  <2> HIDE DEF T
  <2>1. \A k \in 0 .. C : k \in T BY <1>2, <1>10, <1>11, UpTo
  <2> QED BY <1>2, <2>1
<1>13. Holds(at[C], Q(L), {})
  <2>1. least(C) = L BY <1>2
  <2> QED BY <1>12, <2>1
<1>14. CASE L = 0
  <2>1. Q(L) = q BY <1>5, <1>14
  <2>2. WakeAll(m, w) = m BY <1>9, <1>14 DEF WakeAll
  <2> QED BY <1>6, <2>1, <2>2
<1>15. CASE L # 0
  <2>1. WakeAll(m, w) = at[C] BY <1>9, <1>15 DEF WakeAll, at, C
  <2> QED BY <1>6, <1>13, <2>1
<1> QED BY <1>14, <1>15

\* thread_yield of the thread at position i of the ready queue: prev, found
\* before the caller moved to the end, is still the node before the target.
LEMMA YieldToHolds ==
    ASSUME NEW m, NEW q, Holds(m, q, {}), NEW i \in 2 .. Len(q["rq"])
    PROVE  Holds(yield_to_moves(m, q["rq"][i], q["rq"][i - 1]),
                 [q EXCEPT !["rq"] = <<q["rq"][i]>> \o RemoveAt(Append(Tail(q["rq"]), q["rq"][1]), i - 1)],
                 {})
<1> DEFINE s == q["rq"]
           L == Len(s)
           r == Append(Tail(s), s[1])
           j == i - 1
           m1 == move_head_to_end(m, "rq")
           q1 == [q EXCEPT !["rq"] = r]
<1>1. "rq" \in Lists BY DEF Lists
<1>2. s \in Seq(Node) /\ L \in Nat /\ q \in [Lists -> Seq(Node)] /\ s # <<>>
  <2>1. s \in Seq(Node) /\ L \in Nat /\ q \in [Lists -> Seq(Node)] BY <1>1, ListOf DEF Holds, Contents
  <2> QED BY <2>1
<1>3. L > 1 /\ i \in 2 .. L /\ j \in 1 .. L - 1 /\ j + 1 = i BY <1>2
<1>4. Holds(m1, q1, {}) BY <1>1, <1>3, RotateHolds
<1>5. r \in Seq(Node) /\ Len(r) = L /\ \A k \in 1 .. L - 1 : r[k] = s[k + 1]
  <2>1. /\ Tail(s) \in Seq(Node) /\ Len(Tail(s)) = L - 1
        /\ \A k \in 1 .. L - 1 : Tail(s)[k] = s[k + 1]
    BY <1>2
  <2>2. s[1] \in Node BY <1>2, <1>3
  <2> DEFINE u == Tail(s)
             h == s[1]
  <2>3. u \in Seq(Node) /\ Len(u) = L - 1 /\ h \in Node BY <2>1, <2>2
  <2>4. Len(u) = L - 1 => Append(u, h) \in Seq(Node) /\ Len(Append(u, h)) = L
                          /\ \A k \in 1 .. L - 1 : Append(u, h)[k] = u[k]
    <3> HIDE DEF u, h, L
    <3> QED BY <1>2, <2>3
  <2> QED BY <2>1, <2>3, <2>4
<1>6. q1["rq"] = r /\ [q1 EXCEPT !["rq"] = <<s[i]>> \o RemoveAt(r, j)]
                      = [q EXCEPT !["rq"] = <<s[i]>> \o RemoveAt(r, j)]
  <2> HIDE DEF r, s, j
  <2> QED BY <1>1, <1>2
<1>7. r[j] = s[i] BY <1>3, <1>5
<1> HIDE DEF m1, q1, r
<1>8. CASE i = 2
  <2>1. j = 1 /\ Len(r) >= 1 /\ r # <<>> BY <1>3, <1>5, <1>8
  <2>2. m1.head["rq"] = s[i] BY <1>1, <1>4, <1>6, <1>7, <2>1, ListOf
  <2>3. move_to_head(m1, "rq", s[i], s[i - 1]) = m1 BY <2>2 DEF move_to_head
  <2>4. <<s[i]>> \o RemoveAt(r, j) = r BY <1>5, <1>7, <2>1, RemoveEnds
  <2>5. q1 = [q EXCEPT !["rq"] = r] BY DEF q1
  <2> QED BY <1>4, <2>3, <2>4, <2>5 DEF yield_to_moves, m1, r
<1>9. CASE i # 2
  <2>1. j \in 2 .. Len(r) /\ j - 1 \in 1 .. L - 1 /\ (j - 1) + 1 = j BY <1>3, <1>5, <1>9
  <2>2. r[j - 1] = s[i - 1] BY <1>5, <2>1
  <2>3. Holds(move_to_head(m1, "rq", r[j], r[j - 1]), [q1 EXCEPT !["rq"] = <<r[j]>> \o RemoveAt(r, j)], {})
    <3> HIDE DEF j
    <3> QED BY <1>1, <1>4, <1>6, <2>1, ToHeadHolds
  <2>4. Holds(move_to_head(m1, "rq", s[i], s[i - 1]), [q EXCEPT !["rq"] = <<s[i]>> \o RemoveAt(r, j)], {})
    BY <1>6, <1>7, <2>2, <2>3
  <2> QED BY <2>4 DEF yield_to_moves, m1, r
<1> QED BY <1>8, <1>9

-----------------------------------------------------------------------------
(* cache_evict: while it looks at position e + 1 of the LRU list s, the list *)
(* is what it kept of the first e entries, followed by the rest of s.        *)

\* A sequence a followed by what is behind position e of s.
LEMMA JoinIs ==
    ASSUME NEW S, NEW a \in Seq(S), NEW s \in Seq(S), NEW e \in 0 .. Len(s)
    PROVE  /\ a \o SubSeq(s, e + 1, Len(s)) \in Seq(S)
           /\ Len(a \o SubSeq(s, e + 1, Len(s))) = Len(a) + (Len(s) - e)
           /\ \A k \in 1 .. Len(a) : (a \o SubSeq(s, e + 1, Len(s)))[k] = a[k]
           /\ \A k \in 1 .. Len(s) - e : (a \o SubSeq(s, e + 1, Len(s)))[Len(a) + k] = s[e + k]
<1> DEFINE L == Len(s)
           b == SubSeq(s, e + 1, L)
           z == a \o b
<1>1. L \in Nat /\ e \in Nat /\ e <= L OBVIOUS
<1>2. b \in Seq(S) /\ Len(b) = L - e /\ \A k \in 1 .. L - e : b[k] = s[e + k]
  <2>1. e + 1 \in 1 .. L + 1 /\ L \in 0 .. L /\ e + 1 <= L + 1 /\ L - (e + 1) + 1 = L - e BY <1>1
  <2>2. /\ b \in Seq(S) /\ Len(b) = L - (e + 1) + 1
        /\ \A k \in 1 .. L - (e + 1) + 1 : b[k] = s[e + 1 + k - 1]
    BY <2>1, PartIs
  <2>3. \A k \in 1 .. L - e : e + 1 + k - 1 = e + k BY <1>1
  <2> HIDE DEF b, L
  <2> QED BY <2>1, <2>2, <2>3
<1> HIDE DEF b, L
<1>3. /\ z \in Seq(S) /\ Len(z) = Len(a) + Len(b) /\ \A k \in 1 .. Len(a) : z[k] = a[k]
      /\ \A k \in 1 .. Len(b) : z[Len(a) + k] = b[k]
  <2>1. b \in Seq(S) BY <1>2
  <2> QED BY ONLY a \in Seq(S), <2>1, ConcatIs
<1> HIDE DEF z
<1>4. Len(z) = Len(a) + (L - e) /\ \A k \in 1 .. L - e : z[Len(a) + k] = s[e + k] BY <1>2, <1>3
<1> QED BY <1>3, <1>4 DEF z, b, L

\* The next entry of s is kept, or removed.
LEMMA JoinNext ==
    ASSUME NEW S, NEW a \in Seq(S), NEW s \in Seq(S), NEW e \in 0 .. Len(s) - 1
    PROVE  /\ Append(a, s[e + 1]) \o SubSeq(s, (e + 1) + 1, Len(s)) = a \o SubSeq(s, e + 1, Len(s))
           /\ RemoveAt(a \o SubSeq(s, e + 1, Len(s)), Len(a) + 1) = a \o SubSeq(s, (e + 1) + 1, Len(s))
<1> DEFINE L == Len(s)
           A == Len(a)
           b == Append(a, s[e + 1])
           z == a \o SubSeq(s, e + 1, L)
           y == a \o SubSeq(s, (e + 1) + 1, L)
           x == b \o SubSeq(s, (e + 1) + 1, L)
           r == RemoveAt(z, A + 1)
<1>1. /\ L \in Nat /\ A \in Nat /\ e \in 0 .. L /\ e + 1 \in 0 .. L /\ s[e + 1] \in S
      /\ L - e >= 1 /\ L - (e + 1) = L - e - 1
  OBVIOUS
<1>2. b \in Seq(S) /\ Len(b) = A + 1 /\ b[A + 1] = s[e + 1] /\ \A k \in 1 .. A : b[k] = a[k]
  <2> DEFINE v == s[e + 1]
  <2>1. v \in S BY <1>1
  <2> HIDE DEF v
  <2>2. /\ Append(a, v) \in Seq(S) /\ Len(Append(a, v)) = A + 1 /\ Append(a, v)[A + 1] = v
        /\ \A k \in 1 .. A : Append(a, v)[k] = a[k]
    BY <2>1
  <2> QED BY <2>2 DEF v
<1> HIDE DEF b
<1>3. /\ z \in Seq(S) /\ Len(z) = A + (L - e) /\ \A k \in 1 .. A : z[k] = a[k]
      /\ \A k \in 1 .. L - e : z[A + k] = s[e + k]
  BY ONLY a \in Seq(S), s \in Seq(S), <1>1, JoinIs DEF L, A, z
<1>4. /\ y \in Seq(S) /\ Len(y) = A + (L - (e + 1)) /\ \A k \in 1 .. A : y[k] = a[k]
      /\ \A k \in 1 .. L - (e + 1) : y[A + k] = s[(e + 1) + k]
  <2> DEFINE d == e + 1
  <2>1. d \in 0 .. L BY <1>1
  <2> HIDE DEF d
  <2>2. LET w == a \o SubSeq(s, d + 1, L)
        IN  /\ w \in Seq(S) /\ Len(w) = A + (L - d) /\ \A k \in 1 .. A : w[k] = a[k]
            /\ \A k \in 1 .. L - d : w[A + k] = s[d + k]
    BY ONLY a \in Seq(S), s \in Seq(S), <2>1, JoinIs DEF L, A
  <2> QED BY <2>2 DEF d
<1>5. /\ x \in Seq(S) /\ Len(x) = Len(b) + (L - (e + 1)) /\ \A k \in 1 .. Len(b) : x[k] = b[k]
      /\ \A k \in 1 .. L - (e + 1) : x[Len(b) + k] = s[(e + 1) + k]
  <2> DEFINE d == e + 1
  <2>1. d \in 0 .. L /\ b \in Seq(S) BY <1>1, <1>2
  <2> HIDE DEF d
  <2>2. LET w == b \o SubSeq(s, d + 1, L)
        IN  /\ w \in Seq(S) /\ Len(w) = Len(b) + (L - d) /\ \A k \in 1 .. Len(b) : w[k] = b[k]
            /\ \A k \in 1 .. L - d : w[Len(b) + k] = s[d + k]
    BY ONLY s \in Seq(S), <2>1, JoinIs, SMTT(30) DEF L
  <2> QED BY <2>2 DEF d
<1> HIDE DEF z, y, x, L, A
<1>6. x = z
  <2>1. Len(x) = Len(z) BY <1>1, <1>2, <1>3, <1>5
  <2>2. ASSUME NEW k \in 1 .. Len(x) PROVE x[k] = z[k]
    <3>1. CASE k \in 1 .. A
      <4>1. k \in 1 .. Len(b) BY <1>1, <1>2, <3>1
      <4> QED BY <1>2, <1>3, <1>5, <3>1, <4>1
    <3>2. CASE k = A + 1
      <4>1. k \in 1 .. Len(b) /\ 1 \in 1 .. L - e BY <1>1, <1>2, <3>2
      <4> QED BY <1>2, <1>3, <1>5, <3>2, <4>1
    <3>3. CASE k > A + 1
      <4> DEFINE i == k - A - 1
      <4>1. i \in 1 .. L - (e + 1) /\ k = Len(b) + i /\ i + 1 \in 1 .. L - e /\ k = A + (i + 1)
            /\ (e + 1) + i = e + (i + 1)
        BY <1>1, <1>2, <1>5, <3>3
      <4> HIDE DEF i
      <4>2. x[k] = s[(e + 1) + i] BY <1>5, <4>1
      <4>3. z[k] = s[e + (i + 1)] BY <1>3, <4>1
      <4> QED BY <4>1, <4>2, <4>3
    <3> QED BY <1>1, <1>2, <1>5, <3>1, <3>2, <3>3
  <2> QED BY <1>3, <1>5, <2>1, <2>2, SameSeq
<1>7. r = y
  <2>1. A + 1 \in 1 .. Len(z) BY <1>1, <1>3
  <2>2. /\ r \in Seq(S) /\ Len(r) = Len(z) - 1 /\ \A k \in 1 .. (A + 1) - 1 : r[k] = z[k]
        /\ \A k \in A + 1 .. Len(z) - 1 : r[k] = z[k + 1]
    <3>1. z \in Seq(S) BY <1>3
    <3> QED BY ONLY <2>1, <3>1, RemoveAtIs DEF r
  <2> HIDE DEF r
  <2>3. Len(r) = Len(y) BY <1>1, <1>3, <1>4, <2>2
  <2>4. ASSUME NEW k \in 1 .. Len(r) PROVE r[k] = y[k]
    <3>1. CASE k \in 1 .. A
      <4>1. k \in 1 .. (A + 1) - 1 BY <1>1, <3>1
      <4> QED BY <1>3, <1>4, <2>2, <3>1, <4>1
    <3>2. CASE k > A
      <4> DEFINE i == k - A
      <4>1. i \in 1 .. L - (e + 1) /\ k = A + i /\ k \in A + 1 .. Len(z) - 1 /\ i + 1 \in 1 .. L - e
            /\ k + 1 = A + (i + 1) /\ (e + 1) + i = e + (i + 1)
        BY <1>1, <1>3, <2>2, <3>2
      <4> HIDE DEF i
      <4>2. y[k] = s[(e + 1) + i] BY <1>4, <4>1
      <4>3. r[k] = z[k + 1] BY <2>2, <4>1
      <4>4. z[k + 1] = s[e + (i + 1)] BY <1>3, <4>1
      <4> QED BY <4>1, <4>2, <4>3, <4>4
    <3> QED BY <1>1, <2>2, <3>1, <3>2
  <2> QED BY <1>4, <2>2, <2>3, <2>4, SameSeq
<1> QED BY <1>6, <1>7 DEF x, y, z, r, b, L, A

\* What Kept computes.
LEMMA KeptSteps ==
    ASSUME NEW S, NEW s \in Seq(S), NEW O
    PROVE  /\ Seqs!Kept(s, O) \in [0 .. Len(s) -> Seq(S)]
           /\ Seqs!Kept(s, O)[0] = <<>>
           /\ \A i \in 1 .. Len(s) :
                Seqs!Kept(s, O)[i] = IF i \in O THEN Seqs!Kept(s, O)[i - 1]
                                     ELSE Append(Seqs!Kept(s, O)[i - 1], s[i])
<1> DEFINE L == Len(s)
           X == Seq(S)
           b == <<>>
           go(i, p) == IF i \in O THEN p ELSE Append(p, s[i])
           st == [i \in 1 .. L |-> [p \in X |-> go(i, p)]]
           val(f, i) == IF i = 0 THEN b ELSE go(i, f[i - 1])
           body(f) == [i \in 0 .. L |-> val(f, i)]
           k == Seqs!Kept(s, O)
<1>1. L \in Nat /\ b \in X /\ \A i \in 1 .. L : s[i] \in S OBVIOUS
<1>2. k = CHOOSE g : g = body(g) BY DEF Seqs!Kept
<1>3. ASSUME NEW i \in 1 .. L, NEW p \in X PROVE go(i, p) \in X
  BY <1>1
<1> HIDE DEF L, k, X, b
<1>4. st \in [1 .. L -> [X -> X]]
  <2> HIDE DEF go
  <2> QED BY <1>3
<1>5. \A i \in 1 .. L : \A p \in X : st[i][p] = go(i, p)
  <2> HIDE DEF go
  <2> QED OBVIOUS
<1> HIDE DEF st, go
<1>6. PICK f \in [0 .. L -> X] : f[0] = b /\ \A i \in 1 .. L : f[i] = st[i][f[i - 1]]
  <2>1. HasSteps(X, b, L, st) BY <1>1, <1>4, StepsExist
  <2> QED BY <2>1 DEF HasSteps
<1>7. f = body(f)
  <2>1. \A i \in 1 .. L : i - 1 \in 0 .. L /\ f[i - 1] \in X BY <1>1
  <2>2. \A i \in 1 .. L : f[i] = go(i, f[i - 1]) BY <1>5, <1>6, <2>1
  <2>3. \A i \in 0 .. L : i = 0 \/ i \in 1 .. L BY <1>1
  <2>4. \A i \in 0 .. L : f[i] = val(f, i) BY <1>6, <2>2, <2>3
  <2>5. f = [i \in 0 .. L |-> f[i]] OBVIOUS
  <2> HIDE DEF val
  <2> QED BY <2>4, <2>5, Zenon
<1>8. k = body(k)
  <2> HIDE DEF body
  <2> QED BY <1>2, <1>7
<1>9. (\A i \in 0 .. L : k[i] = val(k, i)) /\ DOMAIN k = 0 .. L
  <2> HIDE DEF val
  <2> QED BY <1>8, Zenon
<1>10. k[0] = b BY <1>1, <1>9
<1>11. \A i \in 1 .. L : k[i] = go(i, k[i - 1])
  <2>1. \A i \in 1 .. L : i \in 0 .. L /\ i # 0 BY <1>1
  <2> QED BY <1>9, <2>1, Zenon
<1>12. k \in [0 .. L -> X]
  <2> DEFINE T == {i \in 0 .. L : k[i] \in X}
  <2>1. 0 \in T BY <1>1, <1>10
  <2>2. ASSUME NEW i \in 1 .. L, i - 1 \in T PROVE i \in T BY <1>1, <1>3, <1>11, <2>2
  <2> HIDE DEF T
  <2>3. \A i \in 0 .. L : i \in T BY <1>1, <2>1, <2>2, UpTo
  <2>4. \A i \in 0 .. L : k[i] \in X BY <2>3 DEF T
  <2>5. k = [i \in 0 .. L |-> k[i]]
    <3> HIDE DEF val
    <3> QED BY <1>8, <1>9
  <2> QED BY <2>4, <2>5
<1> QED BY <1>10, <1>11, <1>12 DEF k, L, X, b, go

\* What is kept of the first e entries is decided by the positions up to e.
LEMMA KeptSame ==
    ASSUME NEW S, NEW s \in Seq(S), NEW e \in 0 .. Len(s), NEW O, NEW P,
           \A i \in 1 .. e : i \in O <=> i \in P
    PROVE  Seqs!Kept(s, O)[e] = Seqs!Kept(s, P)[e]
<1> DEFINE a == Seqs!Kept(s, O)
           b == Seqs!Kept(s, P)
           T == {i \in 0 .. e : a[i] = b[i]}
<1>1. e \in Nat /\ \A i \in 1 .. e : i \in 1 .. Len(s) OBVIOUS
<1>2. /\ a[0] = <<>>
      /\ \A i \in 1 .. Len(s) : a[i] = IF i \in O THEN a[i - 1] ELSE Append(a[i - 1], s[i])
  BY KeptSteps
<1>3. /\ b[0] = <<>>
      /\ \A i \in 1 .. Len(s) : b[i] = IF i \in P THEN b[i - 1] ELSE Append(b[i - 1], s[i])
  BY KeptSteps
<1> HIDE DEF a, b
<1>4. 0 \in T BY <1>1, <1>2, <1>3
<1>5. ASSUME NEW i \in 1 .. e, i - 1 \in T PROVE i \in T BY <1>1, <1>2, <1>3, <1>5
<1> HIDE DEF T
<1>6. \A i \in 0 .. e : i \in T BY <1>1, <1>4, <1>5, UpTo
<1>7. e \in 0 .. e BY <1>1
<1> QED BY <1>6, <1>7 DEF T, a, b

\* If nothing behind position e leaves, the rest of s stays.
LEMMA KeptRest ==
    ASSUME NEW S, NEW s \in Seq(S), NEW e \in 0 .. Len(s), NEW O \in SUBSET (1 .. e)
    PROVE  Seqs!Without(s, O) = Seqs!Kept(s, O)[e] \o SubSeq(s, e + 1, Len(s))
<1> DEFINE L == Len(s)
           a == Seqs!Kept(s, O)
           Same(c) == a[L] = a[c] \o SubSeq(s, c + 1, L)
           T == {i \in 0 .. L - e : Same(L - i)}
<1>1. L \in Nat /\ e \in Nat /\ e <= L /\ L - e \in Nat OBVIOUS
<1>2. /\ a \in [0 .. L -> Seq(S)]
      /\ \A i \in 1 .. L : a[i] = IF i \in O THEN a[i - 1] ELSE Append(a[i - 1], s[i])
  BY KeptSteps
<1>3. a[L] = Seqs!Without(s, O) BY DEF Seqs!Without
<1> HIDE DEF a
<1>4. 0 \in T
  <2>1. L - 0 = L /\ SubSeq(s, L + 1, L) = <<>> BY <1>1, WholePart
  <2>2. a[L] \in Seq(S) BY <1>1, <1>2
  <2>3. a[L] \o <<>> = a[L] BY <2>2
  <2>4. Same(L) BY <2>1, <2>3
  <2> HIDE DEF Same
  <2> QED BY <1>1, <2>1, <2>4
<1>5. ASSUME NEW i \in 1 .. L - e, i - 1 \in T PROVE i \in T
  <2> DEFINE c == L - i
             p == a[c]
  <2>1. c \in 0 .. L - 1 /\ c + 1 \in 1 .. L /\ c + 1 = L - (i - 1) /\ c + 1 > e /\ (c + 1) - 1 = c
    BY <1>1
  <2>2. Same(c + 1)
    <3> HIDE DEF Same, c
    <3> QED BY <1>5, <2>1
  <2>3. c + 1 \notin O BY <1>1, <2>1
  <2>4. a[c + 1] = Append(p, s[c + 1]) /\ p \in Seq(S)
    <3> HIDE DEF c
    <3>1. a[c + 1] = IF c + 1 \in O THEN a[(c + 1) - 1] ELSE Append(a[(c + 1) - 1], s[c + 1])
      BY <1>2, <2>1
    <3>2. c \in 0 .. L BY <1>1, <2>1
    <3>3. a[c] \in Seq(S) BY <1>2, <3>2
    <3>4. a[(c + 1) - 1] = a[c] BY <2>1
    <3> QED BY <2>3, <3>1, <3>3, <3>4
  <2>5. Append(p, s[c + 1]) \o SubSeq(s, (c + 1) + 1, L) = p \o SubSeq(s, c + 1, L)
    <3>1. p \in Seq(S) /\ c \in 0 .. L - 1 BY <2>1, <2>4
    <3> HIDE DEF c, p
    <3> QED BY ONLY s \in Seq(S), <3>1, JoinNext DEF L
  <2>6. Same(c) BY <2>2, <2>4, <2>5
  <2> HIDE DEF Same
  <2> QED BY <1>1, <2>6
<1> HIDE DEF T
<1>6. \A i \in 0 .. L - e : i \in T BY <1>1, <1>4, <1>5, UpTo
<1>7. L - e \in T BY <1>1, <1>6
<1>8. L - (L - e) = e BY <1>1
<1>9. Same(e)
  <2> HIDE DEF Same
  <2> QED BY <1>7, <1>8 DEF T
<1> QED BY <1>3, <1>9 DEF a

\* The loop of cache_evict has looked at e entries, and removed those of O.
EvictAt(t, q, e, O) ==
    LET s == q["lru"]
        a == Seqs!Kept(s, O)[e]
    IN  /\ Holds(t.m, [q EXCEPT !["lru"] = a \o SubSeq(s, e + 1, Len(s))], {})
        /\ t.current = IF e < Len(s) THEN s[e + 1] ELSE NULL
        /\ t.prev = IF a = <<>> THEN NULL ELSE a[Len(a)]

EvictLoop(q) ==
    {t \in [m : Mems, current : Node \cup {NULL}, prev : Node \cup {NULL}, out : Nat] :
        \E e \in 0 .. Len(q["lru"]) : \E O \in SUBSET (1 .. e) : EvictAt(t, q, e, O)}

\* An entry in use is passed.
LEMMA EvictPass ==
    ASSUME NEW q \in Contents, NEW t \in EvictLoop(q), NEW e \in 0 .. Len(q["lru"]),
           NEW O \in SUBSET (1 .. e), EvictAt(t, q, e, O), t.current # NULL
    PROVE  [t EXCEPT !.prev = t.current, !.current = t.m.next[t.current]] \in EvictLoop(q)
<1> DEFINE s == q["lru"]
           L == Len(s)
           a == Seqs!Kept(s, O)[e]
           A == Len(a)
           z == a \o SubSeq(s, e + 1, L)
           p == [q EXCEPT !["lru"] = z]
           x == s[e + 1]
           t2 == [t EXCEPT !.prev = t.current, !.current = t.m.next[t.current]]
           a2 == Seqs!Kept(s, O)[e + 1]
<1>1. "lru" \in Lists /\ s \in Seq(Node) /\ L \in Nat BY DEF Lists, Contents
<1>2. e \in 0 .. L - 1 /\ e + 1 \in 0 .. L /\ e + 1 \in 1 .. L /\ t.current = x /\ (e + 1) - 1 = e
      /\ e + 1 \notin O /\ O \in SUBSET (1 .. e + 1) /\ e \in 0 .. L
  <2>1. e < L /\ t.current = x BY DEF EvictAt
  <2> HIDE DEF x, s
  <2> QED BY <1>1, <2>1
<1>3. x \in Node BY <1>1, <1>2
<1>4. Seqs!Kept(s, O) \in [0 .. L -> Seq(Node)] /\ a2 = Append(a, x)
  <2>1. /\ Seqs!Kept(s, O) \in [0 .. L -> Seq(Node)]
        /\ \A i \in 1 .. L : Seqs!Kept(s, O)[i] = IF i \in O THEN Seqs!Kept(s, O)[i - 1]
                                                  ELSE Append(Seqs!Kept(s, O)[i - 1], s[i])
    BY <1>1, KeptSteps
  <2> QED BY <1>2, <2>1
<1>5. a \in Seq(Node) /\ A \in Nat
  <2>1. a \in Seq(Node) BY <1>2, <1>4
  <2> QED BY <2>1
<1>6. Holds(t.m, p, {}) /\ p["lru"] = z
  <2>1. Holds(t.m, p, {}) BY DEF EvictAt
  <2> QED BY <1>1, <2>1 DEF Contents
<1>7. /\ t.m \in Mems /\ t.out \in Nat /\ t.current \in Node \cup {NULL}
      /\ t = [m |-> t.m, current |-> t.current, prev |-> t.prev, out |-> t.out]
  BY DEF EvictLoop
<1>8. t2 = [m |-> t.m, current |-> t.m.next[x], prev |-> x, out |-> t.out]
  <2> DEFINE nx == t.m.next[t.current]
  <2>1. t2 = [t EXCEPT !.prev = t.current, !.current = nx] OBVIOUS
  <2> HIDE DEF t2, nx
  <2>2. t2.m = t.m /\ t2.current = nx /\ t2.prev = t.current /\ t2.out = t.out BY <1>7, <2>1
  <2>3. t2 = [m |-> t2.m, current |-> t2.current, prev |-> t2.prev, out |-> t2.out] BY <1>7, <2>1
  <2>4. t2 = [m |-> t.m, current |-> nx, prev |-> t.current, out |-> t.out] BY <2>2, <2>3
  <2> HIDE DEF x
  <2> QED BY <1>2, <2>4 DEF nx
<1> HIDE DEF t2
<1>9. a2 \o SubSeq(s, (e + 1) + 1, L) = z
  <2>1. Append(a, s[e + 1]) \o SubSeq(s, (e + 1) + 1, L) = a \o SubSeq(s, e + 1, L)
    <3> HIDE DEF a
    <3> QED BY ONLY <1>1, <1>2, <1>5, JoinNext DEF L
  <2> QED BY <1>4, <2>1
<1>10. /\ z \in Seq(Node) /\ Len(z) = A + (L - e)
       /\ \A k \in 1 .. L - e : z[A + k] = s[e + k]
  <2> HIDE DEF a
  <2> QED BY ONLY <1>1, <1>2, <1>5, JoinIs, SMTT(30) DEF L, A, z
<1>11. t.m.next[x] = IF e + 1 < L THEN s[(e + 1) + 1] ELSE NULL
  <2> DEFINE mm == t.m
  <2>1. /\ z # <<>> => mm.next[z[Len(z)]] = NULL
        /\ \A i \in 1 .. Len(z) - 1 : mm.next[z[i]] = z[i + 1]
    <3>1. Holds(mm, p, {}) /\ p["lru"] = z BY <1>6
    <3> HIDE DEF mm, p, z
    <3>2. /\ p["lru"] # <<>> => mm.next[p["lru"][Len(p["lru"])]] = NULL
          /\ \A i \in 1 .. Len(p["lru"]) - 1 : mm.next[p["lru"][i]] = p["lru"][i + 1]
      BY <1>1, <3>1, ListOf
    <3> QED BY <3>1, <3>2
  <2> HIDE DEF a, A, z, s, L, x, mm
  <2>2. 1 \in 1 .. L - e BY <1>1, <1>2
  <2>3. z[A + 1] = x BY <1>10, <2>2 DEF x
  <2>4. CASE e + 1 < L
    <3>1. A + 1 \in 1 .. Len(z) - 1 /\ 2 \in 1 .. L - e /\ A + 2 = (A + 1) + 1 /\ e + 2 = (e + 1) + 1
      <4>1. e \in Int /\ L \in Int /\ A \in Nat /\ Len(z) = A + (L - e) BY <1>1, <1>2, <1>5, <1>10
      <4> QED BY ONLY <2>4, <4>1
    <3>2. mm.next[z[A + 1]] = z[A + 2] /\ z[A + 2] = s[e + 2] BY <1>10, <2>1, <3>1
    <3> QED BY <2>3, <2>4, <3>1, <3>2 DEF mm
  <2>5. CASE ~(e + 1 < L)
    <3>0. e \in Int /\ L \in Int /\ e <= L - 1 BY <1>1, <1>2
    <3>1. A + 1 = Len(z) /\ Len(z) >= 1 BY <1>5, <1>10, <2>5, <3>0
    <3>2. z # <<>> BY <3>1
    <3> QED BY <2>1, <2>3, <2>5, <3>1, <3>2 DEF mm
  <2> QED BY <2>4, <2>5
<1>12. t.m.next[x] \in Node \cup {NULL}
  <2>1. e + 1 < L => (e + 1) + 1 \in 1 .. L BY <1>1, <1>2
  <2> QED BY <1>1, <1>11, <2>1
<1>13. a2 # <<>> /\ a2[Len(a2)] = x
  <2> HIDE DEF a, x
  <2> QED BY <1>3, <1>4, <1>5
<1>14. EvictAt(t2, q, e + 1, O)
  <2>1. t2.m = t.m /\ t2.current = t.m.next[x] /\ t2.prev = x BY <1>8
  <2>2. Holds(t2.m, [q EXCEPT !["lru"] = a2 \o SubSeq(s, (e + 1) + 1, L)], {}) BY <1>6, <1>9, <2>1
  <2>3. t2.current = IF e + 1 < L THEN s[(e + 1) + 1] ELSE NULL BY <1>11, <2>1
  <2>4. t2.prev = IF a2 = <<>> THEN NULL ELSE a2[Len(a2)] BY <1>13, <2>1
  <2> QED BY <2>2, <2>3, <2>4 DEF EvictAt
<1>15. t2 \in [m : Mems, current : Node \cup {NULL}, prev : Node \cup {NULL}, out : Nat]
  <2> HIDE DEF x
  <2> QED BY <1>3, <1>7, <1>8, <1>12
<1>16. t2 \in EvictLoop(q)
  <2> HIDE DEF EvictAt
  <2> QED BY <1>2, <1>14, <1>15 DEF EvictLoop
<1> QED BY <1>16 DEF t2

\* An entry nobody uses is removed.
LEMMA EvictRemove ==
    ASSUME NEW q \in Contents, NEW t \in EvictLoop(q), NEW e \in 0 .. Len(q["lru"]),
           NEW O \in SUBSET (1 .. e), EvictAt(t, q, e, O), t.current # NULL,
           NEW m2, m2 = remove_node_from_LRU(t.m, "lru", t.current, t.prev)
    PROVE  [m |-> m2, prev |-> t.prev, out |-> t.out + 1,
            current |-> IF t.m.size["lru"] = 1 THEN NULL
                        ELSE IF t.prev = NULL THEN m2.head["lru"]
                        ELSE m2.next[t.prev]] \in EvictLoop(q)
<1> DEFINE s == q["lru"]
           L == Len(s)
           a == Seqs!Kept(s, O)[e]
           A == Len(a)
           z == a \o SubSeq(s, e + 1, L)
           y == a \o SubSeq(s, (e + 1) + 1, L)
           p == [q EXCEPT !["lru"] = z]
           p2 == [q EXCEPT !["lru"] = y]
           x == s[e + 1]
           O2 == O \cup {e + 1}
           cur == IF t.m.size["lru"] = 1 THEN NULL ELSE IF t.prev = NULL THEN m2.head["lru"]
                  ELSE m2.next[t.prev]
           t2 == [m |-> m2, prev |-> t.prev, out |-> t.out + 1, current |-> cur]
<1>1. "lru" \in Lists /\ s \in Seq(Node) /\ L \in Nat BY DEF Lists, Contents
<1>2. e \in 0 .. L - 1 /\ e + 1 \in 0 .. L /\ e + 1 \in 1 .. L /\ t.current = x /\ (e + 1) - 1 = e
      /\ O2 \in SUBSET (1 .. e + 1) /\ e \in 0 .. L
  <2>1. e < L /\ t.current = x BY DEF EvictAt
  <2> HIDE DEF x, s
  <2> QED BY <1>1, <2>1
<1>3. a \in Seq(Node) /\ A \in Nat
  <2>1. Seqs!Kept(s, O) \in [0 .. L -> Seq(Node)] BY <1>1, KeptSteps
  <2>2. a \in Seq(Node) BY <1>2, <2>1
  <2> QED BY <2>2
<1>4. Seqs!Kept(s, O2)[e + 1] = a
  <2>1. \A i \in 1 .. L : Seqs!Kept(s, O2)[i] = IF i \in O2 THEN Seqs!Kept(s, O2)[i - 1]
                                                ELSE Append(Seqs!Kept(s, O2)[i - 1], s[i])
    BY <1>1, KeptSteps
  <2>2. Seqs!Kept(s, O2)[e + 1] = Seqs!Kept(s, O2)[e] BY <1>2, <2>1
  <2>3. \A i \in 1 .. e : i \in O <=> i \in O2 BY <1>2
  <2>4. Seqs!Kept(s, O)[e] = Seqs!Kept(s, O2)[e]
    <3> HIDE DEF O2
    <3> QED BY ONLY <1>1, <1>2, <2>3, KeptSame DEF L
  <2> QED BY <2>2, <2>4
<1>5. Holds(t.m, p, {}) /\ p["lru"] = z /\ t.prev = IF a = <<>> THEN NULL ELSE a[A]
  <2>1. Holds(t.m, p, {}) /\ t.prev = IF a = <<>> THEN NULL ELSE a[A] BY DEF EvictAt
  <2> QED BY <1>1, <2>1 DEF Contents
<1>6. t.m \in Mems /\ t.out \in Nat /\ t.prev \in Node \cup {NULL} BY DEF EvictLoop
<1>7. /\ z \in Seq(Node) /\ Len(z) = A + (L - e) /\ \A k \in 1 .. A : z[k] = a[k]
      /\ \A k \in 1 .. L - e : z[A + k] = s[e + k]
  <2> HIDE DEF a
  <2> QED BY ONLY <1>1, <1>2, <1>3, JoinIs, SMTT(30) DEF L, A, z
<1>8. /\ y \in Seq(Node) /\ Len(y) = A + (L - (e + 1)) /\ \A k \in 1 .. A : y[k] = a[k]
      /\ \A k \in 1 .. L - (e + 1) : y[A + k] = s[(e + 1) + k]
  <2> DEFINE d == e + 1
             w == a \o SubSeq(s, d + 1, L)
  <2>1. d \in 0 .. L BY <1>2
  <2> HIDE DEF a, d, s
  <2>2. /\ w \in Seq(Node) /\ Len(w) = A + (L - d) /\ \A k \in 1 .. A : w[k] = a[k]
        /\ \A k \in 1 .. L - d : w[A + k] = s[d + k]
    <3>1. s \in Seq(Node) /\ a \in Seq(Node) /\ d \in 0 .. Len(s) BY <1>1, <1>3, <2>1
    <3> QED BY ONLY <3>1, JoinIs DEF L, A, w
  <2> QED BY <2>2 DEF d
<1>9. RemoveAt(z, A + 1) = y
  <2> HIDE DEF a
  <2> QED BY ONLY <1>1, <1>2, <1>3, JoinNext DEF L, A, z, y
<1>10. [p EXCEPT !["lru"] = y] = p2
  <2> HIDE DEF z, y, s
  <2> QED BY <1>1 DEF Contents
<1>11. a = <<>> <=> A = 0 BY <1>3
<1> HIDE DEF a, A, z, y, p, p2, s, L, O2
<1>12. z[A + 1] = x
  <2>1. 1 \in 1 .. L - e BY <1>1, <1>2
  <2> QED BY <1>7, <2>1 DEF x
<1>13. A + 1 \in 1 .. Len(z) BY <1>1, <1>2, <1>3, <1>7
<1>14. (A + 1 = 1 => t.prev = NULL) /\ (A + 1 # 1 => t.prev = z[(A + 1) - 1])
  <2>1. CASE A = 0 BY <1>5, <1>11, <2>1
  <2>2. CASE A # 0
    <3>1. A \in 1 .. A /\ (A + 1) - 1 = A /\ A + 1 # 1 BY <1>3, <2>2
    <3>2. t.prev = a[A] BY <1>5, <1>11, <2>2
    <3> QED BY <1>7, <3>1, <3>2
  <2> QED BY <2>1, <2>2
<1>15. Holds(m2, p2, {})
  <2> DEFINE i == A + 1
             mm == t.m
             prev == t.prev
  <2>1. /\ Holds(mm, p, {}) /\ i \in 1 .. Len(p["lru"]) /\ (i = 1 => prev = NULL)
        /\ (i # 1 => prev = p["lru"][i - 1])
    BY <1>5, <1>13, <1>14
  <2>2. m2 = remove_node_from_LRU(mm, "lru", p["lru"][i], prev) BY <1>2, <1>5, <1>12
  <2>3. [p EXCEPT !["lru"] = RemoveAt(p["lru"], i)] = p2 BY <1>5, <1>9, <1>10
  <2> HIDE DEF i, mm, prev
  <2>4. Holds(remove_node_from_LRU(mm, "lru", p["lru"][i], prev),
              [p EXCEPT !["lru"] = RemoveAt(p["lru"], i)], {})
    BY <1>1, <2>1, RemoveHolds
  <2> QED BY <2>2, <2>3, <2>4
<1>16. p2["lru"] = y BY <1>1 DEF p2, Contents
<1>17. t.m.size["lru"] = Len(z)
  <2> DEFINE mm == t.m
  <2>1. Holds(mm, p, {}) BY <1>5
  <2> HIDE DEF mm
  <2>2. mm.size["lru"] = Len(p["lru"]) BY <1>1, <2>1, ListOf
  <2> QED BY <1>5, <2>2 DEF mm
<1>18. /\ y # <<>> => m2.head["lru"] = y[1] /\ m2.next[y[Len(y)]] = NULL
       /\ \A i \in 1 .. Len(y) - 1 : m2.next[y[i]] = y[i + 1]
  <2>1. p2["lru"] # <<>> => /\ m2.head["lru"] = p2["lru"][1]
                            /\ m2.next[p2["lru"][Len(p2["lru"])]] = NULL
    BY ONLY <1>1, <1>15, ListOf
  <2>2. \A i \in 1 .. Len(p2["lru"]) - 1 : m2.next[p2["lru"][i]] = p2["lru"][i + 1]
    BY ONLY <1>1, <1>15, ListOf
  <2> QED BY <1>16, <2>1, <2>2
<1>19. cur = IF e + 1 < L THEN s[(e + 1) + 1] ELSE NULL
  <2>0. e \in Int /\ L \in Int /\ e <= L - 1 /\ A \in Nat BY <1>1, <1>2, <1>3
  <2>1. CASE Len(z) = 1
    <3>0. A + (L - e) = 1 BY <1>7, <2>1
    <3>1. ~(e + 1 < L) BY <2>0, <3>0
    <3> QED BY <1>17, <2>1, <3>1
  <2>2. CASE Len(z) # 1 /\ A = 0
    <3>1. e + 1 < L /\ Len(y) >= 1 /\ 1 \in 1 .. L - (e + 1) /\ A + 1 = 1 BY <1>7, <1>8, <2>0, <2>2
    <3>2. y[1] = s[(e + 1) + 1] BY <1>8, <3>1
    <3>3. y # <<>> BY <3>1
    <3>4. t.prev = NULL BY <1>5, <1>11, <2>2
    <3> QED BY <1>17, <1>18, <2>2, <3>1, <3>2, <3>3, <3>4
  <2>3. CASE Len(z) # 1 /\ A # 0
    <3>1. A \in 1 .. A /\ A >= 1 BY <2>0, <2>3
    <3>2. t.prev = a[A] /\ a[A] = y[A] /\ a[A] = z[A] BY <1>5, <1>7, <1>8, <1>11, <2>3, <3>1
    <3>3. z[A] \in Node
      <4>1. A \in 1 .. Len(z) BY <1>7, <2>0, <3>1
      <4> QED BY <1>7, <4>1
    <3>4. t.prev # NULL BY <3>2, <3>3, LinkedQueuesAssumption
    <3>5. cur = m2.next[y[A]] BY <1>17, <2>3, <3>2, <3>4
    <3>6. CASE e + 1 < L
      <4>1. A \in 1 .. Len(y) - 1 /\ 1 \in 1 .. L - (e + 1) BY <1>8, <2>0, <3>1, <3>6
      <4>2. m2.next[y[A]] = y[A + 1] BY <1>18, <4>1
      <4>3. y[A + 1] = s[(e + 1) + 1] BY <1>8, <4>1
      <4> QED BY <3>5, <3>6, <4>2, <4>3
    <3>7. CASE ~(e + 1 < L)
      <4>1. Len(y) = A BY <1>8, <2>0, <3>7
      <4>2. y # <<>> BY <3>1, <4>1
      <4> QED BY <1>18, <3>5, <3>7, <4>1, <4>2
    <3> QED BY <3>6, <3>7
  <2> QED BY <2>1, <2>2, <2>3
<1>20. cur \in Node \cup {NULL}
  <2>1. e + 1 < L => (e + 1) + 1 \in 1 .. L BY <1>1, <1>2
  <2>2. \A i \in 1 .. L : s[i] \in Node BY <1>1 DEF L
  <2> HIDE DEF cur
  <2> QED BY <1>19, <2>1, <2>2
<1> HIDE DEF cur
<1>21. EvictAt(t2, q, e + 1, O2)
  <2>1. t2.m = m2 /\ t2.current = cur /\ t2.prev = t.prev OBVIOUS
  <2>2. Holds(t2.m, [q EXCEPT !["lru"] = Seqs!Kept(s, O2)[e + 1] \o SubSeq(s, (e + 1) + 1, L)], {})
    BY <1>4, <1>15, <2>1 DEF p2, y
  <2>3. t2.current = IF e + 1 < L THEN s[(e + 1) + 1] ELSE NULL BY <1>19, <2>1
  <2> DEFINE b == Seqs!Kept(s, O2)[e + 1]
  <2>4. t2.prev = IF b = <<>> THEN NULL ELSE b[Len(b)] BY <1>4, <1>5, <2>1 DEF A
  <2> QED BY <2>2, <2>3, <2>4 DEF EvictAt, s, L
<1>22. t2 \in [m : Mems, current : Node \cup {NULL}, prev : Node \cup {NULL}, out : Nat]
  <2>1. m2 \in Mems BY <1>15 DEF Holds
  <2> QED BY <1>6, <1>20, <2>1
<1>23. t2 \in EvictLoop(q)
  <2> HIDE DEF t2
  <2>1. e + 1 \in 0 .. Len(q["lru"]) BY <1>2 DEF L, s
  <2> QED BY <1>2, <1>21, <1>22, <2>1 DEF EvictLoop
<1> QED BY <1>23 DEF cur

\* A turn of the loop.
LEMMA EvictTurn ==
    ASSUME NEW q \in Contents, NEW t \in EvictLoop(q), NEW busy, NEW amount
    PROVE  evict_turn(t, busy, amount) \in EvictLoop(q)
<1>1. PICK e \in 0 .. Len(q["lru"]) : \E O \in SUBSET (1 .. e) : EvictAt(t, q, e, O) BY DEF EvictLoop
<1>2. PICK O \in SUBSET (1 .. e) : EvictAt(t, q, e, O) BY <1>1
<1>3. CASE t.current = NULL \/ t.out = amount BY <1>3 DEF evict_turn
<1>4. CASE t.current # NULL /\ t.out # amount /\ t.current \in busy
  <2>1. evict_turn(t, busy, amount) = [t EXCEPT !.prev = t.current, !.current = t.m.next[t.current]]
    BY <1>4 DEF evict_turn
  <2>2. [t EXCEPT !.prev = t.current, !.current = t.m.next[t.current]] \in EvictLoop(q)
    BY <1>2, <1>4, EvictPass
  <2> QED BY <2>1, <2>2
<1>5. CASE t.current # NULL /\ t.out # amount /\ t.current \notin busy
  <2> DEFINE m2 == remove_node_from_LRU(t.m, "lru", t.current, t.prev)
             t2 == [m |-> m2, prev |-> t.prev, out |-> t.out + 1,
                    current |-> IF t.m.size["lru"] = 1 THEN NULL
                                ELSE IF t.prev = NULL THEN m2.head["lru"]
                                ELSE m2.next[t.prev]]
  <2>1. evict_turn(t, busy, amount) = t2 BY <1>5 DEF evict_turn
  <2>2. t2 \in EvictLoop(q)
    <3>1. m2 = remove_node_from_LRU(t.m, "lru", t.current, t.prev) OBVIOUS
    <3> HIDE DEF m2
    <3> QED BY <1>2, <1>5, <3>1, EvictRemove
  <2> QED BY <2>1, <2>2
<1> QED BY <1>3, <1>4, <1>5

\* cache_evict removes entries of the list, and leaves the others in their order.
LEMMA EvictHolds ==
    ASSUME NEW m, NEW q, Holds(m, q, {}), NEW busy, NEW amount
    PROVE  \E e \in 0 .. Len(q["lru"]) : \E O \in SUBSET (1 .. e) :
               Holds(cache_evict(m, busy, amount), [q EXCEPT !["lru"] = Seqs!Without(q["lru"], O)], {})
<1> DEFINE C == Cardinality(Node)
           X == EvictLoop(q)
           b == [m |-> m, current |-> m.head["lru"], prev |-> NULL, out |-> 0]
           go(t) == evict_turn(t, busy, amount)
           st == [i \in 1 .. C |-> [t \in X |-> go(t)]]
           val(f, i) == IF i = 0 THEN b ELSE go(f[i - 1])
           body(f) == [i \in 0 .. C |-> val(f, i)]
           k == EvictTurns(m, busy, amount)
           s == q["lru"]
<1>1. C \in Nat BY LinkedQueuesAssumption, FS_CardinalityType
<1>2. /\ q \in Contents /\ m \in Mems /\ "lru" \in Lists /\ s \in Seq(Node) /\ Len(s) \in Nat
      /\ \A i \in 1 .. Len(s) : s[i] \in Node
  BY ListOf DEF Holds, Lists
<1>3. b \in X
  <2>1. Seqs!Kept(s, {})[0] = <<>> BY <1>2, KeptSteps
  <2>2. SubSeq(s, 0 + 1, Len(s)) = s BY <1>2, WholePart
  <2>3. <<>> \o s = s BY <1>2
  <2>4. [q EXCEPT !["lru"] = s] = q BY <1>2 DEF Contents
  <2>5. b.m = m /\ b.current = m.head["lru"] /\ b.prev = NULL OBVIOUS
  <2>6. m.head["lru"] = IF 0 < Len(s) THEN s[0 + 1] ELSE NULL
    <3>1. CASE s = <<>> BY <1>2, <3>1, ListOf
    <3>2. CASE s # <<>>
      <4>1. m.head["lru"] = s[1] BY <1>2, <3>2, ListOf
      <4>2. Len(s) > 0 BY <1>2, <3>2
      <4> QED BY <4>1, <4>2
    <3> QED BY <3>1, <3>2
  <2>7. m.head["lru"] \in Node \cup {NULL} BY <1>2 DEF Mems
  <2>8. b \in [m : Mems, current : Node \cup {NULL}, prev : Node \cup {NULL}, out : Nat]
    BY <1>2, <2>7
  <2>9. EvictAt(b, q, 0, {})
    <3> DEFINE a == Seqs!Kept(s, {})[0]
    <3>1. Holds(b.m, [q EXCEPT !["lru"] = a \o SubSeq(s, 0 + 1, Len(s))], {})
      BY <2>1, <2>2, <2>3, <2>4, <2>5
    <3>2. b.current = IF 0 < Len(s) THEN s[0 + 1] ELSE NULL BY <2>5, <2>6
    <3>3. b.prev = IF a = <<>> THEN NULL ELSE a[Len(a)] BY <2>1, <2>5
    <3> QED BY <3>1, <3>2, <3>3 DEF EvictAt
  <2>10. 0 \in 0 .. Len(q["lru"]) /\ {} \in SUBSET (1 .. 0) BY <1>2
  <2> HIDE DEF b
  <2> QED BY <2>8, <2>9, <2>10 DEF EvictLoop
<1>4. k = CHOOSE g : g = body(g) BY DEF EvictTurns
<1>5. ASSUME NEW t \in X PROVE go(t) \in X BY <1>2, EvictTurn
<1> HIDE DEF C, X, k, b
<1>6. st \in [1 .. C -> [X -> X]]
  <2> HIDE DEF go
  <2> QED BY <1>5
<1>7. \A i \in 1 .. C : \A t \in X : st[i][t] = go(t)
  <2> HIDE DEF go
  <2> QED OBVIOUS
<1> HIDE DEF st, go
<1>8. PICK f \in [0 .. C -> X] : f[0] = b /\ \A i \in 1 .. C : f[i] = st[i][f[i - 1]]
  <2>1. HasSteps(X, b, C, st) BY <1>1, <1>3, <1>6, StepsExist
  <2> QED BY <2>1 DEF HasSteps
<1>9. f = body(f)
  <2>1. \A i \in 1 .. C : i - 1 \in 0 .. C /\ f[i - 1] \in X BY <1>1
  <2>2. \A i \in 1 .. C : f[i] = go(f[i - 1]) BY <1>7, <1>8, <2>1
  <2>3. \A i \in 0 .. C : i = 0 \/ i \in 1 .. C BY <1>1
  <2>4. \A i \in 0 .. C : f[i] = val(f, i) BY <1>8, <2>2, <2>3
  <2>5. f = [i \in 0 .. C |-> f[i]] OBVIOUS
  <2> HIDE DEF val
  <2> QED BY <2>4, <2>5, Zenon
<1>10. k = body(k)
  <2> HIDE DEF body
  <2> QED BY <1>4, <1>9
<1>11. \A i \in 0 .. C : k[i] = val(k, i)
  <2> HIDE DEF val
  <2> QED BY <1>10, Zenon
<1>12. k[C] \in X
  <2> DEFINE T == {i \in 0 .. C : k[i] \in X}
  <2>1. 0 \in T BY <1>1, <1>3, <1>11
  <2>2. ASSUME NEW i \in 1 .. C, i - 1 \in T PROVE i \in T
    <3>1. i \in 0 .. C /\ i # 0 BY <1>1
    <3>2. k[i] = go(k[i - 1]) BY <1>11, <3>1
    <3>3. k[i - 1] \in X BY <2>2
    <3> QED BY <1>5, <3>1, <3>2, <3>3
  <2> HIDE DEF T
  <2>3. \A i \in 0 .. C : i \in T BY <1>1, <2>1, <2>2, UpTo
  <2>4. C \in T BY <1>1, <2>3
  <2> QED BY <2>4 DEF T
<1>13. PICK e \in 0 .. Len(s) : \E O \in SUBSET (1 .. e) : EvictAt(k[C], q, e, O)
  BY <1>12 DEF X, EvictLoop
<1>14. PICK O \in SUBSET (1 .. e) : EvictAt(k[C], q, e, O) BY <1>13
<1>15. Holds(k[C].m, [q EXCEPT !["lru"] = Seqs!Kept(s, O)[e] \o SubSeq(s, e + 1, Len(s))], {})
  BY <1>14 DEF EvictAt
<1>16. Seqs!Kept(s, O)[e] \o SubSeq(s, e + 1, Len(s)) = Seqs!Without(s, O)
  <2>1. s \in Seq(Node) BY <1>2
  <2> HIDE DEF s
  <2> QED BY <1>13, <1>14, <2>1, KeptRest
<1>17. cache_evict(m, busy, amount) = k[C].m BY DEF cache_evict, k, C
<1> QED BY <1>13, <1>14, <1>15, <1>16, <1>17

-----------------------------------------------------------------------------
(* The specification. *)

\* What the lists hold.
Held == [l \in Lists |-> Walk(mem, l)]

\* Every list is a chain of its own nodes, and no node is loose between calls.
IInv == Holds(mem, Held, {})

\* The lists hold what an operation says they do.
LEMMA HeldNext ==
    ASSUME NEW q, Holds(mem', q, {})
    PROVE  Held' = q /\ IInv'
<1>1. q = [l \in Lists |-> Walk(mem', l)] BY WalkHolds
<1>2. Held' = q BY <1>1 DEF Held
<1> QED BY <1>2 DEF IInv

\* The invariant types the memory and what its lists hold.
LEMMA HeldIs == ASSUME IInv PROVE Held \in Contents /\ mem \in Mems BY DEF IInv, Holds

\* The lists of one side of the mapping are those of the other.
LEMMA SameLists == Seqs!Lists = Lists BY DEF Seqs!Lists, Lists

\* thread_create: a node behind the ready threads.
LEMMA DoesCreate ==
    ASSUME IInv, create PROVE IInv' /\ Seqs!Create
<1>1. PICK n \in ThreadNodes : mem.next[n] = Freed /\ mem' = append_to_queue(mem, "rq", n) BY DEF create
<1>2. n \in Node /\ "rq" \in Lists BY DEF Node, Lists
<1>3. Holds(mem', [Held EXCEPT !["rq"] = Append(Held["rq"], n)], {}) BY <1>1, <1>2, NewHolds DEF IInv
<1>4. IInv' /\ Held' = [Held EXCEPT !["rq"] = Append(Held["rq"], n)] BY <1>3, HeldNext
<1>5. n \in Seqs!Free(ThreadNodes)
  <2>1. \A l \in Lists : n \notin Range(Held[l]) BY <1>1, <1>2 DEF IInv, Holds, Apart
  <2> QED BY <2>1, SameLists DEF Seqs!Free, Seqs!ToSet, Range, Held
<1> QED BY <1>4, <1>5 DEF Seqs!Create, Held

\* thread_yield(THREAD_ANY).
LEMMA DoesYieldAny ==
    ASSUME IInv, yield_any PROVE IInv' /\ Seqs!YieldAny
<1>1. "rq" \in Lists BY DEF Lists
<1>2. Len(Held["rq"]) > 1 BY <1>1, ListOf DEF IInv, yield_any
<1>3. Holds(mem', [Held EXCEPT !["rq"] = Append(Tail(Held["rq"]), Held["rq"][1])], {})
  BY <1>1, <1>2, RotateHolds DEF IInv, yield_any
<1>4. IInv' /\ Held' = [Held EXCEPT !["rq"] = Append(Tail(Held["rq"]), Held["rq"][1])] BY <1>3, HeldNext
<1>5. Head(Held["rq"]) = Held["rq"][1] OBVIOUS
<1> QED BY <1>2, <1>4, <1>5 DEF Seqs!YieldAny, Seqs!Rotate, Held

\* thread_yield(tid).
LEMMA DoesYieldTo ==
    ASSUME IInv, NEW target \in ThreadNodes, thread_yield(target) PROVE IInv' /\ Seqs!YieldTo
<1> DEFINE s == Held["rq"]
<1>1. "rq" \in Lists BY DEF Lists
<1>2. s = Walk(mem, "rq") /\ DOMAIN s = 1 .. Len(s) /\ Len(s) \in Nat
  BY <1>1, ListOf DEF IInv, Held
<1>3. PICK i \in 2 .. Len(s) : s[i] = target
  <2>1. PICK i \in DOMAIN s : i > 1 /\ s[i] = target BY <1>2 DEF thread_yield
  <2> QED BY <1>2, <2>1
<1>4. i \in 1 .. Len(s) /\ i # 1 BY <1>2, <1>3
<1>5. find_prev(mem, "rq", target) = s[i - 1] BY <1>1, <1>3, <1>4, FindPrev DEF IInv
<1>6. Holds(mem', [Held EXCEPT !["rq"] = <<s[i]>> \o RemoveAt(Append(Tail(s), s[1]), i - 1)], {})
  BY <1>3, <1>5, YieldToHolds DEF IInv, thread_yield
<1>7. IInv' /\ Held' = [Held EXCEPT !["rq"] = <<s[i]>> \o RemoveAt(Append(Tail(s), s[1]), i - 1)]
  BY <1>6, HeldNext
<1>8. Seqs!RemoveAt(Seqs!Rotate(s), i - 1) = RemoveAt(Append(Tail(s), s[1]), i - 1)
  <2> DEFINE u == Append(Tail(s), s[1])
  <2>1. Seqs!Rotate(s) = u BY DEF Seqs!Rotate
  <2> HIDE DEF u
  <2>2. Seqs!RemoveAt(u, i - 1) = RemoveAt(u, i - 1) BY DEF Seqs!RemoveAt, RemoveAt
  <2> QED BY <2>1, <2>2 DEF u
<1> QED BY <1>7, <1>8 DEF Seqs!YieldTo, Held

\* thread_sleep.
LEMMA DoesSleep ==
    ASSUME IInv, NEW w \in WaitQueues, thread_sleep(w) PROVE IInv' /\ Seqs!Sleep
<1> DEFINE s == Held["rq"]
<1>1. "rq" \in Lists /\ w \in Lists /\ w # "rq" BY LinkedQueuesAssumption DEF Lists
<1>2. Len(s) > 1 BY <1>1, ListOf DEF IInv, thread_sleep
<1>3. s # <<>> /\ Head(s) = s[1]
  <2>1. s \in Seq(Node) BY <1>1, ListOf DEF IInv
  <2> QED BY <1>2, <2>1
<1>4. Holds(mem', [Held EXCEPT !["rq"] = Tail(s), ![w] = Append(Held[w], s[1])], {})
  BY <1>1, <1>3, TransferHolds DEF IInv, thread_sleep
<1>5. IInv' /\ Held' = [Held EXCEPT !["rq"] = Tail(s), ![w] = Append(Held[w], s[1])] BY <1>4, HeldNext
<1>6. Held' = [Held EXCEPT !["rq"] = Tail(@), ![w] = Append(@, Head(Held["rq"]))]
  BY <1>1, <1>3, <1>5
<1> QED BY <1>2, <1>5, <1>6 DEF Seqs!Sleep, Held

\* thread_wakeup of one thread and of all.
LEMMA DoesWakeup ==
    ASSUME IInv, NEW w \in WaitQueues, thread_wakeup(w) PROVE IInv' /\ Seqs!Wakeup
<1> DEFINE r == Held["rq"]
           t == Held[w]
           L == Len(t)
           Woken(k) == [Held EXCEPT !["rq"] = r \o SubSeq(t, 1, k), ![w] = SubSeq(t, k + 1, L)]
<1>1. "rq" \in Lists /\ w \in Lists /\ w # "rq" BY LinkedQueuesAssumption DEF Lists
<1>2. r \in Seq(Node) /\ t \in Seq(Node) /\ L \in Nat BY <1>1, ListOf DEF IInv
<1>3. t # <<>> /\ L >= 1
  <2>1. L # 0 BY <1>1, ListOf DEF IInv, thread_wakeup
  <2> QED BY <1>2, <2>1
<1>4. \E k \in {1, L} : Holds(mem', Woken(k), {})
  <2>1. CASE mem' = Transfer(mem, w, "rq")
    <3>1. Holds(mem', [Held EXCEPT ![w] = Tail(t), !["rq"] = Append(r, t[1])], {})
      BY <1>1, <1>3, <2>1, TransferHolds DEF IInv
    <3>2. Tail(t) = SubSeq(t, 1 + 1, L) /\ Append(r, t[1]) = r \o SubSeq(t, 1, 1)
      <4>1. 0 \in 0 .. L - 1 /\ 0 + 1 = 1 /\ 0 + 2 = 1 + 1 BY <1>2, <1>3
      <4>2. /\ Tail(SubSeq(t, 0 + 1, L)) = SubSeq(t, 0 + 2, L)
            /\ Append(r \o SubSeq(t, 1, 0), t[0 + 1]) = r \o SubSeq(t, 1, 0 + 1)
        BY <1>2, <4>1, OneOver
      <4>3. SubSeq(t, 1, L) = t /\ SubSeq(t, 1, 0) = <<>> BY <1>2, WholePart
      <4>4. r \o <<>> = r BY <1>2
      <4> QED BY <4>1, <4>2, <4>3, <4>4
    <3> DEFINE u == SubSeq(t, 1 + 1, L)
               v == r \o SubSeq(t, 1, 1)
    <3>3. Woken(1) = [Held EXCEPT !["rq"] = v, ![w] = u] OBVIOUS
    <3>4. Holds(mem', [Held EXCEPT ![w] = u, !["rq"] = v], {}) BY <3>1, <3>2
    <3> HIDE DEF u, v, Woken
    <3>5. [Held EXCEPT ![w] = u, !["rq"] = v] = [Held EXCEPT !["rq"] = v, ![w] = u]
      BY <1>1, HeldIs DEF Contents
    <3> QED BY <3>3, <3>4, <3>5
  <2>2. CASE mem' = WakeAll(mem, w)
    <3>1. Holds(mem', [Held EXCEPT !["rq"] = r \o t, ![w] = <<>>], {}) BY <2>2, WakeAllHolds DEF IInv
    <3>2. SubSeq(t, 1, L) = t /\ SubSeq(t, L + 1, L) = <<>> BY <1>2, WholePart
    <3> QED BY <3>1, <3>2
  <2> QED BY <2>1, <2>2 DEF thread_wakeup
<1>5. PICK k \in {1, L} : Holds(mem', Woken(k), {}) BY <1>4
<1>6. IInv' /\ Held' = Woken(k)
  <2> HIDE DEF Woken
  <2> QED BY <1>5, HeldNext
<1>7. Held' = [Held EXCEPT !["rq"] = @ \o SubSeq(t, 1, k), ![w] = SubSeq(@, k + 1, Len(@))]
  <2>1. [Held EXCEPT !["rq"] = r \o SubSeq(t, 1, k)][w] = t BY <1>1, HeldIs DEF Contents
  <2> QED BY <1>6, <2>1
<1> QED BY <1>3, <1>5, <1>6, <1>7 DEF Seqs!Wakeup, Held

\* clear_queue(&eq) on the way back from a switch.
LEMMA DoesClearExited ==
    ASSUME IInv, clear_exited PROVE IInv' /\ Seqs!ClearExited
<1>1. "eq" \in Lists BY DEF Lists
<1>2. Held["eq"] # <<>> BY <1>1, ListOf DEF IInv, clear_exited
<1>3. Holds(mem', [l \in Lists |-> IF l \in {"eq"} THEN <<>> ELSE Held[l]], {})
  BY <1>1, ClearHolds DEF IInv, clear_exited
<1>4. [l \in Lists |-> IF l \in {"eq"} THEN <<>> ELSE Held[l]] = [Held EXCEPT !["eq"] = <<>>]
  BY <1>1, HeldIs DEF Contents
<1>5. IInv' /\ Held' = [Held EXCEPT !["eq"] = <<>>] BY <1>3, <1>4, HeldNext
<1> QED BY <1>2, <1>5 DEF Seqs!ClearExited, Held

\* add_to_LRU.
LEMMA DoesAddEntry ==
    ASSUME IInv, add_to_LRU PROVE IInv' /\ Seqs!AddEntry
<1>1. PICK n \in LruNodes : mem.next[n] = Freed /\ mem' = append_to_queue(mem, "lru", n) BY DEF add_to_LRU
<1>2. n \in Node /\ "lru" \in Lists BY DEF Node, Lists
<1>3. Holds(mem', [Held EXCEPT !["lru"] = Append(Held["lru"], n)], {}) BY <1>1, <1>2, NewHolds DEF IInv
<1>4. IInv' /\ Held' = [Held EXCEPT !["lru"] = Append(Held["lru"], n)] BY <1>3, HeldNext
<1>5. n \in Seqs!Free(LruNodes)
  <2>1. \A l \in Lists : n \notin Range(Held[l]) BY <1>1, <1>2 DEF IInv, Holds, Apart
  <2> QED BY <2>1, SameLists DEF Seqs!Free, Seqs!ToSet, Range, Held
<1> QED BY <1>4, <1>5 DEF Seqs!AddEntry, Held

\* A hit of cache_lookup.
LEMMA DoesTouch ==
    ASSUME IInv, touch PROVE IInv' /\ Seqs!TouchEntry
<1> DEFINE s == Held["lru"]
<1>1. "lru" \in Lists BY DEF Lists
<1>2. s = Walk(mem, "lru") /\ DOMAIN s = 1 .. Len(s) BY <1>1, ListOf DEF IInv, Held
<1>3. PICK i \in 1 .. Len(s) : mem' = move_node_to_end(mem, "lru", s[i]) BY <1>2 DEF touch
<1>4. Holds(mem', [Held EXCEPT !["lru"] = Append(RemoveAt(s, i), s[i])], {})
  BY <1>1, <1>3, ToEndHolds DEF IInv
<1>5. IInv' /\ Held' = [Held EXCEPT !["lru"] = Append(RemoveAt(s, i), s[i])] BY <1>4, HeldNext
<1>6. Seqs!RemoveAt(s, i) = RemoveAt(s, i) BY DEF Seqs!RemoveAt, RemoveAt
<1> QED BY <1>2, <1>3, <1>5, <1>6 DEF Seqs!TouchEntry, Held

\* cache_evict: entries leave, or none does.
LEMMA DoesEvict ==
    ASSUME IInv, evict PROVE IInv' /\ (Seqs!EvictEntries \/ Held' = Held)
<1> DEFINE s == Held["lru"]
<1>1. "lru" \in Lists BY DEF Lists
<1>2. s \in Seq(Node) /\ DOMAIN s = 1 .. Len(s) /\ Len(s) \in Nat BY <1>1, ListOf DEF IInv
<1>3. PICK busy, amount : mem' = cache_evict(mem, busy, amount) BY DEF evict
<1>4. PICK e \in 0 .. Len(s) : \E O \in SUBSET (1 .. e) :
          Holds(mem', [Held EXCEPT !["lru"] = Seqs!Without(s, O)], {})
  BY <1>3, EvictHolds DEF IInv
<1>5. PICK O \in SUBSET (1 .. e) : Holds(mem', [Held EXCEPT !["lru"] = Seqs!Without(s, O)], {})
  BY <1>4
<1>6. IInv' /\ Held' = [Held EXCEPT !["lru"] = Seqs!Without(s, O)] BY <1>5, HeldNext
<1>7. CASE e = 0
  <2>1. Seqs!Without(s, O) = Seqs!Kept(s, O)[0] \o SubSeq(s, 0 + 1, Len(s)) BY <1>2, <1>7, KeptRest
  <2>2. Seqs!Kept(s, O)[0] = <<>> BY <1>2, KeptSteps
  <2>3. SubSeq(s, 1, Len(s)) = s /\ <<>> \o s = s BY <1>2, WholePart
  <2>4. Seqs!Without(s, O) = s BY <2>1, <2>2, <2>3
  <2>5. [Held EXCEPT !["lru"] = s] = Held BY <1>1, HeldIs DEF Contents
  <2> QED BY <1>6, <2>4, <2>5
<1>8. CASE e # 0
  <2>1. e \in DOMAIN s BY <1>2, <1>8
  <2>2. (1 .. e) \ O \in SUBSET (1 .. e) /\ (1 .. e) \ ((1 .. e) \ O) = O OBVIOUS
  <2>3. Held' = [Held EXCEPT !["lru"] = Seqs!Without(s, (1 .. e) \ ((1 .. e) \ O))] BY <1>6, <2>2
  <2>4. Seqs!EvictEntries
    <3>1. \E b \in SUBSET (1 .. e) : Held' = [Held EXCEPT !["lru"] = Seqs!Without(@, (1 .. e) \ b)]
      BY <2>2, <2>3
    <3> QED BY <2>1, <3>1 DEF Seqs!EvictEntries, Held
  <2> QED BY <1>6, <2>4
<1> QED BY <1>7, <1>8

\* thread_exit, of the last thread too.
LEMMA DoesExit ==
    ASSUME IInv, NEW w \in WaitQueues, thread_exit(w) PROVE IInv' /\ Seqs!Exit
<1> DEFINE r == Held["rq"]
           ready == r \o Held[w]
           q1 == [Held EXCEPT !["rq"] = ready, ![w] = <<>>]
           q2 == [q1 EXCEPT !["rq"] = Tail(ready)]
           awake == WakeAll(mem, w)
           left == pop_queue(awake, "rq")
           ls == {"eq"} \cup WaitQueues
           bare == clear_queues(left, ls)
           h == ready[1]
<1>1. "rq" \in Lists /\ "eq" \in Lists /\ "lru" \in Lists /\ w \in Lists /\ w \notin {"rq", "eq", "lru"}
      /\ ls \subseteq Lists /\ Lists = {"rq", "lru"} \cup ls /\ ls \cap {"rq", "lru"} = {}
  BY LinkedQueuesAssumption DEF Lists
<1>2. r \in Seq(Node) /\ Held[w] \in Seq(Node) /\ Held \in [Lists -> Seq(Node)]
  BY <1>1, ListOf, HeldIs DEF IInv, Contents
<1>3. r # <<>>
  <2>1. mem.head["rq"] # NULL BY DEF thread_exit
  <2> QED BY <1>1, <2>1, ListOf DEF IInv
<1>4. ready \in Seq(Node) /\ ready # <<>> /\ Len(ready) \in Nat /\ Len(ready) >= 1 /\ h \in Node
      /\ Head(ready) = h
  <2>1. ready \in Seq(Node) /\ ready # <<>> BY <1>2, <1>3, ConcatQueue
  <2> HIDE DEF ready
  <2> QED BY <2>1
<1>5. Holds(awake, q1, {}) BY WakeAllHolds DEF IInv
<1> HIDE DEF ready
<1>6. q1["rq"] = ready /\ q1["eq"] = Held["eq"] /\ q1["lru"] = Held["lru"] BY <1>1, <1>2
<1>7. Holds(left, q2, {h}) /\ awake.head["rq"] = h
  <2> HIDE DEF awake, q1, h
  <2>1. q1["rq"] # <<>> /\ q1["rq"][1] = h BY <1>4, <1>6 DEF h
  <2>2. Holds(pop_queue(awake, "rq"), [q1 EXCEPT !["rq"] = Tail(q1["rq"])], {q1["rq"][1]})
        /\ awake.head["rq"] = q1["rq"][1]
    <3>1. "rq" \in Lists BY <1>1
    <3> QED BY ONLY <1>5, <2>1, <3>1, PopHolds
  <2> QED BY <1>6, <2>1, <2>2
<1>8. q2 = [Held EXCEPT !["rq"] = Tail(ready), ![w] = <<>>]
  <2> DEFINE v == Tail(ready)
  <2> HIDE DEF v
  <2>1. [q1 EXCEPT !["rq"] = v] = [Held EXCEPT !["rq"] = v, ![w] = <<>>] BY <1>1, <1>2
  <2> QED BY <2>1 DEF v
<1>9. q2["rq"] = Tail(ready) /\ q2["eq"] = Held["eq"] /\ q2["lru"] = Held["lru"] BY <1>1, <1>2, <1>8
<1> HIDE DEF q1, q2, awake, left, bare, h
<1>10. Tail(ready) = <<>> <=> ~(Len(ready) > 1)
  <2> DEFINE u == Tail(ready)
  <2>1. u \in Seq(Node) /\ Len(u) = Len(ready) - 1 BY <1>4
  <2> HIDE DEF u
  <2>2. u = <<>> <=> Len(u) = 0
    <3>1. \A z \in Seq(Node) : Len(z) = 0 => z = <<>> OBVIOUS
    <3>2. Len(<<>>) = 0 OBVIOUS
    <3> QED BY ONLY <2>1, <3>1, <3>2
  <2>3. u = <<>> <=> ~(Len(ready) > 1) BY <1>4, <2>1, <2>2
  <2> QED BY <2>3 DEF u
<1>11. left.head["rq"] # NULL <=> q2["rq"] # <<>> BY <1>1, <1>7, ListOf
<1>12. CASE left.head["rq"] = NULL
  <2>1. mem' = [bare EXCEPT !.next[h] = Freed]
    BY <1>7, <1>12 DEF thread_exit, awake, left, bare, ls
  <2>2. ~(Len(ready) > 1) /\ q2["rq"] = <<>> BY <1>9, <1>10, <1>11, <1>12
  <2> DEFINE q3 == [l \in Lists |-> IF l \in ls THEN <<>> ELSE q2[l]]
  <2>3. Holds(bare, q3, {h}) BY <1>1, <1>7, ClearHolds DEF bare
  <2>4. Holds(mem', q3, {})
    <3> HIDE DEF q3
    <3> QED BY <1>4, <2>1, <2>3, FreeHolds
  <2>5. q3 = [l \in Lists |-> IF l = "lru" THEN Held[l] ELSE <<>>]
    <3> HIDE DEF ls
    <3>1. ASSUME NEW l \in Lists
          PROVE  (IF l \in ls THEN <<>> ELSE q2[l]) = IF l = "lru" THEN Held[l] ELSE <<>>
      BY <1>1, <1>9, <2>2
    <3> QED BY <3>1
  <2>6. IInv' /\ Held' = [l \in Lists |-> IF l = "lru" THEN Held[l] ELSE <<>>]
    <3> HIDE DEF q3
    <3> QED BY <2>4, <2>5, HeldNext
  <2>7. Seqs!Exit
    <3>1. Held' = IF Len(ready) > 1
                  THEN [Held EXCEPT !["rq"] = Tail(ready), ![w] = <<>>, !["eq"] = Append(@, Head(ready))]
                  ELSE [l \in Lists |-> IF l = "lru" THEN Held[l] ELSE <<>>]
      BY <2>2, <2>6
    <3> QED BY <1>3, <3>1, SameLists DEF Seqs!Exit, ready, Held
  <2> QED BY <2>6, <2>7
<1>13. CASE left.head["rq"] # NULL
  <2>1. mem' = append_node_to_queue(left, "eq", h)
    BY <1>7, <1>13 DEF thread_exit, awake, left, bare, ls
  <2>2. Len(ready) > 1 BY <1>9, <1>10, <1>11, <1>13
  <2>3. Holds(mem', [q2 EXCEPT !["eq"] = Append(q2["eq"], h)], {})
    BY <1>1, <1>4, <1>7, <2>1, AppendHolds
  <2>4. IInv' /\ Held' = [q2 EXCEPT !["eq"] = Append(Held["eq"], h)] BY <1>9, <2>3, HeldNext
  <2>5. Held' = [Held EXCEPT !["rq"] = Tail(ready), ![w] = <<>>, !["eq"] = Append(@, Head(ready))]
    <3> DEFINE v == Append(Held["eq"], h)
               u == Tail(ready)
    <3>1. Held' = [q2 EXCEPT !["eq"] = v] BY <2>4
    <3>2. q2 = [Held EXCEPT !["rq"] = u, ![w] = <<>>] BY <1>8
    <3> HIDE DEF u
    <3>3. ASSUME NEW x
          PROVE  [Held EXCEPT !["rq"] = u, ![w] = <<>>, !["eq"] = Append(@, x)]
                 = [Held EXCEPT !["rq"] = u, ![w] = <<>>, !["eq"] = Append(Held["eq"], x)]
      <4>1. [Held EXCEPT !["rq"] = u, ![w] = <<>>]["eq"] = Held["eq"] BY <1>1, <1>2
      <4> QED BY <4>1
    <3>4. Head(ready) = h BY <1>4
    <3>5. Held' = [Held EXCEPT !["rq"] = u, ![w] = <<>>, !["eq"] = Append(Held["eq"], h)] BY <3>1, <3>2
    <3>6. Held' = [Held EXCEPT !["rq"] = u, ![w] = <<>>, !["eq"] = Append(@, h)] BY <3>3, <3>5
    <3> QED BY <3>4, <3>6 DEF u
  <2>6. Seqs!Exit
    <3>1. Held' = IF Len(ready) > 1
                  THEN [Held EXCEPT !["rq"] = Tail(ready), ![w] = <<>>, !["eq"] = Append(@, Head(ready))]
                  ELSE [l \in Lists |-> IF l = "lru" THEN Held[l] ELSE <<>>]
      BY <2>2, <2>5
    <3> QED BY <1>3, <3>1, SameLists DEF Seqs!Exit, ready, Held
  <2> QED BY <2>4, <2>6
<1> QED BY <1>12, <1>13

\* At the start every list is empty and every node is free.
LEMMA StartsHeld == ASSUME Init PROVE IInv /\ Held = [l \in Lists |-> <<>>]
<1> DEFINE q == [l \in Lists |-> <<>>]
<1>1. /\ mem.next = [n \in Node |-> Freed] /\ mem.head = [l \in Lists |-> NULL]
      /\ mem.tail = [l \in Lists |-> NULL] /\ mem.size = [l \in Lists |-> 0]
      /\ mem = [next |-> mem.next, head |-> mem.head, tail |-> mem.tail, size |-> mem.size]
  BY DEF Init
<1>2. mem \in Mems /\ q \in Contents
  <2>1. <<>> \in Seq(Node) OBVIOUS
  <2> QED BY <1>1, <2>1 DEF Mems, Contents
<1>3. \A l \in Lists : Chain(mem, l, q[l]) BY <1>1, EmptyQueue DEF Chain
<1>4. Apart(mem, q, {}) BY <1>1, EmptyQueue DEF Apart
<1>5. Holds(mem, q, {}) BY <1>2, <1>3, <1>4 DEF Holds
<1>6. q = Held
  <2> HIDE DEF q
  <2> QED BY <1>5, WalkHolds DEF Held
<1> QED BY <1>5, <1>6 DEF IInv

\* Every step keeps the lists in order, and does to them what Queues says.
LEMMA StepHeld == ASSUME IInv, [Next]_vars PROVE IInv' /\ (Seqs!Next \/ Held' = Held)
<1>1. CASE create BY <1>1, DoesCreate DEF Seqs!Next
<1>2. CASE yield_any BY <1>2, DoesYieldAny DEF Seqs!Next
<1>3. CASE clear_exited BY <1>3, DoesClearExited DEF Seqs!Next
<1>4. ASSUME NEW n \in ThreadNodes, thread_yield(n) PROVE IInv' /\ Seqs!Next
  BY <1>4, DoesYieldTo DEF Seqs!Next
<1>5. ASSUME NEW w \in WaitQueues, thread_sleep(w) PROVE IInv' /\ Seqs!Next BY <1>5, DoesSleep DEF Seqs!Next
<1>6. ASSUME NEW w \in WaitQueues, thread_wakeup(w) PROVE IInv' /\ Seqs!Next BY <1>6, DoesWakeup DEF Seqs!Next
<1>7. ASSUME NEW w \in WaitQueues, thread_exit(w) PROVE IInv' /\ Seqs!Next BY <1>7, DoesExit DEF Seqs!Next
<1>8. CASE add_to_LRU BY <1>8, DoesAddEntry DEF Seqs!Next
<1>9. CASE touch BY <1>9, DoesTouch DEF Seqs!Next
<1>10. CASE evict BY <1>10, DoesEvict DEF Seqs!Next
<1>11. CASE UNCHANGED vars
  <2>1. mem' = mem BY <1>11 DEF vars
  <2>2. Holds(mem', Held, {}) BY <2>1 DEF IInv
  <2> QED BY <2>2, HeldNext
<1> QED BY <1>1, <1>2, <1>3, <1>4, <1>5, <1>6, <1>7, <1>8, <1>9, <1>10, <1>11 DEF Next

-----------------------------------------------------------------------------
(* Theorems. *)

\* The lists are chains of their own nodes after every call.
LEMMA Inductive == Spec => []IInv
<1>1. Init => IInv BY StartsHeld
<1>2. IInv /\ [Next]_vars => IInv' BY StepHeld
<1> QED BY <1>1, <1>2, PTL DEF Spec

\* The invariant bounds the sizes.
LEMMA HeldIsTyped == ASSUME IInv PROVE TypeOK
<1>1. mem \in Mems BY DEF IInv, Holds
<1>2. /\ mem.next \in [Node -> Node \cup {NULL, Freed}] /\ mem.head \in [Lists -> Node \cup {NULL}]
      /\ mem.tail \in [Lists -> Node \cup {NULL}] /\ mem.size \in [Lists -> Nat]
  BY <1>1 DEF Mems
<1>3. ASSUME NEW l \in Lists PROVE mem.size[l] \in 0 .. Cardinality(Node)
  <2>1. /\ Held[l] \in Seq(Node) /\ IsInjective(Held[l]) /\ mem.size[l] = Len(Held[l])
        /\ Len(Held[l]) \in Nat
    BY ListOf DEF IInv
  <2> DEFINE s == Held[l]
  <2>2. s \in Seq(Node) /\ IsInjective(s) /\ mem.size[l] = Len(s) /\ Len(s) \in Nat BY <2>1
  <2> HIDE DEF s
  <2>3. Len(s) <= Cardinality(Node) /\ Cardinality(Node) \in Nat BY <2>2, LengthBound
  <2> QED BY <2>2, <2>3
<1>4. mem.size \in [Lists -> 0 .. Cardinality(Node)] BY <1>2, <1>3
<1> QED BY <1>2, <1>4 DEF TypeOK

\* The invariant places every allocated node once.
LEMMA HeldIsWellFormed == ASSUME IInv PROVE ListsWellFormed
<1> DEFINE places == UNION {{l} \X DOMAIN Held[l] : l \in Lists}
           At(n) == {p \in places : Held[p[1]][p[2]] = n}
<1>1. ASSUME NEW l \in Lists
      PROVE  /\ mem.size[l] = Len(Held[l])
             /\ mem.head[l] # NULL => mem.tail[l] = Held[l][Len(Held[l])]
  BY ListOf DEF IInv
<1>2. ASSUME NEW n \in Node PROVE Cardinality(At(n)) = IF mem.next[n] = Freed THEN 0 ELSE 1
  <2>1. mem.next[n] = Freed <=> \A l \in Lists : n \notin Range(Held[l]) BY DEF IInv, Holds, Apart
  <2>2. ASSUME NEW p \in At(n)
        PROVE  \E l \in Lists : \E i \in DOMAIN Held[l] : p = <<l, i>> /\ Held[l][i] = n
    <3>1. PICK l \in Lists : p \in {l} \X DOMAIN Held[l] OBVIOUS
    <3>2. p[1] = l /\ p[2] \in DOMAIN Held[l] /\ p = <<p[1], p[2]>> BY <3>1
    <3>3. Held[l][p[2]] = n BY <3>2
    <3> QED BY <3>2, <3>3
  <2>3. CASE mem.next[n] = Freed
    <3>1. At(n) = {}
      <4>1. SUFFICES ASSUME NEW p \in At(n) PROVE FALSE OBVIOUS
      <4>2. PICK l \in Lists : \E i \in DOMAIN Held[l] : p = <<l, i>> /\ Held[l][i] = n BY <2>2
      <4>3. n \in Range(Held[l]) BY <4>2 DEF Range
      <4> QED BY <2>1, <2>3, <4>3
    <3> QED BY <2>3, <3>1, FS_EmptySet
  <2>4. CASE mem.next[n] # Freed
    <3>1. PICK l \in Lists : n \in Range(Held[l]) BY <2>1, <2>4
    <3>2. PICK i \in DOMAIN Held[l] : Held[l][i] = n BY <3>1 DEF Range
    <3>3. <<l, i>> \in At(n)
      <4>1. <<l, i>> \in {l} \X DOMAIN Held[l] BY <3>2
      <4>2. <<l, i>> \in places BY <4>1
      <4> HIDE DEF places
      <4> QED BY <3>2, <4>2
    <3>4. ASSUME NEW p \in At(n) PROVE p = <<l, i>>
      <4>1. PICK k \in Lists : \E j \in DOMAIN Held[k] : p = <<k, j>> /\ Held[k][j] = n BY <2>2
      <4>2. PICK j \in DOMAIN Held[k] : p = <<k, j>> /\ Held[k][j] = n BY <4>1
      <4>3. n \in Range(Held[k]) BY <4>2 DEF Range
      <4>4. k = l BY <3>1, <4>3 DEF IInv, Holds, Apart
      <4>5. IsInjective(Held[l]) BY ListOf DEF IInv
      <4>6. j = i BY <3>2, <4>2, <4>4, <4>5 DEF IsInjective
      <4> QED BY <4>2, <4>4, <4>6
    <3> DEFINE a == <<l, i>>
    <3>5. At(n) = {a} BY <3>3, <3>4
    <3> HIDE DEF At, a
    <3>6. Cardinality({a}) = 1 BY FS_Singleton
    <3> QED BY <2>4, <3>5, <3>6
  <2> QED BY <2>3, <2>4
<1> QED BY <1>1, <1>2 DEF ListsWellFormed, Held

\* Type correctness of the lists, for any number of nodes and wait queues: in
\* particular a size never exceeds the number of nodes.
THEOREM Types == Spec => []TypeOK
<1>1. IInv => TypeOK BY HeldIsTyped
<1> QED BY <1>1, Inductive, PTL

\* After every call of thread.c and server_thread.c each list is a chain whose
\* size and tail are right, no node is in two lists or twice in one, no freed
\* node is linked, and no allocated node is lost.
THEOREM WellFormed == Spec => []ListsWellFormed
<1>1. IInv => ListsWellFormed BY HeldIsWellFormed
<1> QED BY <1>1, Inductive, PTL

\* The pointer code of both files implements the sequences that Threads and
\* FileCache use: every call does what its action of Queues says, or nothing.
THEOREM Implements == Spec => ImplementsSequences
<1>1. Init => Seqs!Init
  <2> SUFFICES ASSUME Init PROVE Seqs!Init OBVIOUS
  <2>1. Held = [l \in Lists |-> <<>>] BY StartsHeld
  <2> QED BY <2>1, SameLists DEF Seqs!Init, Held
<1>2. IInv /\ [Next]_vars => [Seqs!Next]_([l \in Lists |-> Walk(mem, l)])
  BY StepHeld DEF Held
<1> QED BY <1>1, <1>2, Inductive, PTL DEF Spec, ImplementsSequences, Seqs!Spec

=============================================================================
