----------------------------- MODULE QueueLemmas -----------------------------
(***************************************************************************)
(* What the operations on queues without duplicates do to the set of their *)
(* members.  The queues of the thread package and the LRU list of the file *)
(* cache are such sequences, and the proofs about them reason with these   *)
(* sets.                                                                   *)
(***************************************************************************)
EXTENDS SequencesExt, SequenceTheorems, WellFoundedInduction, TLAPS

\* An empty queue has no members.
LEMMA EmptyQueue == Range(<<>>) = {} /\ IsInjective(<<>>)
  BY DEF Range, IsInjective

\* The members of a queue are those of the set it is made of.
LEMMA QueueMembers == ASSUME NEW S, NEW q \in Seq(S)
                      PROVE  Range(q) \subseteq S /\ (q # <<>> => Head(q) \in Range(q))
  BY DEF Range

\* A queue with no members is empty.
LEMMA NoMembers == ASSUME NEW S, NEW q \in Seq(S), Range(q) = {} PROVE q = <<>>
  BY QueueMembers

\* append_node_to_queue of a node that is not yet in the queue.
LEMMA AppendQueue ==
    ASSUME NEW S, NEW q \in Seq(S), NEW x \in S
    PROVE  /\ Append(q, x) \in Seq(S)
           /\ Range(Append(q, x)) = Range(q) \cup {x}
           /\ Append(q, x) # <<>>
           /\ q # <<>> => Head(Append(q, x)) = Head(q)
           /\ IsInjective(q) /\ x \notin Range(q) => IsInjective(Append(q, x))
<1> DEFINE a == Append(q, x)
<1>1. /\ a \in Seq(S) /\ Len(a) = Len(q) + 1 /\ a[Len(q) + 1] = x
      /\ \A i \in 1 .. Len(q) : a[i] = q[i]
  OBVIOUS
<1>2. DOMAIN a = 1 .. Len(q) + 1 /\ DOMAIN q = 1 .. Len(q) /\ Len(q) \in Nat BY <1>1
<1> HIDE DEF a
<1>3. Range(a) = Range(q) \cup {x}
  <2>1. ASSUME NEW y \in Range(a) PROVE y \in Range(q) \cup {x}
    BY <1>1, <1>2, <2>1 DEF Range
  <2>2. x \in Range(a) BY <1>1, <1>2 DEF Range
  <2>3. ASSUME NEW y \in Range(q) PROVE y \in Range(a)
    BY <1>1, <1>2, <2>3 DEF Range
  <2> QED BY <2>1, <2>2, <2>3
<1>4. IsInjective(q) /\ x \notin Range(q) => IsInjective(a)
  BY <1>1, <1>2 DEF IsInjective, Range
<1>5. a # <<>> BY <1>1
<1>6. q # <<>> => Head(a) = Head(q) BY <1>1, <1>2
<1> QED BY <1>1, <1>3, <1>4, <1>5, <1>6 DEF a

\* pop_queue: exactly the head leaves a queue without duplicates.
LEMMA TailQueue ==
    ASSUME NEW S, NEW q \in Seq(S), q # <<>>, IsInjective(q)
    PROVE  /\ Tail(q) \in Seq(S)
           /\ Range(Tail(q)) = Range(q) \ {Head(q)}
           /\ IsInjective(Tail(q))
           /\ Head(q) \in Range(q)
<1> DEFINE r == Tail(q)
<1>1. /\ r \in Seq(S) /\ Len(r) = Len(q) - 1 /\ Len(q) \in Nat \ {0}
      /\ \A i \in 1 .. Len(r) : r[i] = q[i + 1]
      /\ Head(q) = q[1]
  OBVIOUS
<1>2. DOMAIN r = 1 .. Len(q) - 1 /\ DOMAIN q = 1 .. Len(q) BY <1>1
<1> HIDE DEF r
<1>3. Range(r) = Range(q) \ {Head(q)}
  <2>1. ASSUME NEW y \in Range(r) PROVE y \in Range(q) \ {Head(q)}
    <3>1. PICK i \in 1 .. Len(q) - 1 : y = q[i + 1] BY <1>1, <1>2, <2>1 DEF Range
    <3>2. i + 1 \in DOMAIN q /\ i + 1 # 1 /\ 1 \in DOMAIN q BY <1>1, <1>2
    <3> QED BY <1>1, <3>1, <3>2 DEF Range, IsInjective
  <2>2. ASSUME NEW y \in Range(q), y # Head(q) PROVE y \in Range(r)
    <3>1. PICK i \in 1 .. Len(q) : y = q[i] BY <1>2, <2>2 DEF Range
    <3>2. i - 1 \in DOMAIN r /\ r[i - 1] = y BY <1>1, <1>2, <2>2, <3>1
    <3> QED BY <3>2 DEF Range
  <2> QED BY <2>1, <2>2
<1>4. IsInjective(r)
  <2> SUFFICES ASSUME NEW i \in DOMAIN r, NEW j \in DOMAIN r, r[i] = r[j] PROVE i = j
    BY DEF IsInjective
  <2>1. i + 1 \in DOMAIN q /\ j + 1 \in DOMAIN q /\ q[i + 1] = q[j + 1] BY <1>1, <1>2
  <2>2. i + 1 = j + 1 BY <2>1 DEF IsInjective
  <2> QED BY <1>1, <1>2, <2>2
<1>5. Head(q) \in Range(q) BY <1>1, <1>2 DEF Range
<1> QED BY <1>1, <1>3, <1>4, <1>5 DEF r

\* thread_wakeup of all: one queue behind another.
LEMMA ConcatQueue ==
    ASSUME NEW S, NEW p \in Seq(S), NEW q \in Seq(S)
    PROVE  /\ p \o q \in Seq(S)
           /\ Range(p \o q) = Range(p) \cup Range(q)
           /\ p # <<>> => p \o q # <<>> /\ Head(p \o q) = Head(p)
           /\ IsInjective(p) /\ IsInjective(q) /\ Range(p) \cap Range(q) = {}
                => IsInjective(p \o q)
<1> DEFINE c == p \o q
<1>1. /\ c \in Seq(S) /\ Len(c) = Len(p) + Len(q)
      /\ \A i \in 1 .. Len(c) : c[i] = IF i <= Len(p) THEN p[i] ELSE q[i - Len(p)]
      /\ Len(p) \in Nat /\ Len(q) \in Nat
  OBVIOUS
<1>2. DOMAIN c = 1 .. Len(p) + Len(q) /\ DOMAIN p = 1 .. Len(p) /\ DOMAIN q = 1 .. Len(q)
  BY <1>1
<1> HIDE DEF c
<1>3. Range(c) = Range(p) \cup Range(q)
  <2>1. ASSUME NEW y \in Range(c) PROVE y \in Range(p) \cup Range(q)
    <3>1. PICK i \in 1 .. Len(p) + Len(q) : y = c[i] BY <1>2, <2>1 DEF Range
    <3>2. CASE i <= Len(p) BY <1>1, <1>2, <3>1, <3>2 DEF Range
    <3>3. CASE i > Len(p)
      <4>1. i - Len(p) \in DOMAIN q /\ y = q[i - Len(p)] BY <1>1, <1>2, <3>1, <3>3
      <4> QED BY <4>1 DEF Range
    <3> QED BY <1>1, <3>2, <3>3
  <2>2. ASSUME NEW y \in Range(p) PROVE y \in Range(c)
    <3>1. PICK i \in 1 .. Len(p) : y = p[i] BY <1>2, <2>2 DEF Range
    <3>2. i \in DOMAIN c /\ c[i] = y BY <1>1, <1>2, <3>1
    <3> QED BY <3>2 DEF Range
  <2>3. ASSUME NEW y \in Range(q) PROVE y \in Range(c)
    <3>1. PICK i \in 1 .. Len(q) : y = q[i] BY <1>2, <2>3 DEF Range
    <3>2. i + Len(p) \in DOMAIN c /\ c[i + Len(p)] = y BY <1>1, <1>2, <3>1, SMTT(30)
    <3> QED BY <3>2 DEF Range
  <2> QED BY <2>1, <2>2, <2>3
<1>4. ASSUME IsInjective(p), IsInjective(q), Range(p) \cap Range(q) = {}
      PROVE  IsInjective(c)
  <2> SUFFICES ASSUME NEW i \in DOMAIN c, NEW j \in DOMAIN c, c[i] = c[j] PROVE i = j
    BY DEF IsInjective
  <2>1. CASE i <= Len(p) /\ j <= Len(p) BY <1>1, <1>2, <1>4, <2>1 DEF IsInjective
  <2>2. CASE i > Len(p) /\ j > Len(p)
    <3>1. i - Len(p) \in DOMAIN q /\ j - Len(p) \in DOMAIN q BY <1>1, <1>2, <2>2
    <3>2. q[i - Len(p)] = q[j - Len(p)] BY <1>1, <1>2, <2>2
    <3> QED BY <1>1, <1>2, <1>4, <3>1, <3>2 DEF IsInjective
  <2>3. ASSUME NEW k \in DOMAIN c, NEW m \in DOMAIN c, k <= Len(p), m > Len(p) PROVE c[k] # c[m]
    <3>1. k \in DOMAIN p /\ m - Len(p) \in DOMAIN q BY <1>1, <1>2, <2>3
    <3>2. c[k] \in Range(p) /\ c[m] \in Range(q) BY <1>1, <1>2, <2>3, <3>1 DEF Range
    <3> QED BY <1>4, <3>2
  <2> QED BY <1>1, <1>2, <2>1, <2>2, <2>3
<1>5. p # <<>> => c # <<>> /\ Head(c) = Head(p) BY <1>1, <1>2
<1> QED BY <1>1, <1>3, <1>4, <1>5 DEF c

\* Removing the node at position i.
LEMMA RemoveQueue ==
    ASSUME NEW S, NEW q \in Seq(S), NEW i \in 1 .. Len(q), IsInjective(q)
    PROVE  /\ RemoveAt(q, i) \in Seq(S)
           /\ Range(RemoveAt(q, i)) = Range(q) \ {q[i]}
           /\ IsInjective(RemoveAt(q, i))
           /\ q[i] \in Range(q)
<1> DEFINE p == SubSeq(q, 1, i - 1)
           r == SubSeq(q, i + 1, Len(q))
<1>1. /\ p \in Seq(S) /\ Len(p) = i - 1 /\ \A k \in 1 .. i - 1 : p[k] = q[k]
      /\ r \in Seq(S) /\ Len(r) = Len(q) - i /\ \A k \in 1 .. Len(q) - i : r[k] = q[k + i]
      /\ Len(q) \in Nat
  OBVIOUS
<1>2. /\ DOMAIN p = 1 .. i - 1 /\ DOMAIN r = 1 .. Len(q) - i /\ DOMAIN q = 1 .. Len(q)
  BY <1>1
<1> HIDE DEF p, r
<1>3. Range(p) \cap Range(r) = {} /\ IsInjective(p) /\ IsInjective(r)
  <2>1. IsInjective(p)
    <3> SUFFICES ASSUME NEW k \in DOMAIN p, NEW m \in DOMAIN p, p[k] = p[m] PROVE k = m
      BY DEF IsInjective
    <3>1. k \in DOMAIN q /\ m \in DOMAIN q /\ q[k] = q[m] BY <1>1, <1>2
    <3> QED BY <3>1 DEF IsInjective
  <2>2. IsInjective(r)
    <3> SUFFICES ASSUME NEW k \in DOMAIN r, NEW m \in DOMAIN r, r[k] = r[m] PROVE k = m
      BY DEF IsInjective
    <3>1. k + i \in DOMAIN q /\ m + i \in DOMAIN q BY <1>1, <1>2
    <3>2. r[k] = q[k + i] /\ r[m] = q[m + i] BY <1>1, <1>2
    <3>3. k + i = m + i BY <3>1, <3>2 DEF IsInjective
    <3> QED BY <1>1, <1>2, <3>3
  <2>3. ASSUME NEW k \in DOMAIN p, NEW m \in DOMAIN r PROVE p[k] # r[m]
    <3>1. k \in 1 .. i - 1 /\ m \in 1 .. Len(q) - i BY <1>2
    <3>2. p[k] = q[k] /\ r[m] = q[m + i] BY <1>1, <3>1
    <3>3. Len(q) \in Nat OBVIOUS
    <3>4. k \in 1 .. Len(q) /\ m + i \in 1 .. Len(q) /\ k # m + i BY <3>1, <3>3
    <3>5. k \in DOMAIN q /\ m + i \in DOMAIN q BY <1>2, <3>4
    <3> QED BY <3>2, <3>4, <3>5 DEF IsInjective
  <2> QED BY <2>1, <2>2, <2>3 DEF Range
<1>4. Range(p) \cup Range(r) = Range(q) \ {q[i]}
  <2>1. ASSUME NEW y \in Range(p) \cup Range(r) PROVE y \in Range(q) \ {q[i]}
    <3>1. CASE y \in Range(p)
      <4>1. PICK k \in 1 .. i - 1 : y = q[k] BY <1>1, <1>2, <3>1 DEF Range
      <4>2. k \in DOMAIN q /\ k # i /\ i \in DOMAIN q BY <1>1, <1>2
      <4> QED BY <4>1, <4>2 DEF Range, IsInjective
    <3>2. CASE y \in Range(r)
      <4>1. PICK k \in 1 .. Len(q) - i : y = q[k + i] BY <1>1, <1>2, <3>2 DEF Range
      <4>2. k + i \in DOMAIN q /\ k + i # i /\ i \in DOMAIN q BY <1>1, <1>2
      <4> QED BY <4>1, <4>2 DEF Range, IsInjective
    <3> QED BY <2>1, <3>1, <3>2
  <2>2. ASSUME NEW y \in Range(q), y # q[i] PROVE y \in Range(p) \cup Range(r)
    <3>1. PICK k \in 1 .. Len(q) : y = q[k] BY <1>2, <2>2 DEF Range
    <3>2. CASE k < i
      <4>1. k \in DOMAIN p /\ p[k] = y BY <1>1, <1>2, <3>1, <3>2
      <4> QED BY <4>1 DEF Range
    <3>3. CASE k > i
      <4>1. k - i \in DOMAIN r /\ r[k - i] = y BY <1>1, <1>2, <3>1, <3>3
      <4> QED BY <4>1 DEF Range
    <3> QED BY <1>1, <2>2, <3>1, <3>2, <3>3
  <2> QED BY <2>1, <2>2
<1>5. RemoveAt(q, i) = p \o r BY DEF RemoveAt, p, r
<1>6. q[i] \in Range(q) BY <1>1, <1>2 DEF Range
<1> QED BY <1>1, <1>3, <1>4, <1>5, <1>6, ConcatQueue

-----------------------------------------------------------------------------
(* Induction over the positions of a list, for what a recursive function      *)
(* over them computes.                                                        *)

\* A set of numbers has a least one.
LEMMA LeastNumber ==
    ASSUME NEW T, T \subseteq Nat, T # {}
    PROVE  \E x \in T : \A y \in T : x <= y
<1> DEFINE R == OpToRel(<, Nat)
<1>1. IsWellFoundedOn(R, Nat) BY NatLessThanWellFounded, Zenon
<1>2. R = {ss \in Nat \X Nat : ss[1] < ss[2]} BY Zenon DEF OpToRel
<1> HIDE DEF R
<1>3. PICK x \in T : \A y \in T : ~ (<<y, x>> \in R) BY <1>1, WFMin
<1>4. ASSUME NEW y \in T PROVE x <= y
  <2>1. ~ (<<y, x>> \in {ss \in Nat \X Nat : ss[1] < ss[2]}) BY <1>2, <1>3
  <2> QED BY <2>1
<1> QED BY <1>3, <1>4

\* A set of numbers that holds 0 and, up to L, with each number the next one.
LEMMA UpTo ==
    ASSUME NEW L \in Nat, NEW T, 0 \in T, \A i \in 1 .. L : i - 1 \in T => i \in T
    PROVE  \A i \in 0 .. L : i \in T
<1> DEFINE B == (0 .. L) \ T
<1> SUFFICES ASSUME B # {} PROVE FALSE OBVIOUS
<1>1. B \subseteq Nat OBVIOUS
<1>2. PICK x \in B : \A y \in B : x <= y
  <2> HIDE DEF B
  <2> QED BY <1>1, LeastNumber
<1>3. x \in 1 .. L /\ x - 1 \in 0 .. L BY <1>2
<1>4. x - 1 \in T BY <1>2, <1>3
<1> QED BY <1>3, <1>4

\* There is a function on 0 .. L that begins with b and goes on by the steps st.
HasSteps(X, b, L, st) ==
    \E f \in [0 .. L -> X] : f[0] = b /\ \A i \in 1 .. L : f[i] = st[i][f[i - 1]]

\* A function that is defined step by step from its value at 0 exists.
LEMMA StepsExist ==
    ASSUME NEW X, NEW b \in X, NEW L \in Nat, NEW st \in [1 .. L -> [X -> X]]
    PROVE  HasSteps(X, b, L, st)
<1> DEFINE Good(n, f) == f[0] = b /\ \A i \in 1 .. n : f[i] = st[i][f[i - 1]]
           T == {n \in 0 .. L : \E f \in [0 .. n -> X] : Good(n, f)}
<1>1. 0 \in T
  <2> DEFINE f == [i \in 0 .. 0 |-> b]
  <2>1. f \in [0 .. 0 -> X] /\ Good(0, f) OBVIOUS
  <2> HIDE DEF f, Good
  <2> QED BY <2>1
<1>2. ASSUME NEW n \in 1 .. L, n - 1 \in T PROVE n \in T
  <2>1. PICK f \in [0 .. n - 1 -> X] : Good(n - 1, f)
    BY <1>2
  <2> DEFINE g == [i \in 0 .. n |-> IF i = n THEN st[n][f[n - 1]] ELSE f[i]]
  <2>2. st[n][f[n - 1]] \in X OBVIOUS
  <2>3. g \in [0 .. n -> X] BY <2>2
  <2>4. \A i \in 0 .. n - 1 : g[i] = f[i] OBVIOUS
  <2>5. g[n] = st[n][f[n - 1]] OBVIOUS
  <2> HIDE DEF g
  <2>6. \A i \in 1 .. n : g[i] = st[i][g[i - 1]]
    <3>1. ASSUME NEW i \in 1 .. n - 1 PROVE g[i] = st[i][g[i - 1]]
      BY <2>1, <2>4
    <3> QED BY <3>1, <2>4, <2>5
  <2>7. Good(n, g) BY <2>1, <2>4, <2>6
  <2> HIDE DEF Good
  <2> QED BY <2>3, <2>7
<1> HIDE DEF T
<1>3. \A i \in 0 .. L : i \in T BY <1>1, <1>2, UpTo
<1>4. L \in T BY <1>3
<1> QED BY <1>4 DEF T, HasSteps

\* What FlattenSeq computes: it puts the parts one behind the other.
LEMMA FlattenSteps ==
    ASSUME NEW S, NEW L \in Nat, L # 0, NEW parts \in [1 .. L -> Seq(S)]
    PROVE  \E h : /\ FlattenSeq(parts) = h[L] /\ h[1] = parts[1]
                  /\ \A i \in 2 .. L : h[i] = h[i - 1] \o parts[i]
<1> DEFINE X == Seq(S)
           st == [i \in 1 .. L - 1 |-> [s \in X |-> s \o parts[i + 1]]]
           val(f, i) == IF i = 1 THEN parts[i] ELSE f[i - 1] \o parts[i]
           body(f) == [i \in 1 .. L |-> val(f, i)]
           k == CHOOSE g : g = body(g)
<1>1. parts \in Seq(Seq(S)) /\ Len(parts) = L OBVIOUS
<1>2. FlattenSeq(parts) = k[L] BY <1>1 DEF FlattenSeq
<1>3. k = CHOOSE g : g = body(g) OBVIOUS
<1> HIDE DEF k
<1>4. 1 \in 1 .. L /\ L - 1 \in Nat /\ \A i \in 1 .. L - 1 : i + 1 \in 1 .. L OBVIOUS
<1>5. \A i \in 1 .. L : parts[i] \in X OBVIOUS
<1>6. ASSUME NEW s \in X, NEW t \in X PROVE s \o t \in X OBVIOUS
<1> HIDE DEF X
<1>7. st \in [1 .. L - 1 -> [X -> X]] BY <1>4, <1>5, <1>6
<1>8. \A i \in 1 .. L - 1 : \A s \in X : st[i][s] = s \o parts[i + 1] OBVIOUS
<1> HIDE DEF st
<1>9. PICK f \in [0 .. L - 1 -> X] :
        f[0] = parts[1] /\ \A i \in 1 .. L - 1 : f[i] = st[i][f[i - 1]]
  <2>1. HasSteps(X, parts[1], L - 1, st) BY <1>4, <1>5, <1>7, StepsExist
  <2> QED BY <2>1 DEF HasSteps
<1> DEFINE h == [i \in 1 .. L |-> f[i - 1]]
<1>10. h[1] = parts[1] BY <1>4, <1>9
<1>11. ASSUME NEW i \in 2 .. L PROVE h[i] = h[i - 1] \o parts[i]
  <2>1. i \in 1 .. L /\ i - 1 \in 1 .. L /\ i - 1 \in 1 .. L - 1 /\ (i - 1) + 1 = i OBVIOUS
  <2>2. (i - 1) - 1 \in 0 .. L - 1 BY <2>1
  <2>3. f[i - 1] = f[(i - 1) - 1] \o parts[(i - 1) + 1] BY <1>8, <1>9, <2>1, <2>2
  <2> QED BY <2>1, <2>3
<1>12. h = [i \in 1 .. L |-> h[i]] OBVIOUS
<1> HIDE DEF h
<1>13. h = body(h)
  <2>1. \A i \in 1 .. L : h[i] = val(h, i)
    <3> SUFFICES ASSUME NEW i \in 1 .. L PROVE h[i] = val(h, i) OBVIOUS
    <3>1. i = 1 \/ i \in 2 .. L OBVIOUS
    <3> QED BY <1>10, <1>11, <3>1
  <2> HIDE DEF val
  <2> QED BY <1>12, <2>1, Zenon
<1>14. k = body(k)
  <2> HIDE DEF body
  <2> QED BY <1>3, <1>13
<1>15. \A i \in 1 .. L : k[i] = val(k, i)
  <2> HIDE DEF val
  <2> QED BY <1>14, Zenon
<1>16. k[1] = parts[1] BY <1>4, <1>15
<1>17. ASSUME NEW i \in 2 .. L PROVE k[i] = k[i - 1] \o parts[i]
  <2>1. i \in 1 .. L /\ i # 1 OBVIOUS
  <2> QED BY <1>15, <2>1
<1> QED BY <1>2, <1>16, <1>17

\* The members of the result are those of the parts, and none is there twice if
\* no part has a member twice and no two parts have the same one.
LEMMA FlattenParts ==
    ASSUME NEW S, NEW L \in Nat, NEW parts \in [1 .. L -> Seq(S)]
    PROVE  /\ FlattenSeq(parts) \in Seq(S)
           /\ \A y : y \in Range(FlattenSeq(parts)) <=> \E j \in 1 .. L : y \in Range(parts[j])
           /\ /\ \A j \in 1 .. L : IsInjective(parts[j])
              /\ \A i, j \in 1 .. L : i # j => Range(parts[i]) \cap Range(parts[j]) = {}
              => IsInjective(FlattenSeq(parts))
<1>1. CASE L = 0
  <2>1. parts = <<>> BY <1>1
  <2>2. FlattenSeq(parts) = <<>>
    <3>1. Len(<<>>) = 0 OBVIOUS
    <3> QED BY <2>1, <3>1 DEF FlattenSeq
  <2>3. 1 .. L = {} BY <1>1
  <2>4. <<>> \in Seq(S) OBVIOUS
  <2> QED BY <2>2, <2>3, <2>4, EmptyQueue
<1>2. CASE L # 0
  <2>1. PICK h : /\ FlattenSeq(parts) = h[L] /\ h[1] = parts[1]
                 /\ \A i \in 2 .. L : h[i] = h[i - 1] \o parts[i]
    BY <1>2, FlattenSteps
  <2> DEFINE Apart == /\ \A j \in 1 .. L : IsInjective(parts[j])
                      /\ \A i, j \in 1 .. L : i # j => Range(parts[i]) \cap Range(parts[j]) = {}
             R(n) == UNION {Range(parts[j]) : j \in 1 .. n}
             Good(n) == /\ h[n] \in Seq(S) /\ Range(h[n]) = R(n)
                        /\ Apart => IsInjective(h[n])
             T == {i \in 0 .. L - 1 : Good(i + 1)}
  <2>2. L - 1 \in Nat /\ 1 \in 1 .. L BY <1>2
  <2>3. 0 \in T
    <3>1. R(1) = Range(parts[1]) OBVIOUS
    <3>2. h[1] \in Seq(S) BY <2>1, <2>2
    <3>3. Good(1) BY <2>1, <2>2, <3>1, <3>2
    <3> HIDE DEF Good
    <3>4. 0 \in 0 .. L - 1 /\ 0 + 1 = 1 BY <2>2
    <3> QED BY <3>3, <3>4
  <2>4. ASSUME NEW i \in 1 .. L - 1, i - 1 \in T PROVE i \in T
    <3>1. i + 1 \in 2 .. L /\ i + 1 \in 1 .. L /\ (i + 1) - 1 = i /\ (i - 1) + 1 = i BY <2>2
    <3>2. Good(i)
      <4> HIDE DEF Good
      <4> QED BY <2>4, <3>1
    <3>3. h[i + 1] = h[i] \o parts[i + 1] BY <2>1, <3>1
    <3>4. h[i] \in Seq(S) /\ parts[i + 1] \in Seq(S) BY <3>1, <3>2
    <3>5. R(i + 1) = R(i) \cup Range(parts[i + 1])
      <4>1. 1 .. i + 1 = (1 .. i) \cup {i + 1} OBVIOUS
      <4> QED BY <4>1
    <3>6. /\ h[i + 1] \in Seq(S) /\ Range(h[i + 1]) = Range(h[i]) \cup Range(parts[i + 1])
          /\ IsInjective(h[i]) /\ IsInjective(parts[i + 1])
                /\ Range(h[i]) \cap Range(parts[i + 1]) = {} => IsInjective(h[i + 1])
      BY <3>3, <3>4, ConcatQueue
    <3>7. Apart => R(i) \cap Range(parts[i + 1]) = {}
      <4> SUFFICES ASSUME Apart, NEW y \in R(i), y \in Range(parts[i + 1]) PROVE FALSE OBVIOUS
      <4>1. PICK j \in 1 .. i : y \in Range(parts[j]) OBVIOUS
      <4>2. j \in 1 .. L /\ j # i + 1 BY <3>1
      <4> QED BY <3>1, <4>1, <4>2
    <3>8. Good(i + 1)
      <4>1. h[i + 1] \in Seq(S) BY <3>6
      <4>2. Range(h[i + 1]) = R(i + 1) BY <3>2, <3>5, <3>6
      <4>3. Apart => IsInjective(h[i + 1])
        <5> SUFFICES ASSUME Apart PROVE IsInjective(h[i + 1]) OBVIOUS
        <5>1. IsInjective(h[i]) /\ Range(h[i]) = R(i) BY <3>2
        <5>2. IsInjective(parts[i + 1]) BY <3>1
        <5>3. R(i) \cap Range(parts[i + 1]) = {} BY <3>7
        <5> HIDE DEF R, Apart
        <5> QED BY <3>6, <5>1, <5>2, <5>3
      <4> HIDE DEF R, Apart
      <4> QED BY <4>1, <4>2, <4>3
    <3> HIDE DEF Good
    <3>9. i \in 0 .. L - 1 OBVIOUS
    <3> QED BY <3>8, <3>9
  <2> HIDE DEF T
  <2>5. \A i \in 0 .. L - 1 : i \in T BY <2>2, <2>3, <2>4, UpTo
  <2>6. Good(L)
    <3>1. L - 1 \in 0 .. L - 1 /\ (L - 1) + 1 = L BY <2>2
    <3>2. Good((L - 1) + 1)
      <4> HIDE DEF Good
      <4> QED BY <2>5, <3>1 DEF T
    <3> HIDE DEF Good
    <3> QED BY <3>1, <3>2
  <2>7. \A y : y \in R(L) <=> \E j \in 1 .. L : y \in Range(parts[j]) OBVIOUS
  <2> HIDE DEF R
  <2> QED BY <2>1, <2>6, <2>7
<1> QED BY <1>1, <1>2

=============================================================================
