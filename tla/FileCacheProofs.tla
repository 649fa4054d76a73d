--------------------------- MODULE FileCacheProofs ---------------------------
(***************************************************************************)
(* Theorems about the file cache, for any number of workers, files and     *)
(* entries.                                                                *)
(***************************************************************************)
EXTENDS FileCache, QueueLemmas, FiniteSetTheorems

\* What Kept is after each node of the list.
LEMMA KeptSteps ==
    ASSUME NEW E, NEW q \in Seq(E), NEW S
    PROVE  /\ Kept(q, S) \in [0 .. Len(q) -> Seq(E)]
           /\ Kept(q, S)[0] = <<>>
           /\ \A i \in 1 .. Len(q) :
                Kept(q, S)[i] = IF q[i] \in S THEN Kept(q, S)[i - 1]
                                ELSE Append(Kept(q, S)[i - 1], q[i])
<1> DEFINE X == Seq(E)
           L == Len(q)
           b == <<>>
           st == [i \in 1 .. L |-> [a \in X |-> IF q[i] \in S THEN a ELSE Append(a, q[i])]]
           val(f, i) == IF i = 0 THEN b ELSE IF q[i] \in S THEN f[i - 1] ELSE Append(f[i - 1], q[i])
           body(f) == [i \in 0 .. L |-> val(f, i)]
           k == Kept(q, S)
<1>1. L \in Nat /\ b \in X OBVIOUS
<1>2. st \in [1 .. L -> [X -> X]] OBVIOUS
<1>3. \A i \in 1 .. L : \A a \in X : st[i][a] = IF q[i] \in S THEN a ELSE Append(a, q[i])
  OBVIOUS
<1>4. k = CHOOSE g : g = body(g) BY DEF Kept
<1> HIDE DEF st, X, b, L, k
<1>5. PICK f \in [0 .. L -> X] : f[0] = b /\ \A i \in 1 .. L : f[i] = st[i][f[i - 1]]
  <2>1. HasSteps(X, b, L, st) BY <1>1, <1>2, StepsExist
  <2> QED BY <2>1 DEF HasSteps
<1>6. f = body(f)
  <2>1. \A i \in 1 .. L : i - 1 \in 0 .. L /\ f[i - 1] \in X BY <1>1
  <2>2. \A i \in 1 .. L : f[i] = IF q[i] \in S THEN f[i - 1] ELSE Append(f[i - 1], q[i])
    BY <1>3, <1>5, <2>1
  <2>3. \A i \in 0 .. L : i = 0 \/ i \in 1 .. L BY <1>1
  <2>4. \A i \in 0 .. L : f[i] = val(f, i)
    BY <1>5, <2>2, <2>3
  <2>5. f = [i \in 0 .. L |-> f[i]] OBVIOUS
  <2> HIDE DEF val
  <2> QED BY <2>4, <2>5, Zenon
<1>7. k = body(k)
  <2> HIDE DEF body
  <2> QED BY <1>4, <1>6
<1>8. /\ \A i \in 0 .. L : k[i] = val(k, i)
      /\ DOMAIN k = 0 .. L
  <2> HIDE DEF val
  <2> QED BY <1>7, Zenon
<1>9. k[0] = b BY <1>1, <1>8
<1>10. \A i \in 1 .. L : k[i] = IF q[i] \in S THEN k[i - 1] ELSE Append(k[i - 1], q[i])
  <2>1. \A i \in 1 .. L : i \in 0 .. L /\ i # 0 BY <1>1
  <2> QED BY <1>8, <2>1, Zenon
<1>11. k = [i \in 0 .. L |-> k[i]]
  <2> HIDE DEF val
  <2> QED BY <1>7, <1>8
<1> HIDE DEF body, val
<1> DEFINE T == {i \in 0 .. L : k[i] \in X}
<1>12. 0 \in T BY <1>1, <1>9
<1>13. ASSUME NEW i \in 1 .. L, i - 1 \in T PROVE i \in T
  <2>1. k[i - 1] \in Seq(E) /\ q[i] \in E BY <1>13 DEF X, L
  <2>2. Append(k[i - 1], q[i]) \in Seq(E) BY <2>1
  <2>3. k[i] = k[i - 1] \/ k[i] = Append(k[i - 1], q[i]) BY <1>10, Zenon
  <2>4. k[i] \in X BY <2>1, <2>2, <2>3, Zenon DEF X
  <2>5. i \in 0 .. L BY <1>1
  <2> QED BY <2>4, <2>5
<1>14. \A i \in 0 .. L : i \in T
  <2> HIDE DEF T
  <2> QED BY <1>1, <1>12, <1>13, UpTo
<1>15. k \in [0 .. L -> X] BY <1>11, <1>14
<1> QED BY <1>9, <1>10, <1>15 DEF X, L, b, k

\* Removing the entries of S from a list leaves the others, each as often as before.
LEMMA WithoutMembers ==
    ASSUME NEW E, NEW q \in Seq(E), NEW S
    PROVE  /\ Without(q, S) \in Seq(E)
           /\ Range(Without(q, S)) = Range(q) \ S
           /\ IsInjective(q) => IsInjective(Without(q, S))
<1> DEFINE k == Kept(q, S)
           L == Len(q)
           Upto(i) == {q[j] : j \in 1 .. i}
           Good(i) == /\ Range(k[i]) = Upto(i) \ S
                      /\ IsInjective(q) => IsInjective(k[i])
           T == {i \in 0 .. L : Good(i)}
<1>1. /\ k \in [0 .. L -> Seq(E)] /\ k[0] = <<>>
      /\ \A i \in 1 .. L : k[i] = IF q[i] \in S THEN k[i - 1] ELSE Append(k[i - 1], q[i])
  BY KeptSteps
<1>2. L \in Nat /\ \A i \in 1 .. L : q[i] \in E OBVIOUS
<1>3. Range(q) = Upto(L) BY DEF Range
<1>4. IsInjective(q) => \A i \in 1 .. L : q[i] \notin Upto(i - 1)
  BY DEF IsInjective
<1> HIDE DEF k, L
<1>5. \A i \in 1 .. L : Upto(i) = Upto(i - 1) \cup {q[i]}
  <2> SUFFICES ASSUME NEW i \in 1 .. L PROVE Upto(i) = Upto(i - 1) \cup {q[i]}
    OBVIOUS
  <2>1. \A j : j \in 1 .. i <=> (j \in 1 .. i - 1 \/ j = i) BY <1>2
  <2> QED BY <2>1
<1>6. Upto(0) = {} OBVIOUS
<1> HIDE DEF Upto
<1>7. 0 \in T
  <2>1. Good(0) BY <1>1, <1>6, EmptyQueue
  <2> QED BY <1>2, <2>1
<1>8. ASSUME NEW i \in 1 .. L, i - 1 \in T PROVE i \in T
  <2>1. /\ Range(k[i - 1]) = Upto(i - 1) \ S
        /\ IsInjective(q) => IsInjective(k[i - 1])
    BY <1>8
  <2>2. i - 1 \in 0 .. L /\ i \in 0 .. L BY <1>2
  <2>3. k[i - 1] \in Seq(E) /\ q[i] \in E BY <1>1, <1>2, <2>2
  <2>4. Good(i)
    <3>1. CASE q[i] \in S
      <4>1. k[i] = k[i - 1] BY <1>1, <3>1, Zenon
      <4>2. Upto(i) \ S = Upto(i - 1) \ S BY <1>5, <3>1
      <4> QED BY <2>1, <4>1, <4>2
    <3>2. CASE q[i] \notin S
      <4>1. k[i] = Append(k[i - 1], q[i]) BY <1>1, <3>2, Zenon
      <4>2. /\ Range(k[i]) = Range(k[i - 1]) \cup {q[i]}
            /\ IsInjective(k[i - 1]) /\ q[i] \notin Range(k[i - 1]) => IsInjective(k[i])
        BY <2>3, <4>1, AppendQueue
      <4>3. Range(k[i]) = Upto(i) \ S BY <1>5, <2>1, <3>2, <4>2
      <4>4. IsInjective(q) => q[i] \notin Upto(i - 1) BY <1>4
      <4> QED BY <2>1, <4>2, <4>3, <4>4
    <3> QED BY <3>1, <3>2
  <2> QED BY <2>2, <2>4
<1>9. \A i \in 0 .. L : i \in T
  <2> HIDE DEF T
  <2> QED BY <1>2, <1>7, <1>8, UpTo
<1>10. L \in 0 .. L BY <1>2
<1>11. Good(L) BY <1>9, <1>10
<1>12. k[L] \in Seq(E) BY <1>1, <1>10
<1>13. Without(q, S) = k[L] BY DEF Without, k, L
<1> QED BY <1>3, <1>11, <1>12, <1>13

\* What SizeUpTo is after each node of the list.
LEMMA SizeSteps ==
    ASSUME NEW E, NEW sz \in [E -> Nat], NEW q \in Seq(E)
    PROVE  /\ SizeUpTo(sz, q) \in [0 .. Len(q) -> Nat]
           /\ SizeUpTo(sz, q)[0] = 0
           /\ \A i \in 1 .. Len(q) : SizeUpTo(sz, q)[i] = SizeUpTo(sz, q)[i - 1] + sz[q[i]]
<1> DEFINE L == Len(q)
           st == [i \in 1 .. L |-> [a \in Nat |-> a + sz[q[i]]]]
           val(f, i) == IF i = 0 THEN 0 ELSE f[i - 1] + sz[q[i]]
           body(f) == [i \in 0 .. L |-> val(f, i)]
           k == SizeUpTo(sz, q)
<1>1. L \in Nat /\ 0 \in Nat /\ \A i \in 1 .. L : sz[q[i]] \in Nat OBVIOUS
<1>2. st \in [1 .. L -> [Nat -> Nat]] BY <1>1
<1>3. \A i \in 1 .. L : \A a \in Nat : st[i][a] = a + sz[q[i]]
  OBVIOUS
<1>4. k = CHOOSE g : g = body(g) BY DEF SizeUpTo
<1> HIDE DEF st, L, k
<1>5. PICK f \in [0 .. L -> Nat] : f[0] = 0 /\ \A i \in 1 .. L : f[i] = st[i][f[i - 1]]
  <2>1. HasSteps(Nat, 0, L, st) BY <1>1, <1>2, StepsExist
  <2> QED BY <2>1 DEF HasSteps
<1>6. f = body(f)
  <2>1. \A i \in 1 .. L : i - 1 \in 0 .. L /\ f[i - 1] \in Nat BY <1>1
  <2>2. \A i \in 1 .. L : f[i] = f[i - 1] + sz[q[i]]
    BY <1>3, <1>5, <2>1
  <2>3. \A i \in 0 .. L : i = 0 \/ i \in 1 .. L BY <1>1
  <2>4. \A i \in 0 .. L : f[i] = val(f, i)
    BY <1>5, <2>2, <2>3
  <2>5. f = [i \in 0 .. L |-> f[i]] OBVIOUS
  <2> HIDE DEF val
  <2> QED BY <2>4, <2>5, Zenon
<1>7. k = body(k)
  <2> HIDE DEF body
  <2> QED BY <1>4, <1>6
<1>8. \A i \in 0 .. L : k[i] = val(k, i)
  <2> HIDE DEF val
  <2> QED BY <1>7, Zenon
<1>9. k = [i \in 0 .. L |-> k[i]]
  <2> HIDE DEF val
  <2> QED BY <1>7, <1>8
<1>10. k[0] = 0 BY <1>1, <1>8
<1>11. \A i \in 1 .. L : k[i] = k[i - 1] + sz[q[i]]
  <2>1. \A i \in 1 .. L : i \in 0 .. L /\ i # 0 BY <1>1
  <2> QED BY <1>8, <2>1, Zenon
<1> HIDE DEF body, val
<1> DEFINE T == {i \in 0 .. L : k[i] \in Nat}
<1>12. 0 \in T BY <1>1, <1>10
<1>13. ASSUME NEW i \in 1 .. L, i - 1 \in T PROVE i \in T
  <2>1. k[i - 1] \in Nat /\ sz[q[i]] \in Nat BY <1>1, <1>13
  <2>2. k[i] \in Nat BY <1>11, <2>1
  <2> QED BY <1>1, <2>2
<1>14. \A i \in 0 .. L : i \in T
  <2> HIDE DEF T
  <2> QED BY <1>1, <1>12, <1>13, UpTo
<1>15. k \in [0 .. L -> Nat] BY <1>9, <1>14
<1> QED BY <1>10, <1>11, <1>15 DEF L, k

\* TotalSize for any sizes sz of the entries.
ListSize(sz, q) == SizeUpTo(sz, q)[Len(q)]

LEMMA ListSizeType ==
    ASSUME NEW E, NEW sz \in [E -> Nat], NEW q \in Seq(E)
    PROVE  ListSize(sz, q) \in Nat /\ (q = <<>> => ListSize(sz, q) = 0)
<1>1. /\ SizeUpTo(sz, q) \in [0 .. Len(q) -> Nat]
      /\ SizeUpTo(sz, q)[0] = 0
  BY SizeSteps
<1>2. Len(q) \in 0 .. Len(q) /\ (q = <<>> => Len(q) = 0) OBVIOUS
<1> QED BY <1>1, <1>2 DEF ListSize

\* A node at the end adds its size.
LEMMA ListSizeAppend ==
    ASSUME NEW E, NEW sz \in [E -> Nat], NEW q \in Seq(E), NEW x \in E
    PROVE  ListSize(sz, Append(q, x)) = ListSize(sz, q) + sz[x]
<1> DEFINE a == Append(q, x)
           L == Len(q)
           f == SizeUpTo(sz, q)
           g == SizeUpTo(sz, a)
           T == {i \in 0 .. L : g[i] = f[i]}
<1>1. a \in Seq(E) /\ Len(a) = L + 1 /\ a[L + 1] = x /\ \A i \in 1 .. L : a[i] = q[i]
  OBVIOUS
<1>2. L \in Nat OBVIOUS
<1>3. /\ f \in [0 .. L -> Nat] /\ f[0] = 0
      /\ \A i \in 1 .. L : f[i] = f[i - 1] + sz[q[i]]
  BY SizeSteps
<1>4. /\ g[0] = 0
      /\ \A i \in 1 .. L + 1 : g[i] = g[i - 1] + sz[a[i]]
  <2> HIDE DEF a, L
  <2>1. a \in Seq(E) BY <1>1
  <2>2. /\ SizeUpTo(sz, a)[0] = 0
        /\ \A i \in 1 .. Len(a) : SizeUpTo(sz, a)[i] = SizeUpTo(sz, a)[i - 1] + sz[a[i]]
    BY ONLY <2>1, sz \in [E -> Nat], SizeSteps
  <2> QED BY <1>1, <2>2
<1> HIDE DEF a, L, f, g
<1>5. 0 \in T BY <1>2, <1>3, <1>4
<1>6. ASSUME NEW i \in 1 .. L, i - 1 \in T PROVE i \in T
  <2>1. i \in 1 .. L + 1 /\ i \in 0 .. L BY <1>2
  <2>2. g[i] = g[i - 1] + sz[a[i]] BY <1>4, <2>1
  <2>3. g[i] = f[i] BY <1>1, <1>3, <1>6, <2>2
  <2> QED BY <2>1, <2>3
<1>7. \A i \in 0 .. L : i \in T
  <2> HIDE DEF T
  <2> QED BY <1>2, <1>5, <1>6, UpTo
<1>8. g[L] = f[L] /\ L + 1 \in 1 .. L + 1 /\ (L + 1) - 1 = L BY <1>2, <1>7
<1>9. g[L + 1] = g[(L + 1) - 1] + sz[a[L + 1]] BY <1>4, <1>8
<1>10. g[L + 1] = f[L] + sz[x] BY <1>1, <1>8, <1>9
<1>11. ListSize(sz, a) = g[L + 1] /\ ListSize(sz, q) = f[L]
  BY <1>1 DEF ListSize, g, f, L
<1> QED BY <1>10, <1>11 DEF a

\* The sizes of other entries make no difference.
LEMMA ListSizeSame ==
    ASSUME NEW E, NEW sz \in [E -> Nat], NEW sx \in [E -> Nat], NEW q \in Seq(E),
           \A e \in Range(q) : sx[e] = sz[e]
    PROVE  ListSize(sx, q) = ListSize(sz, q)
<1> DEFINE L == Len(q)
           f == SizeUpTo(sz, q)
           g == SizeUpTo(sx, q)
           T == {i \in 0 .. L : g[i] = f[i]}
<1>1. L \in Nat /\ \A i \in 1 .. L : sx[q[i]] = sz[q[i]]
  BY DEF Range
<1>2. f[0] = 0 /\ \A i \in 1 .. L : f[i] = f[i - 1] + sz[q[i]]
  BY SizeSteps
<1>3. g[0] = 0 /\ \A i \in 1 .. L : g[i] = g[i - 1] + sx[q[i]]
  BY SizeSteps, SMTT(30)
<1> HIDE DEF L, f, g
<1>4. 0 \in T BY <1>1, <1>2, <1>3
<1>5. ASSUME NEW i \in 1 .. L, i - 1 \in T PROVE i \in T
  <2>1. g[i] = f[i] BY <1>1, <1>2, <1>3, <1>5
  <2> QED BY <1>1, <2>1
<1>6. \A i \in 0 .. L : i \in T
  <2> HIDE DEF T
  <2> QED BY <1>1, <1>4, <1>5, UpTo
<1>7. g[L] = f[L] BY <1>1, <1>6
<1> QED BY <1>7 DEF ListSize, L, f, g

\* What leaves a list and what stays take together what the list takes.
LEMMA ListSizeSplit ==
    ASSUME NEW E, NEW sz \in [E -> Nat], NEW q \in Seq(E), NEW S
    PROVE  ListSize(sz, Without(q, S)) + ListSize(sz, Without(q, E \ S)) = ListSize(sz, q)
<1> DEFINE L == Len(q)
           R == E \ S
           k == Kept(q, S)
           m == Kept(q, R)
           f == SizeUpTo(sz, q)
           T == {i \in 0 .. L : ListSize(sz, k[i]) + ListSize(sz, m[i]) = f[i]}
<1>1. L \in Nat /\ \A i \in 1 .. L : q[i] \in E /\ (q[i] \in S <=> q[i] \notin R)
  OBVIOUS
<1>2. f[0] = 0 /\ \A i \in 1 .. L : f[i] = f[i - 1] + sz[q[i]]
  BY SizeSteps
<1>3. /\ k \in [0 .. L -> Seq(E)] /\ k[0] = <<>>
      /\ \A i \in 1 .. L : k[i] = IF q[i] \in S THEN k[i - 1] ELSE Append(k[i - 1], q[i])
  BY KeptSteps
<1>4. /\ m \in [0 .. L -> Seq(E)] /\ m[0] = <<>>
      /\ \A i \in 1 .. L : m[i] = IF q[i] \in R THEN m[i - 1] ELSE Append(m[i - 1], q[i])
  BY KeptSteps
<1> HIDE DEF L, R, k, m, f
<1>5. 0 \in T
  <2>1. k[0] \in Seq(E) /\ m[0] \in Seq(E) BY <1>1, <1>3, <1>4
  <2>2. ListSize(sz, k[0]) = 0 /\ ListSize(sz, m[0]) = 0
    BY <1>3, <1>4, <2>1, ListSizeType
  <2> QED BY <1>1, <1>2, <2>2
<1>6. ASSUME NEW i \in 1 .. L, i - 1 \in T PROVE i \in T
  <2>1. i \in 0 .. L /\ i - 1 \in 0 .. L BY <1>1
  <2>2. k[i - 1] \in Seq(E) /\ m[i - 1] \in Seq(E) /\ q[i] \in E BY <1>1, <1>3, <1>4, <2>1
  <2>3. /\ ListSize(sz, k[i - 1]) \in Nat /\ ListSize(sz, m[i - 1]) \in Nat
        /\ sz[q[i]] \in Nat
    BY <2>2, ListSizeType
  <2>4. /\ ListSize(sz, Append(k[i - 1], q[i])) = ListSize(sz, k[i - 1]) + sz[q[i]]
        /\ ListSize(sz, Append(m[i - 1], q[i])) = ListSize(sz, m[i - 1]) + sz[q[i]]
    BY <2>2, ListSizeAppend
  <2>5. ListSize(sz, k[i]) + ListSize(sz, m[i]) = f[i]
    <3>1. f[i] = f[i - 1] + sz[q[i]] BY <1>2
    <3>2. ListSize(sz, k[i - 1]) + ListSize(sz, m[i - 1]) = f[i - 1] BY <1>6
    <3>3. CASE q[i] \in S
      <4>1. k[i] = k[i - 1] /\ m[i] = Append(m[i - 1], q[i])
        BY <1>1, <1>3, <1>4, <3>3, Zenon
      <4> QED BY <2>3, <2>4, <3>1, <3>2, <4>1
    <3>4. CASE q[i] \notin S
      <4>1. k[i] = Append(k[i - 1], q[i]) /\ m[i] = m[i - 1]
        BY <1>1, <1>3, <1>4, <3>4, Zenon
      <4> QED BY <2>3, <2>4, <3>1, <3>2, <4>1
    <3> QED BY <3>3, <3>4
  <2> QED BY <2>1, <2>5
<1>7. \A i \in 0 .. L : i \in T
  <2> HIDE DEF T
  <2> QED BY <1>1, <1>5, <1>6, UpTo
<1>8. ListSize(sz, k[L]) + ListSize(sz, m[L]) = f[L] BY <1>1, <1>7
<1>9. /\ k[L] = Without(q, S) /\ m[L] = Without(q, E \ S)
      /\ f[L] = ListSize(sz, q)
  BY DEF Without, ListSize, k, m, f, L, R
<1> QED BY <1>8, <1>9

\* A list of one entry.
LEMMA ListSizeOne ==
    ASSUME NEW E, NEW sz \in [E -> Nat], NEW q \in Seq(E), NEW x \in E,
           Range(q) = {x}, IsInjective(q)
    PROVE  ListSize(sz, q) = sz[x]
<1>1. Len(q) \in Nat /\ \A i \in 1 .. Len(q) : q[i] = x
  <2>1. \A i \in 1 .. Len(q) : q[i] \in Range(q) BY DEF Range
  <2> QED BY <2>1
<1>2. Len(q) # 0 BY DEF Range
<1>3. ~ (Len(q) >= 2) BY <1>1 DEF IsInjective
<1>4. Len(q) = 1 /\ q[1] = x
  <2>1. \A n \in Nat : n # 0 /\ ~ (n >= 2) => n = 1 OBVIOUS
  <2>2. Len(q) \in Nat BY <1>1
  <2>3. Len(q) = 1 BY ONLY <1>2, <1>3, <2>1, <2>2
  <2> QED BY <1>1, <2>3
<1>5. /\ SizeUpTo(sz, q)[0] = 0
      /\ \A i \in 1 .. Len(q) : SizeUpTo(sz, q)[i] = SizeUpTo(sz, q)[i - 1] + sz[q[i]]
  BY SizeSteps
<1>6. SizeUpTo(sz, q)[1] = SizeUpTo(sz, q)[1 - 1] + sz[q[1]] BY <1>4, <1>5
<1>7. sz[x] \in Nat OBVIOUS
<1> QED BY <1>4, <1>5, <1>6, <1>7 DEF ListSize

\* Only a worker that sends has an entry.
Sending == \A w \in Worker : value[w] # NULL => pc[w] = "send"

CInv == TypeOK /\ ListMatchesTable /\ SizeExact /\ UseCountExact /\ Sending

\* The workers that send from an entry, for the local variables val.
Users(val, e) == {w \in Worker : val[w] = e}

LEMMA UsersFinite ==
    ASSUME NEW val, NEW e
    PROVE  /\ IsFiniteSet(Users(val, e)) /\ Cardinality(Users(val, e)) \in Nat
           /\ Cardinality(Users(val, e)) = 0 <=> Users(val, e) = {}
<1>1. Users(val, e) \in SUBSET Worker BY DEF Users
<1>2. IsFiniteSet(Users(val, e)) BY <1>1, FS_Subset, FileCacheAssumption
<1> QED BY <1>2, FS_CardinalityType, FS_EmptySet

\* The sizes of the entries are numbers.
LEMMA SizesAreNat ==
    ASSUME TypeOK
    PROVE  /\ size \in [Entry -> Nat] /\ \A w \in Worker : bytes[w] \in Nat
           /\ TypeOK' => size' \in [Entry -> Nat]
<1>1. Sizes \cup {0} \subseteq Nat BY FileCacheAssumption
<1>2. size \in [Entry -> Sizes \cup {0}] /\ bytes \in [Worker -> Sizes \cup {0}] BY DEF TypeOK
<1>3. TypeOK' => size' \in [Entry -> Sizes \cup {0}] BY DEF TypeOK
<1> QED BY <1>1, <1>2, <1>3

\* move_node_to_end keeps the list's entries and what they take.
LEMMA MoveKeeps ==
    ASSUME NEW E, NEW sz \in [E -> Nat], NEW q \in Seq(E), NEW e \in Range(q), IsInjective(q)
    PROVE  /\ move_node_to_end(q, e) \in Seq(E)
           /\ Range(move_node_to_end(q, e)) = Range(q)
           /\ IsInjective(move_node_to_end(q, e))
           /\ ListSize(sz, move_node_to_end(q, e)) = ListSize(sz, q)
<1> DEFINE p == Without(q, {e})
           r == Without(q, E \ {e})
<1>1. e \in E BY QueueMembers
<1>2. p \in Seq(E) /\ Range(p) = Range(q) \ {e} /\ IsInjective(p)
  BY WithoutMembers
<1>3. r \in Seq(E) /\ Range(r) = Range(q) \ (E \ {e}) /\ IsInjective(r)
  BY WithoutMembers
<1>4. Range(q) \ (E \ {e}) = {e} BY <1>1, QueueMembers
<1>5. ListSize(sz, p) + ListSize(sz, r) = ListSize(sz, q) BY ListSizeSplit
<1> HIDE DEF p, r
<1>6. ListSize(sz, r) = sz[e] BY <1>1, <1>3, <1>4, ListSizeOne, SMTT(30)
<1>7. ListSize(sz, Append(p, e)) = ListSize(sz, p) + sz[e] BY <1>1, <1>2, ListSizeAppend
<1>8. /\ Append(p, e) \in Seq(E) /\ Range(Append(p, e)) = Range(p) \cup {e}
      /\ IsInjective(Append(p, e))
  BY <1>1, <1>2, AppendQueue
<1>9. move_node_to_end(q, e) = Append(p, e) BY DEF move_node_to_end, p
<1>10. Range(p) \cup {e} = Range(q) BY <1>2
<1> QED BY <1>5, <1>6, <1>7, <1>8, <1>9, <1>10

\* cache_evict chooses entries of the cache that nobody uses.
LEMMA EvictUnused ==
    ASSUME TypeOK, ListMatchesTable, NEW amount, NEW e \in cache_evict(amount)
    PROVE  e \in table /\ in_use[e] <= 0
<1> DEFINE used == {d \in Entry : in_use[d] > 0}
           idle == Without(lru, used)
<1>1. idle \in Seq(Entry) /\ Range(idle) = Range(lru) \ used
  BY WithoutMembers DEF TypeOK
<1>2. e \in Range(idle)
  <2>1. \E i \in 1 .. Len(idle) : e = idle[i] BY DEF cache_evict
  <2> HIDE DEF idle
  <2> QED BY <1>1, <2>1 DEF Range
<1>3. e \in table /\ e \notin used BY <1>1, <1>2 DEF ListMatchesTable
<1> QED BY <1>3 DEF TypeOK

\* What the evictions of S leave of the list.
LEMMA EvictLeaves ==
    ASSUME CInv, NEW S, S \subseteq table
    PROVE  LET q == Without(lru, S)
               left == csize - TotalSize(Without(lru, Entry \ S))
           IN  /\ q \in Seq(Entry) /\ Range(q) = table \ S /\ IsInjective(q)
               /\ left \in Nat /\ left <= csize /\ left = ListSize(size, q)
<1> DEFINE q == Without(lru, S)
           r == Without(lru, Entry \ S)
<1>1. lru \in Seq(Entry) /\ size \in [Entry -> Nat] BY SizesAreNat DEF CInv, TypeOK
<1>2. q \in Seq(Entry) /\ Range(q) = table \ S /\ IsInjective(q)
  BY <1>1, WithoutMembers DEF CInv, ListMatchesTable
<1>3. r \in Seq(Entry) BY <1>1, WithoutMembers
<1>4. ListSize(size, q) + ListSize(size, r) = ListSize(size, lru) BY <1>1, ListSizeSplit
<1>5. csize = ListSize(size, lru) BY DEF CInv, SizeExact, TotalSize, ListSize
<1>6. TotalSize(r) = ListSize(size, r) BY DEF TotalSize, ListSize
<1> HIDE DEF q, r
<1>7. ListSize(size, q) \in Nat /\ ListSize(size, r) \in Nat BY <1>1, <1>2, <1>3, ListSizeType
<1> QED BY <1>2, <1>4, <1>5, <1>6, <1>7 DEF q, r

\* cache_insert, when the evictions do not make enough room.
LEMMA DropStep ==
    ASSUME CInv, NEW S, S \subseteq table, \A e \in S : in_use[e] <= 0,
           drop_entries(S, csize - TotalSize(Without(lru, Entry \ S))),
           name' = name, bytes' = bytes, value' = value,
           NEW w \in Worker, pc[w] = "insert", pc' = [pc EXCEPT ![w] = "send"]
    PROVE  CInv'
<1> DEFINE q == Without(lru, S)
           left == csize - TotalSize(Without(lru, Entry \ S))
<1>1. /\ q \in Seq(Entry) /\ Range(q) = table \ S /\ IsInjective(q)
      /\ left \in Nat /\ left <= csize /\ left = ListSize(size, q)
  BY EvictLeaves
<1>2. /\ table' = table \ S /\ lru' = q /\ csize' = left /\ in_use' = in_use
      /\ file' = [f \in Entry |-> IF f \in S THEN NULL ELSE file[f]]
      /\ size' = [f \in Entry |-> IF f \in S THEN 0 ELSE size[f]]
  BY DEF drop_entries
<1> HIDE DEF q, left
<1>3. TypeOK'
  BY <1>1, <1>2, FileCacheAssumption DEF CInv, TypeOK
<1>4. ListMatchesTable'
  BY <1>1, <1>2 DEF CInv, TypeOK, ListMatchesTable
<1>5. SizeExact'
  <2>1. size \in [Entry -> Nat] /\ size' \in [Entry -> Nat]
    BY <1>3, SizesAreNat DEF CInv
  <2>2. \A e \in Range(q) : size'[e] = size[e]
    BY <1>1, <1>2 DEF CInv, TypeOK
  <2>3. ListSize(size', q) = ListSize(size, q) BY <1>1, <2>1, <2>2, ListSizeSame
  <2>4. TotalSize(lru)' = ListSize(size', lru') BY DEF TotalSize, ListSize
  <2>5. csize' <= MaxCache BY <1>3, FileCacheAssumption DEF TypeOK
  <2> QED BY <1>1, <1>2, <2>3, <2>4, <2>5 DEF SizeExact
<1>6. UseCountExact'
  <2>1. ASSUME NEW u \in Worker, value[u] # NULL PROVE value[u] \in table \ S
    <3>1. value[u] \in table BY <2>1 DEF CInv, UseCountExact
    <3>2. in_use[value[u]] = Cardinality(Users(value, value[u]))
      BY <3>1 DEF CInv, UseCountExact, Users
    <3>3. u \in Users(value, value[u]) BY DEF Users
    <3>4. in_use[value[u]] \in Nat /\ in_use[value[u]] # 0 BY <3>2, <3>3, UsersFinite
    <3> QED BY <3>1, <3>4
  <2> QED BY <1>2, <2>1 DEF CInv, UseCountExact
<1>7. Sending'
  BY DEF CInv, Sending, TypeOK
<1> QED BY <1>3, <1>4, <1>5, <1>6, <1>7 DEF CInv

\* cache_insert, when they do.
LEMMA InsertStep ==
    ASSUME CInv, NEW S, S \subseteq table, \A e \in S : in_use[e] <= 0,
           NEW w \in Worker, \A e \in table : file[e] # name[w],
           insert_entry(w, S, csize - TotalSize(Without(lru, Entry \ S))),
           csize - TotalSize(Without(lru, Entry \ S)) + bytes[w] <= MaxCache,
           name' = name, bytes' = bytes, value' = value,
           pc[w] = "insert", pc' = [pc EXCEPT ![w] = "send"]
    PROVE  CInv'
<1> DEFINE q == Without(lru, S)
           left == csize - TotalSize(Without(lru, Entry \ S))
<1>1. /\ q \in Seq(Entry) /\ Range(q) = table \ S /\ IsInjective(q)
      /\ left \in Nat /\ left <= csize /\ left = ListSize(size, q)
  BY EvictLeaves
<1>2. PICK e \in Entry \ (table \ S) :
        /\ table' = (table \ S) \cup {e}
        /\ lru' = Append(q, e)
        /\ csize' = left + bytes[w]
        /\ file' = [f \in Entry |-> IF f = e THEN name[w] ELSE IF f \in S THEN NULL ELSE file[f]]
        /\ size' = [f \in Entry |-> IF f = e THEN bytes[w] ELSE IF f \in S THEN 0 ELSE size[f]]
        /\ in_use' = [in_use EXCEPT ![e] = 0]
  BY DEF insert_entry
<1>3. left + bytes[w] <= MaxCache OBVIOUS
<1> HIDE DEF q, left
<1>4. size \in [Entry -> Nat] /\ bytes[w] \in Nat BY SizesAreNat DEF CInv
<1>5. /\ Append(q, e) \in Seq(Entry) /\ Range(Append(q, e)) = (table \ S) \cup {e}
      /\ IsInjective(Append(q, e))
  BY <1>1, AppendQueue
<1>6. TypeOK'
  <2>1. csize' \in 0 .. MaxCache BY <1>1, <1>2, <1>3, <1>4, FileCacheAssumption
  <2>2. lru' \in Seq(Entry) /\ table' \in SUBSET Entry BY <1>2, <1>5 DEF CInv, TypeOK
  <2>3. /\ file' \in [Entry -> File \cup {NULL}]
        /\ size' \in [Entry -> Sizes \cup {0}]
        /\ in_use' \in [Entry -> Int]
    BY <1>2 DEF CInv, TypeOK
  <2> QED BY <2>1, <2>2, <2>3 DEF CInv, TypeOK
<1>7. ListMatchesTable'
  <2>1. \A d \in table \ S : file'[d] = file[d] /\ d # e BY <1>2 DEF CInv, TypeOK
  <2>2. file'[e] = name[w] BY <1>2
  <2>3. \A c, d \in table : file[c] = file[d] => c = d BY DEF CInv, ListMatchesTable
  <2>4. \A c, d \in table' : file'[c] = file'[d] => c = d
    BY <1>2, <2>1, <2>2, <2>3
  <2>5. Range(lru') = table' /\ IsInjective(lru') BY <1>2, <1>5
  <2> QED BY <2>4, <2>5 DEF ListMatchesTable
<1>8. SizeExact'
  <2>1. size' \in [Entry -> Nat] BY <1>6, SizesAreNat DEF CInv
  <2>2. \A d \in Range(q) : size'[d] = size[d]
    BY <1>1, <1>2 DEF CInv, TypeOK
  <2>3. ListSize(size', q) = left
    <3>1. q \in Seq(Entry) /\ size \in [Entry -> Nat] BY <1>1, <1>4
    <3>2. ListSize(size', q) = ListSize(size, q) BY ONLY <2>1, <2>2, <3>1, ListSizeSame, SMTT(30)
    <3> QED BY <1>1, <3>2
  <2>4. ListSize(size', Append(q, e)) = ListSize(size', q) + size'[e]
    BY <1>1, <2>1, ListSizeAppend
  <2>5. size'[e] = bytes[w] BY <1>2
  <2>6. TotalSize(lru)' = ListSize(size', lru') BY DEF TotalSize, ListSize
  <2> QED BY <1>2, <1>3, <2>3, <2>4, <2>5, <2>6 DEF SizeExact
<1>9. ASSUME NEW u \in Worker, value[u] # NULL PROVE value[u] \in table \ S
  <2>1. value[u] \in table BY <1>9 DEF CInv, UseCountExact
  <2>2. in_use[value[u]] = Cardinality(Users(value, value[u]))
    BY <2>1 DEF CInv, UseCountExact, Users
  <2>3. u \in Users(value, value[u]) BY DEF Users
  <2>4. in_use[value[u]] \in Nat /\ in_use[value[u]] # 0 BY <2>2, <2>3, UsersFinite
  <2> QED BY <2>1, <2>4
<1>10. UseCountExact'
  <2>1. Users(value, e) = {} BY <1>9, FileCacheAssumption DEF Users
  <2>2. Cardinality({u \in Worker : value[u] = e}) = 0 BY <2>1, FS_EmptySet DEF Users
  <2>3. in_use'[e] = 0 BY <1>2 DEF CInv, TypeOK
  <2>4. ASSUME NEW d \in table \ S PROVE in_use'[d] = Cardinality({u \in Worker : value[u] = d})
    BY <1>2 DEF CInv, TypeOK, UseCountExact
  <2>5. \A d \in table' : in_use'[d] = Cardinality({u \in Worker : value[u] = d})
    BY <1>2, <2>2, <2>3, <2>4
  <2> QED BY <1>2, <1>9, <2>5 DEF UseCountExact
<1>11. Sending'
  BY DEF CInv, Sending, TypeOK
<1> QED BY <1>6, <1>7, <1>8, <1>10, <1>11 DEF CInv

\* cache_insert.
LEMMA CacheInsertStep == ASSUME CInv, NEW w \in Worker, cache_insert(w) PROVE CInv'
<1> DEFINE S == IF csize + bytes[w] > MaxCache
                  THEN cache_evict(bytes[w] - (MaxCache - csize)) ELSE {}
           left == csize - TotalSize(Without(lru, Entry \ S))
<1>1. /\ pc[w] = "insert" /\ pc' = [pc EXCEPT ![w] = "send"]
      /\ name' = name /\ bytes' = bytes /\ value' = value
      /\ IF (\E e \in table : file[e] = name[w]) \/ bytes[w] > MaxCache
           THEN UNCHANGED cacheVars
           ELSE IF left + bytes[w] > MaxCache THEN drop_entries(S, left)
                                              ELSE insert_entry(w, S, left)
  BY DEF cache_insert
<1>2. S \subseteq table /\ \A e \in S : in_use[e] <= 0
  BY EvictUnused DEF CInv
<1>3. CASE (\E e \in table : file[e] = name[w]) \/ bytes[w] > MaxCache
  <2>1. UNCHANGED cacheVars BY <1>1, <1>3
  <2>2. UNCHANGED <<table, lru, csize, file, size, in_use>>
    BY <2>1 DEF cacheVars, entryVars
  <2>3. TypeOK' BY <1>1, <2>2 DEF CInv, TypeOK
  <2>4. ListMatchesTable' /\ SizeExact' /\ UseCountExact'
    BY <1>1, <2>2 DEF CInv, ListMatchesTable, SizeExact, UseCountExact, TotalSize
  <2>5. Sending' BY <1>1 DEF CInv, Sending, TypeOK
  <2> QED BY <2>3, <2>4, <2>5 DEF CInv
<1>4. CASE ~ ((\E e \in table : file[e] = name[w]) \/ bytes[w] > MaxCache)
  <2>1. CASE left + bytes[w] > MaxCache
    <3>1. drop_entries(S, left) BY <1>1, <1>4, <2>1
    <3> HIDE DEF S
    <3> QED BY <1>1, <1>2, <3>1, DropStep
  <2>2. CASE ~ (left + bytes[w] > MaxCache)
    <3>1. insert_entry(w, S, left) BY <1>1, <1>4, <2>2
    <3> HIDE DEF S
    <3>2. left \in Nat /\ bytes[w] \in Nat BY <1>2, EvictLeaves, SizesAreNat DEF CInv
    <3>3. left + bytes[w] <= MaxCache BY <2>2, <3>2, FileCacheAssumption
    <3> QED BY <1>1, <1>2, <1>4, <3>1, <3>3, InsertStep
  <2> QED BY <2>1, <2>2
<1> QED BY <1>3, <1>4

\* cache_lookup finds the file.
LEMMA HitStep == ASSUME CInv, NEW w \in Worker, NEW f \in File, lookup_hit(w, f) PROVE CInv'
<1>1. PICK e \in table :
        /\ file[e] = f
        /\ in_use' = [in_use EXCEPT ![e] = @ + 1]
        /\ lru' = move_node_to_end(lru, e)
        /\ value' = [value EXCEPT ![w] = e]
  BY DEF lookup_hit
<1>2. /\ pc[w] = "idle" /\ pc' = [pc EXCEPT ![w] = "send"]
      /\ name' = [name EXCEPT ![w] = f]
      /\ UNCHANGED <<table, csize, file, size, bytes>>
  BY DEF lookup_hit
<1>3. /\ lru \in Seq(Entry) /\ size \in [Entry -> Nat] /\ IsInjective(lru)
      /\ Range(lru) = table /\ e \in Entry
  BY SizesAreNat DEF CInv, TypeOK, ListMatchesTable
<1>4. /\ lru' \in Seq(Entry) /\ Range(lru') = table /\ IsInjective(lru')
      /\ ListSize(size, lru') = ListSize(size, lru)
  BY <1>1, <1>3, MoveKeeps
<1>5. TypeOK'
  BY <1>1, <1>2, <1>3, <1>4 DEF CInv, TypeOK
<1>6. ListMatchesTable'
  BY <1>2, <1>4 DEF CInv, ListMatchesTable
<1>7. SizeExact'
  <2>1. TotalSize(lru)' = ListSize(size', lru') BY DEF TotalSize, ListSize
  <2>2. TotalSize(lru) = ListSize(size, lru) BY DEF TotalSize, ListSize
  <2> QED BY <1>2, <1>4, <2>1, <2>2 DEF CInv, SizeExact
<1>8. value[w] = NULL BY <1>2 DEF CInv, Sending
<1>9. UseCountExact'
  <2>1. \A u \in Worker : value'[u] # NULL => value'[u] \in table'
    BY <1>1, <1>2 DEF CInv, TypeOK, UseCountExact
  <2>2. ASSUME NEW d \in table PROVE in_use'[d] = Cardinality(Users(value', d))
    <3>1. in_use[d] = Cardinality(Users(value, d)) BY DEF CInv, UseCountExact, Users
    <3>2. d \in Entry /\ d # NULL BY FileCacheAssumption DEF CInv, TypeOK
    <3>3. CASE d = e
      <4>1. Users(value', d) = Users(value, d) \cup {w} BY <1>1, <3>3 DEF Users, CInv, TypeOK
      <4>2. w \notin Users(value, d) BY <1>8, <3>2 DEF Users
      <4>3. Cardinality(Users(value', d)) = Cardinality(Users(value, d)) + 1
        BY <4>1, <4>2, UsersFinite, FS_AddElement
      <4>4. in_use'[d] = in_use[d] + 1 BY <1>1, <3>2, <3>3 DEF CInv, TypeOK
      <4> QED BY <3>1, <4>3, <4>4
    <3>4. CASE d # e
      <4>1. Users(value', d) = Users(value, d) BY <1>1, <1>8, <3>2, <3>4 DEF Users, CInv, TypeOK
      <4>2. in_use'[d] = in_use[d] BY <1>1, <3>2, <3>4 DEF CInv, TypeOK
      <4> QED BY <3>1, <4>1, <4>2
    <3> QED BY <3>3, <3>4
  <2> QED BY <1>2, <2>1, <2>2 DEF UseCountExact, Users
<1>10. Sending'
  BY <1>1, <1>2 DEF CInv, Sending, TypeOK
<1> QED BY <1>5, <1>6, <1>7, <1>9, <1>10 DEF CInv

\* The worker has sent the file.
LEMMA FinishStep == ASSUME CInv, NEW w \in Worker, finish_request(w) PROVE CInv'
<1>1. /\ in_use' = IF value[w] = NULL THEN in_use ELSE [in_use EXCEPT ![value[w]] = @ - 1]
      /\ value' = [value EXCEPT ![w] = NULL]
      /\ pc' = [pc EXCEPT ![w] = "idle"] /\ name' = [name EXCEPT ![w] = NULL]
      /\ bytes' = [bytes EXCEPT ![w] = 0]
      /\ UNCHANGED <<table, lru, csize, file, size>>
  BY DEF finish_request, Forget
<1>2. TypeOK' BY <1>1 DEF CInv, TypeOK
<1>3. ListMatchesTable' /\ SizeExact'
  BY <1>1 DEF CInv, ListMatchesTable, SizeExact, TotalSize
<1>4. Sending' BY <1>1 DEF CInv, Sending, TypeOK
<1>5. UseCountExact'
  <2>1. \A u \in Worker : value'[u] # NULL => value'[u] \in table'
    BY <1>1 DEF CInv, TypeOK, UseCountExact
  <2>2. ASSUME NEW d \in table PROVE in_use'[d] = Cardinality(Users(value', d))
    <3>1. in_use[d] = Cardinality(Users(value, d)) BY DEF CInv, UseCountExact, Users
    <3>2. d \in Entry /\ d # NULL BY FileCacheAssumption DEF CInv, TypeOK
    <3>3. CASE d = value[w]
      <4>1. Users(value', d) = Users(value, d) \ {w}
        BY <1>1, <3>2, <3>3 DEF Users, CInv, TypeOK
      <4>2. w \in Users(value, d) BY <3>3 DEF Users
      <4>3. Cardinality(Users(value', d)) = Cardinality(Users(value, d)) - 1
        BY <4>1, <4>2, UsersFinite, FS_RemoveElement, ZenonT(30)
      <4>4. in_use'[d] = in_use[d] - 1 BY <1>1, <3>2, <3>3 DEF CInv, TypeOK
      <4> QED BY <3>1, <4>3, <4>4
    <3>4. CASE d # value[w]
      <4>1. Users(value', d) = Users(value, d)
        BY <1>1, <3>2, <3>4 DEF Users, CInv, TypeOK
      <4>2. in_use'[d] = in_use[d] BY <1>1, <3>2, <3>4 DEF CInv, TypeOK
      <4> QED BY <3>1, <4>1, <4>2
    <3> QED BY <3>3, <3>4
  <2> QED BY <1>1, <2>1, <2>2 DEF UseCountExact, Users
<1> QED BY <1>2, <1>3, <1>4, <1>5 DEF CInv

\* The steps that leave the cache alone.
LEMMA OtherStep ==
    ASSUME CInv,
           \/ \E w \in Worker : \/ \E f \in File : lookup_miss(w, f)
                                \/ \E n \in Sizes : request_readfile(w, n)
                                \/ readfile_fails(w)
           \/ UNCHANGED vars
    PROVE  CInv'
<1> USE DEF CInv, cacheVars, entryVars
<1>1. UNCHANGED <<table, lru, csize, file, size, in_use>>
  BY DEF lookup_miss, request_readfile, readfile_fails, vars
<1>2. value' = value
  <2>1. ASSUME NEW w \in Worker, readfile_fails(w) PROVE value' = value
    <3>1. value[w] = NULL BY <2>1 DEF readfile_fails, Sending
    <3>2. value \in [Worker -> Entry \cup {NULL}] BY DEF TypeOK
    <3> QED BY <2>1, <3>1, <3>2 DEF readfile_fails, Forget
  <2> QED BY <2>1 DEF lookup_miss, request_readfile, vars, workerVars
<1>3. TypeOK'
  <2>1. ASSUME NEW w \in Worker, NEW f \in File, lookup_miss(w, f) PROVE TypeOK'
    BY <1>1, <1>2, <2>1 DEF lookup_miss, TypeOK
  <2>2. ASSUME NEW w \in Worker, NEW n \in Sizes, request_readfile(w, n) PROVE TypeOK'
    BY <1>1, <1>2, <2>2 DEF request_readfile, TypeOK
  <2>3. ASSUME NEW w \in Worker, readfile_fails(w) PROVE TypeOK'
    BY <1>1, <1>2, <2>3 DEF readfile_fails, Forget, TypeOK
  <2>4. CASE UNCHANGED vars BY <1>1, <1>2, <2>4 DEF vars, workerVars, TypeOK
  <2> QED BY <2>1, <2>2, <2>3, <2>4
<1>4. ListMatchesTable' /\ SizeExact' /\ UseCountExact'
  BY <1>1, <1>2 DEF ListMatchesTable, SizeExact, TotalSize, UseCountExact
<1>5. Sending'
  <2>1. ASSUME NEW w \in Worker, NEW f \in File, lookup_miss(w, f) PROVE Sending'
    BY <1>2, <2>1 DEF lookup_miss, TypeOK, Sending
  <2>2. ASSUME NEW w \in Worker, NEW n \in Sizes, request_readfile(w, n) PROVE Sending'
    BY <1>2, <2>2 DEF request_readfile, TypeOK, Sending
  <2>3. ASSUME NEW w \in Worker, readfile_fails(w) PROVE Sending'
    BY <1>2, <2>3 DEF readfile_fails, Forget, TypeOK, Sending
  <2>4. CASE UNCHANGED vars BY <1>2, <2>4 DEF vars, workerVars, Sending
  <2> QED BY <2>1, <2>2, <2>3, <2>4
<1> QED BY <1>3, <1>4, <1>5

\* server_init: an empty cache, used by nobody.
LEMMA InitCache == Init => CInv
<1> SUFFICES ASSUME Init PROVE CInv
  OBVIOUS
<1>1. TypeOK BY FileCacheAssumption DEF Init, TypeOK
<1>2. ListMatchesTable BY EmptyQueue DEF Init, ListMatchesTable
<1>3. SizeExact
  <2>1. lru = <<>> /\ lru \in Seq(Entry) /\ size \in [Entry -> Nat] /\ csize = 0
    BY <1>1, SizesAreNat DEF Init, TypeOK
  <2>2. TotalSize(lru) = 0 BY <2>1, ListSizeType DEF TotalSize, ListSize
  <2> QED BY <2>1, <2>2, FileCacheAssumption DEF SizeExact
<1>4. UseCountExact BY DEF Init, UseCountExact
<1>5. Sending BY DEF Init, Sending
<1> QED BY <1>1, <1>2, <1>3, <1>4, <1>5 DEF CInv

\* The inductive invariant holds throughout.
LEMMA AlwaysCInv == Spec => []CInv
<1>1. CInv /\ [Next]_vars => CInv'
  <2> SUFFICES ASSUME CInv, [Next]_vars PROVE CInv'
    OBVIOUS
  <2>1. ASSUME NEW w \in Worker, NEW f \in File, lookup_hit(w, f) PROVE CInv'
    BY <2>1, HitStep
  <2>2. ASSUME NEW w \in Worker, cache_insert(w) PROVE CInv'
    BY <2>2, CacheInsertStep
  <2>3. ASSUME NEW w \in Worker, finish_request(w) PROVE CInv'
    BY <2>3, FinishStep
  <2>4. CASE \/ \E w \in Worker : \/ \E f \in File : lookup_miss(w, f)
                                  \/ \E n \in Sizes : request_readfile(w, n)
                                  \/ readfile_fails(w)
             \/ UNCHANGED vars
    BY <2>4, OtherStep
  <2> QED BY <2>1, <2>2, <2>3, <2>4 DEF Next
<1> QED BY <1>1, InitCache, PTL DEF Spec

\* The list and the hash table hold the same entries, and no file is cached
\* twice, whatever two workers in cache_lookup and cache_insert do.
THEOREM CacheConsistent == Spec => []ListMatchesTable
<1>1. CInv => ListMatchesTable BY DEF CInv
<1> QED BY <1>1, AlwaysCInv, PTL

\* cache->size is the sum of the sizes of the cached files, at most max_cache_size.
THEOREM CacheSizeKept == Spec => []SizeExact
<1>1. CInv => SizeExact BY DEF CInv
<1> QED BY <1>1, AlwaysCInv, PTL

\* in_use counts the workers that send from an entry, and cache_evict frees no such entry.
THEOREM UsedEntriesStay == Spec => []UseCountExact
<1>1. CInv => UseCountExact BY DEF CInv
<1> QED BY <1>1, AlwaysCInv, PTL

-----------------------------------------------------------------------------
(* The order of evictions *)

\* A nonempty set of numbers up to L has a greatest one.
LEMMA GreatestNumber ==
    ASSUME NEW L \in Nat, NEW T, T \subseteq 0 .. L, T # {}
    PROVE  \E x \in T : \A y \in T : y <= x
<1> DEFINE M == {n \in 0 .. L : L - n \in T}
<1>1. M \subseteq Nat /\ M # {}
  <2>1. PICK t \in T : TRUE OBVIOUS
  <2>2. t \in 0 .. L /\ L - t \in 0 .. L /\ L - (L - t) = t BY <2>1
  <2>3. L - t \in M BY <2>2
  <2>4. M \subseteq Nat OBVIOUS
  <2> HIDE DEF M
  <2> QED BY <2>3, <2>4
<1>2. PICK n \in M : \A y \in M : n <= y
  <2> HIDE DEF M
  <2> QED BY <1>1, LeastNumber
<1>3. ASSUME NEW y \in T PROVE y <= L - n
  <2>1. y \in 0 .. L /\ L - y \in 0 .. L /\ L - (L - y) = y OBVIOUS
  <2>2. L - y \in M BY <2>1
  <2>3. n <= L - y BY <1>2, <2>2
  <2> QED BY <2>1, <2>3
<1> QED BY <1>2, <1>3

\* Without keeps the order.
LEMMA WithoutOrder ==
    ASSUME NEW E, NEW q \in Seq(E), NEW S, IsInjective(q),
           NEW a \in 1 .. Len(Without(q, S)), NEW c \in 1 .. Len(Without(q, S)), a < c,
           NEW p \in 1 .. Len(q), NEW r \in 1 .. Len(q),
           q[p] = Without(q, S)[a], q[r] = Without(q, S)[c]
    PROVE  p < r
<1> DEFINE k == Kept(q, S)
           L == Len(q)
           Before(s, n) == \A x \in 1 .. Len(s) : \E j \in 1 .. n : s[x] = q[j]
           Ordered(s) == \A x, y \in 1 .. Len(s) : \A i, j \in 1 .. L :
                            x < y /\ q[i] = s[x] /\ q[j] = s[y] => i < j
           T == {i \in 0 .. L : Before(k[i], i) /\ Ordered(k[i])}
<1>1. /\ k \in [0 .. L -> Seq(E)] /\ k[0] = <<>>
      /\ \A i \in 1 .. L : k[i] = IF q[i] \in S THEN k[i - 1] ELSE Append(k[i - 1], q[i])
  BY KeptSteps
<1>2. /\ L \in Nat /\ \A i \in 1 .. L : q[i] \in E
      /\ \A i, j \in 1 .. L : q[i] = q[j] => i = j
  BY DEF IsInjective
<1>3. Without(q, S) = k[L] BY DEF Without
<1> HIDE DEF k, L
<1>4. 0 \in T BY <1>1, <1>2, SMTT(30)
<1>5. ASSUME NEW i \in 1 .. L, i - 1 \in T PROVE i \in T
  <2>1. i \in 0 .. L /\ i - 1 \in 0 .. L BY <1>2
  <2>2. k[i - 1] \in Seq(E) /\ q[i] \in E BY <1>1, <1>2, <2>1
  <2>3. Before(k[i - 1], i - 1) /\ Ordered(k[i - 1]) BY <1>5
  <2>4. Before(k[i - 1], i)
    <3>1. \A j \in 1 .. i - 1 : j \in 1 .. i BY <2>1
    <3> QED BY <2>3, <3>1
  <2>5. CASE k[i] = k[i - 1]
    <3>1. Before(k[i], i) /\ Ordered(k[i]) BY <2>3, <2>4, <2>5
    <3> HIDE DEF Before, Ordered
    <3> QED BY <2>1, <3>1
  <2>6. CASE k[i] = Append(k[i - 1], q[i])
    <3> DEFINE s == k[i - 1]
               t == k[i]
               n == Len(s)
    <3>1. /\ n \in Nat /\ Len(t) = n + 1 /\ t[n + 1] = q[i]
          /\ \A x \in 1 .. n : t[x] = s[x]
      BY <2>2, <2>6, SMTT(30)
    <3>2. /\ \A x \in 1 .. n : \E j \in 1 .. i - 1 : s[x] = q[j]
          /\ \A x, y \in 1 .. n : \A g, j \in 1 .. L :
                x < y /\ q[g] = s[x] /\ q[j] = s[y] => g < j
      BY <2>3
    <3> HIDE DEF s, t, n
    <3>3. \A x \in 1 .. n + 1 : x \in 1 .. n \/ x = n + 1 BY <3>1
    <3>4. \A x \in 1 .. n + 1 : \E j \in 1 .. i : t[x] = q[j]
      <4>1. i \in 1 .. i /\ \A j \in 1 .. i - 1 : j \in 1 .. i BY <2>1
      <4> QED BY <3>1, <3>2, <3>3, <4>1
    <3>5. ASSUME NEW x \in 1 .. n + 1, NEW y \in 1 .. n + 1, NEW g \in 1 .. L, NEW j \in 1 .. L,
                 x < y, q[g] = t[x], q[j] = t[y]
          PROVE  g < j
      <4>1. x \in 1 .. n BY <3>1, <3>5
      <4>2. CASE y \in 1 .. n BY <3>1, <3>2, <3>5, <4>1, <4>2
      <4>3. CASE y = n + 1
        <5>1. j = i BY <1>2, <3>1, <3>5, <4>3, SMTT(30)
        <5>2. PICK h \in 1 .. i - 1 : s[x] = q[h] BY <3>2, <4>1
        <5>3. h \in 1 .. L /\ h < i BY <1>2, <2>1
        <5>4. q[g] = q[h] BY <3>1, <3>5, <4>1, <5>2
        <5>5. g = h BY <1>2, <5>3, <5>4
        <5> QED BY <5>1, <5>3, <5>5
      <4> QED BY <3>3, <4>2, <4>3
    <3>6. Before(t, i) /\ Ordered(t) BY <3>1, <3>4, <3>5
    <3> HIDE DEF Before, Ordered
    <3> QED BY <2>1, <3>6 DEF t
  <2>7. k[i] = k[i - 1] \/ k[i] = Append(k[i - 1], q[i]) BY <1>1, Zenon
  <2> QED BY <2>5, <2>6, <2>7
<1>6. \A i \in 0 .. L : i \in T
  <2> HIDE DEF T
  <2> QED BY <1>2, <1>4, <1>5, UpTo
<1>7. L \in 0 .. L BY <1>2
<1>8. Ordered(k[L]) BY <1>6, <1>7
<1> QED BY <1>3, <1>8 DEF L

\* Two lists of the same entries, each once, take the same space.
LEMMA SameMembersSameSize ==
    ASSUME NEW E, NEW sz \in [E -> Nat], NEW q \in Seq(E), NEW r \in Seq(E),
           IsInjective(q), IsInjective(r), Range(q) = Range(r)
    PROVE  ListSize(sz, r) = ListSize(sz, q)
<1> DEFINE L == Len(q)
           f == SizeUpTo(sz, q)
           Upto(i) == {q[j] : j \in 1 .. i}
           Same(i) == \A s \in Seq(E) : IsInjective(s) /\ Range(s) = Upto(i) => ListSize(sz, s) = f[i]
           T == {i \in 0 .. L : Same(i)}
<1>1. L \in Nat /\ \A i \in 1 .. L : q[i] \in E OBVIOUS
<1>2. f[0] = 0 /\ \A i \in 1 .. L : f[i] = f[i - 1] + sz[q[i]]
  BY SizeSteps, SMTT(30)
<1>3. Range(q) = Upto(L) BY DEF Range
<1>4. \A i \in 1 .. L : q[i] \notin Upto(i - 1) BY DEF IsInjective
<1>5. ListSize(sz, q) = f[L] BY DEF ListSize
<1> HIDE DEF L, f
<1>6. \A i \in 1 .. L : Upto(i) = Upto(i - 1) \cup {q[i]}
  <2> SUFFICES ASSUME NEW i \in 1 .. L PROVE Upto(i) = Upto(i - 1) \cup {q[i]}
    OBVIOUS
  <2>1. \A j : j \in 1 .. i <=> (j \in 1 .. i - 1 \/ j = i) BY <1>1
  <2> QED BY <2>1
<1>7. Upto(0) = {} OBVIOUS
<1> HIDE DEF Upto
<1>8. 0 \in T
  <2>1. ASSUME NEW s \in Seq(E), Range(s) = {} PROVE ListSize(sz, s) = 0
    BY <2>1, NoMembers, ListSizeType
  <2>2. Same(0) BY <1>2, <1>7, <2>1
  <2> HIDE DEF Same
  <2> QED BY <1>1, <2>2
<1>9. ASSUME NEW i \in 1 .. L, i - 1 \in T PROVE i \in T
  <2>1. Same(i - 1) /\ i \in 0 .. L BY <1>1, <1>9
  <2>2. ASSUME NEW s \in Seq(E), IsInjective(s), Range(s) = Upto(i)
        PROVE  ListSize(sz, s) = f[i]
    <3> DEFINE x == q[i]
               u == Without(s, {x})
               v == Without(s, E \ {x})
    <3>1. x \in E /\ Upto(i) = Upto(i - 1) \cup {x} /\ x \notin Upto(i - 1)
      BY <1>1, <1>4, <1>6
    <3> HIDE DEF x
    <3>2. u \in Seq(E) /\ IsInjective(u) /\ Range(u) = Range(s) \ {x}
      BY <2>2, WithoutMembers
    <3>3. v \in Seq(E) /\ IsInjective(v) /\ Range(v) = Range(s) \ (E \ {x})
      BY <2>2, WithoutMembers
    <3>4. ListSize(sz, u) + ListSize(sz, v) = ListSize(sz, s)
      <4> DEFINE Y == {x}
      <4> HIDE DEF Y
      <4>1. ListSize(sz, Without(s, Y)) + ListSize(sz, Without(s, E \ Y)) = ListSize(sz, s)
        BY ListSizeSplit, ZenonT(30)
      <4> QED BY <4>1, Zenon DEF Y
    <3> HIDE DEF u, v
    <3>5. Range(u) = Upto(i - 1) BY <2>2, <3>1, <3>2
    <3>6. Range(v) = {x}
      <4>1. Range(s) \subseteq E BY QueueMembers
      <4> QED BY <2>2, <3>1, <3>3, <4>1
    <3>7. ListSize(sz, v) = sz[x]
      BY ONLY <3>1, <3>3, <3>6, sz \in [E -> Nat], ListSizeOne
    <3>8. ListSize(sz, u) = f[i - 1] BY <2>1, <3>2, <3>5
    <3>9. f[i] = f[i - 1] + sz[x] BY <1>2 DEF x
    <3> QED BY <3>4, <3>7, <3>8, <3>9
  <2>3. Same(i) BY <2>2
  <2> HIDE DEF Same
  <2> QED BY <2>1, <2>3
<1>10. \A i \in 0 .. L : i \in T
  <2> HIDE DEF T
  <2> QED BY <1>1, <1>8, <1>9, UpTo
<1>11. Same(L) BY <1>1, <1>10
<1> QED BY <1>3, <1>5, <1>11

\* cache_evict takes the front of the entries not in use, and stops as soon as
\* there is enough: p is the position of the last one it takes.
LEMMA EvictsFront ==
    ASSUME CInv, NEW amount \in Int, amount > 0, NEW S, S = cache_evict(amount), S # {}
    PROVE  /\ \A i, j \in 1 .. Len(lru) :
                lru[i] \in S /\ lru[j] \notin S /\ in_use[lru[j]] <= 0 => i < j
           /\ \E p \in 1 .. Len(lru) :
                /\ lru[p] \in S
                /\ \A i \in 1 .. Len(lru) : lru[i] \in S => i <= p
                /\ ListSize(size, Without(lru, Entry \ (S \ {lru[p]}))) < amount
<1> DEFINE used == {d \in Entry : in_use[d] > 0}
           idle == Without(lru, used)
           N == Len(idle)
           Enough(k) == TotalSize(SubSeq(idle, 1, k)) >= amount
           J == {j \in 1 .. N : \A k \in 1 .. j - 1 : ~Enough(k)}
<1>1. /\ lru \in Seq(Entry) /\ IsInjective(lru) /\ Range(lru) = table
      /\ size \in [Entry -> Nat] /\ in_use \in [Entry -> Int]
  BY SizesAreNat DEF CInv, TypeOK, ListMatchesTable
<1>2. idle \in Seq(Entry) /\ Range(idle) = Range(lru) \ used /\ IsInjective(idle)
  BY <1>1, WithoutMembers
<1>3. S = {idle[i] : i \in J} BY DEF cache_evict
<1>4. \A a, c \in 1 .. N : \A i, j \in 1 .. Len(lru) :
        a < c /\ lru[i] = idle[a] /\ lru[j] = idle[c] => i < j
  BY <1>1, WithoutOrder
<1> HIDE DEF idle
<1>5. N \in Nat /\ Len(lru) \in Nat BY <1>1, <1>2
<1>6. \A a \in 1 .. N : idle[a] \in Range(lru) \ used BY <1>2 DEF Range
<1>7. \A a, c \in 1 .. N : idle[a] = idle[c] => a = c BY <1>2 DEF IsInjective
<1>8. PICK m \in J : \A j \in J : j <= m
  <2>1. J \subseteq 0 .. N /\ J # {} BY <1>3, <1>5
  <2> HIDE DEF J, N
  <2> QED BY <1>5, <2>1, GreatestNumber
<1>9. m \in 1 .. N /\ \A k \in 1 .. m - 1 : ~Enough(k) BY <1>8
<1>10. J = 1 .. m
  <2>1. ASSUME NEW j \in 1 .. m PROVE j \in J
    <3>1. j \in 1 .. N BY <1>5, <1>9
    <3>2. \A k \in 1 .. j - 1 : k \in 1 .. m - 1 BY <1>5, <1>9
    <3>3. \A k \in 1 .. j - 1 : ~Enough(k) BY <1>9, <3>2
    <3> HIDE DEF Enough
    <3> QED BY <3>1, <3>3
  <2>2. ASSUME NEW j \in J PROVE j \in 1 .. m
    <3>1. j \in 1 .. N /\ j <= m BY <1>8
    <3> QED BY <1>5, <1>9, <3>1
  <2> QED BY <2>1, <2>2
<1> HIDE DEF J
<1>11. S = {idle[a] : a \in 1 .. m} BY <1>3, <1>10
<1>12. \A a \in 1 .. m : a \in 1 .. N BY <1>5, <1>9
<1>13. ASSUME NEW i \in 1 .. Len(lru), NEW j \in 1 .. Len(lru),
              lru[i] \in S, lru[j] \notin S, in_use[lru[j]] <= 0
       PROVE  i < j
  <2>1. PICK a \in 1 .. m : lru[i] = idle[a] BY <1>11, <1>13
  <2>2. lru[j] \in Range(lru) /\ lru[j] \in Entry BY <1>1 DEF Range
  <2>3. in_use[lru[j]] \in Int BY <1>1, <2>2
  <2>4. lru[j] \notin used BY <1>13, <2>3
  <2>5. lru[j] \in Range(idle) BY <1>2, <2>2, <2>4
  <2>6. PICK c \in 1 .. N : lru[j] = idle[c] BY <1>2, <2>5 DEF Range
  <2>7. c \notin 1 .. m BY <1>11, <1>13, <2>6
  <2>8. a < c BY <1>5, <1>9, <2>7
  <2> QED BY <1>4, <1>12, <2>1, <2>6, <2>8
<1>14. PICK p \in 1 .. Len(lru) : lru[p] = idle[m]
  <2>1. idle[m] \in Range(lru) BY <1>6, <1>9
  <2>2. DOMAIN lru = 1 .. Len(lru) BY <1>1
  <2> QED BY <2>1, <2>2 DEF Range
<1>15. lru[p] \in S BY <1>5, <1>9, <1>11, <1>14
<1>16. ASSUME NEW i \in 1 .. Len(lru), lru[i] \in S PROVE i <= p
  <2>1. PICK a \in 1 .. m : lru[i] = idle[a] BY <1>11, <1>16
  <2>2. CASE a = m
    <3>1. lru[i] = lru[p] BY <1>14, <2>1, <2>2
    <3>2. i = p BY <1>1, <3>1 DEF IsInjective
    <3> QED BY <1>5, <3>2
  <2>3. CASE a # m
    <3>1. a < m BY <1>5, <1>9, <2>3
    <3>2. i < p BY <1>4, <1>9, <1>12, <1>14, <2>1, <3>1
    <3> QED BY <1>5, <3>2
  <2> QED BY <2>2, <2>3
<1>17. ListSize(size, Without(lru, Entry \ (S \ {lru[p]}))) < amount
  <2> DEFINE s == SubSeq(idle, 1, m - 1)
             R == Entry \ (S \ {lru[p]})
             t == Without(lru, R)
  <2>1. /\ s \in Seq(Entry) /\ Len(s) = m - 1
        /\ \A a \in 1 .. m - 1 : s[a] = idle[a]
    BY <1>2, <1>5, <1>9
  <2>2. t \in Seq(Entry) /\ Range(t) = Range(lru) \ R /\ IsInjective(t)
    BY <1>1, WithoutMembers
  <2>3. S \ {lru[p]} = {idle[a] : a \in 1 .. m - 1}
    <3>1. \A a \in 1 .. m : idle[a] # lru[p] <=> a \in 1 .. m - 1
      BY <1>5, <1>7, <1>9, <1>12, <1>14
    <3>2. \A a \in 1 .. m - 1 : a \in 1 .. m BY <1>5, <1>9
    <3> QED BY <1>11, <3>1, <3>2
  <2> HIDE DEF s
  <2>4. Range(s) = {idle[a] : a \in 1 .. m - 1} BY <2>1 DEF Range
  <2>5. \A a, c \in 1 .. m - 1 : idle[a] = idle[c] => a = c BY <1>5, <1>7, <1>9
  <2>6. IsInjective(s) BY <2>1, <2>5 DEF IsInjective
  <2>7. S \ {lru[p]} \subseteq Range(lru) /\ Range(lru) \subseteq Entry
    BY <1>1, <1>6, <1>11, <1>12, QueueMembers
  <2>8. Range(t) = Range(s) BY <2>2, <2>3, <2>4, <2>7
  <2> HIDE DEF t, R
  <2>9. ListSize(size, t) = ListSize(size, s)
    BY <1>1, <2>1, <2>2, <2>6, <2>8, SameMembersSameSize, ZenonT(30)
  <2>10. ListSize(size, s) < amount
    <3>1. ListSize(size, s) \in Nat BY <1>1, <2>1, ListSizeType
    <3>2. CASE m - 1 \in 1 .. m - 1
      <4>1. ~ (TotalSize(s) >= amount) BY <1>9, <3>2 DEF s
      <4>2. TotalSize(s) = ListSize(size, s) BY DEF TotalSize, ListSize
      <4> QED BY <3>1, <4>1, <4>2
    <3>3. CASE m - 1 \notin 1 .. m - 1
      <4>1. m - 1 = 0 BY <1>5, <1>9, <3>3
      <4>2. s = <<>> BY <2>1, <4>1
      <4> QED BY <1>1, <2>1, <4>2, ListSizeType
    <3> QED BY <3>2, <3>3
  <2> QED BY <2>9, <2>10 DEF t, R
<1> QED BY <1>13, <1>15, <1>16, <1>17

\* Where no entry leaves the cache, nothing is evicted.
LEMMA NothingEvicted == ASSUME CInv, table' = table, file' = file PROVE EvictsInOrder
<1>1. \A i \in DOMAIN lru : lru[i] \in table BY DEF CInv, ListMatchesTable, Range
<1>2. Evicted = {} BY <1>1 DEF Evicted
<1> QED BY <1>2 DEF EvictsInOrder

\* The entries of S are the evicted ones, whether the new file is inserted or not.
LEMMA EvictedAreGone ==
    ASSUME CInv, NEW S, S \subseteq table, NEW n, \A e \in table : file[e] # n,
           \/ /\ table' = table \ S
              /\ file' = [f \in Entry |-> IF f \in S THEN NULL ELSE file[f]]
           \/ \E e \in Entry \ (table \ S) :
                /\ table' = (table \ S) \cup {e}
                /\ file' = [f \in Entry |-> IF f = e THEN n ELSE IF f \in S THEN NULL ELSE file[f]]
    PROVE  Evicted = {i \in 1 .. Len(lru) : lru[i] \in S}
<1>1. lru \in Seq(Entry) /\ \A i \in 1 .. Len(lru) : lru[i] \in table
  BY DEF CInv, TypeOK, ListMatchesTable, Range
<1>2. DOMAIN lru = 1 .. Len(lru) /\ table \subseteq Entry BY <1>1 DEF CInv, TypeOK
<1>3. \A c, d \in table : file[c] = file[d] => c = d BY DEF CInv, ListMatchesTable
<1>4. /\ table \ S \subseteq table'
      /\ \A d \in table \ S : file'[d] = file[d]
      /\ \A d \in table' : d \in table \ S \/ file'[d] = n
  BY <1>2
<1>5. ASSUME NEW i \in 1 .. Len(lru), lru[i] \in S
      PROVE  \A e \in table' : file'[e] # file[lru[i]]
  BY <1>1, <1>3, <1>4, <1>5
<1>6. ASSUME NEW i \in 1 .. Len(lru), lru[i] \notin S
      PROVE  \E e \in table' : file'[e] = file[lru[i]]
  BY <1>1, <1>4, <1>6
<1> QED BY <1>2, <1>5, <1>6 DEF Evicted

\* The evictions of cache_insert.
LEMMA InsertEvicts ==
    ASSUME CInv, NEW w \in Worker, pc[w] = "insert", pc' = [pc EXCEPT ![w] = "send"],
           csize + bytes[w] > MaxCache,
           NEW S, S = cache_evict(bytes[w] - (MaxCache - csize)),
           Evicted = {i \in 1 .. Len(lru) : lru[i] \in S}
    PROVE  EvictsInOrder
<1> DEFINE amount == bytes[w] - (MaxCache - csize)
<1>1. /\ bytes[w] \in Nat /\ csize \in Nat /\ MaxCache \in Nat
      /\ lru \in Seq(Entry) /\ size \in [Entry -> Nat] /\ S \subseteq table
      /\ Range(lru) = table
  BY SizesAreNat, EvictUnused, FileCacheAssumption DEF CInv, TypeOK, ListMatchesTable
<1>2. amount \in Int /\ amount > 0 BY <1>1
<1> SUFFICES ASSUME Evicted # {} PROVE EvictsInOrder
  BY DEF EvictsInOrder
<1>3. S # {} OBVIOUS
<1> HIDE DEF amount
<1>4. /\ \A i, j \in 1 .. Len(lru) :
           lru[i] \in S /\ lru[j] \notin S /\ in_use[lru[j]] <= 0 => i < j
      /\ \E p \in 1 .. Len(lru) :
           /\ lru[p] \in S
           /\ \A i \in 1 .. Len(lru) : lru[i] \in S => i <= p
           /\ ListSize(size, Without(lru, Entry \ (S \ {lru[p]}))) < amount
  BY <1>2, <1>3, EvictsFront DEF amount
<1>5. PICK p \in 1 .. Len(lru) :
        /\ lru[p] \in S
        /\ \A i \in 1 .. Len(lru) : lru[i] \in S => i <= p
        /\ ListSize(size, Without(lru, Entry \ (S \ {lru[p]}))) < amount
  BY <1>4
<1>6. DOMAIN lru = 1 .. Len(lru) /\ Len(lru) \in Nat BY <1>1
<1>7. \A i \in Evicted, j \in DOMAIN lru \ Evicted : in_use[lru[j]] = 0 => i < j
  BY <1>4, <1>6
<1>8. Max(Evicted) = p
  <2>1. p \in Evicted /\ \A i \in Evicted : p >= i BY <1>5, <1>6
  <2>2. \A x \in Evicted : (\A i \in Evicted : x >= i) => x = p BY <1>6, <2>1
  <2> QED BY <2>1, <2>2, Zenon DEF Max
<1> DEFINE spared == {lru[i] : i \in Evicted \ {Max(Evicted)}}
<1>9. spared = S \ {lru[p]}
  <2>1. \A i, j \in 1 .. Len(lru) : lru[i] = lru[j] => i = j
    BY <1>6 DEF CInv, ListMatchesTable, IsInjective
  <2>2. \A e \in S : \E i \in 1 .. Len(lru) : lru[i] = e BY <1>1, <1>6 DEF Range
  <2>3. spared = {lru[i] : i \in Evicted \ {p}} BY <1>8
  <2> HIDE DEF spared
  <2> QED BY <1>5, <2>1, <2>2, <2>3
<1> HIDE DEF spared
<1>10. /\ ListSize(size, Without(lru, spared)) + ListSize(size, Without(lru, Entry \ spared))
             = ListSize(size, lru)
       /\ Without(lru, spared) \in Seq(Entry) /\ Without(lru, Entry \ spared) \in Seq(Entry)
  <2>1. lru \in Seq(Entry) /\ size \in [Entry -> Nat] BY <1>1
  <2>2. ListSize(size, Without(lru, spared)) + ListSize(size, Without(lru, Entry \ spared))
          = ListSize(size, lru)
    BY ONLY <2>1, ListSizeSplit
  <2> QED BY <2>1, <2>2, WithoutMembers
<1>11. /\ ListSize(size, Without(lru, spared)) \in Nat
       /\ ListSize(size, Without(lru, Entry \ spared)) \in Nat
  BY <1>1, <1>10, ListSizeType
<1>12. ListSize(size, Without(lru, Entry \ spared)) < amount BY <1>5, <1>9
<1>13. csize = ListSize(size, lru) BY DEF CInv, SizeExact, TotalSize, ListSize
<1>14. TotalSize(Without(lru, spared)) = ListSize(size, Without(lru, spared))
  BY DEF TotalSize, ListSize
<1>15. TotalSize(Without(lru, spared)) + bytes[w] > MaxCache
  <2> DEFINE a == ListSize(size, Without(lru, spared))
             c == ListSize(size, Without(lru, Entry \ spared))
  <2>1. a \in Nat /\ c \in Nat /\ a + c = csize /\ TotalSize(Without(lru, spared)) = a
    BY <1>10, <1>11, <1>13, <1>14
  <2>2. c < bytes[w] - (MaxCache - csize) BY <1>12 DEF amount
  <2>3. bytes[w] \in Nat /\ csize \in Nat /\ MaxCache \in Nat BY <1>1
  <2> HIDE DEF a, c
  <2>4. a + bytes[w] > MaxCache BY ONLY <2>1, <2>2, <2>3
  <2> QED BY <2>1, <2>4
<1>16. pc'[w] = "send" BY DEF CInv, TypeOK
<1> QED BY <1>7, <1>15, <1>16 DEF EvictsInOrder, spared

\* cache_evict frees the least recently used entries that nobody uses, and only
\* as many as the new file needs.
THEOREM EvictionOrder == Spec => EvictsOldestFirst
<1>1. CInv /\ [Next]_vars => [EvictsInOrder]_vars
  <2> SUFFICES ASSUME CInv, Next PROVE EvictsInOrder
    OBVIOUS
  <2>1. ASSUME NEW w \in Worker, cache_insert(w) PROVE EvictsInOrder
    <3> DEFINE S == IF csize + bytes[w] > MaxCache
                      THEN cache_evict(bytes[w] - (MaxCache - csize)) ELSE {}
               left == csize - TotalSize(Without(lru, Entry \ S))
    <3>1. /\ pc[w] = "insert" /\ pc' = [pc EXCEPT ![w] = "send"]
          /\ IF (\E e \in table : file[e] = name[w]) \/ bytes[w] > MaxCache
               THEN UNCHANGED cacheVars
               ELSE IF left + bytes[w] > MaxCache THEN drop_entries(S, left)
                                                  ELSE insert_entry(w, S, left)
      BY <2>1 DEF cache_insert
    <3>2. S \subseteq table BY EvictUnused DEF CInv
    <3>3. CASE UNCHANGED cacheVars
      BY <3>3, NothingEvicted DEF cacheVars, entryVars
    <3>4. CASE (drop_entries(S, left) \/ insert_entry(w, S, left)) /\ \A e \in table : file[e] # name[w]
      <4>1. Evicted = {i \in 1 .. Len(lru) : lru[i] \in S}
        <5> HIDE DEF S, left
        <5>1. CASE drop_entries(S, left)
          <6>1. /\ table' = table \ S
                /\ file' = [f \in Entry |-> IF f \in S THEN NULL ELSE file[f]]
            BY <5>1 DEF drop_entries
          <6> QED BY <3>2, <3>4, <6>1, EvictedAreGone
        <5>2. CASE insert_entry(w, S, left)
          <6>1. \E e \in Entry \ (table \ S) :
                  /\ table' = (table \ S) \cup {e}
                  /\ file' = [f \in Entry |-> IF f = e THEN name[w]
                                              ELSE IF f \in S THEN NULL ELSE file[f]]
            BY <5>2 DEF insert_entry
          <6> QED BY <3>2, <3>4, <6>1, EvictedAreGone
        <5> QED BY <3>4, <5>1, <5>2
      <4>2. CASE csize + bytes[w] > MaxCache
        <5>1. S = cache_evict(bytes[w] - (MaxCache - csize)) BY <4>2
        <5> HIDE DEF S, left
        <5> QED BY <3>1, <4>1, <4>2, <5>1, InsertEvicts
      <4>3. CASE ~ (csize + bytes[w] > MaxCache)
        <5>1. Evicted = {} BY <4>1, <4>3
        <5> QED BY <5>1 DEF EvictsInOrder
      <4> QED BY <4>2, <4>3
    <3> HIDE DEF S, left
    <3> QED BY <3>1, <3>3, <3>4
  <2>2. ASSUME NEW w \in Worker,
               \/ \E f \in File : lookup_hit(w, f) \/ lookup_miss(w, f)
               \/ \E n \in Sizes : request_readfile(w, n)
               \/ readfile_fails(w) \/ finish_request(w)
        PROVE  EvictsInOrder
    <3>1. table' = table /\ file' = file
      BY <2>2 DEF lookup_hit, lookup_miss, request_readfile, readfile_fails, finish_request,
                  cacheVars, entryVars
    <3> QED BY <3>1, NothingEvicted
  <2> QED BY <2>1, <2>2 DEF Next
<1> QED BY <1>1, AlwaysCInv, PTL DEF Spec, EvictsOldestFirst

=============================================================================
