---------------------------- MODULE DeviceProofs ----------------------------
(***************************************************************************)
(* Theorems about the linked lists, the tree and the device manager, for   *)
(* every set of list nodes, tree nodes and devices.                        *)
(***************************************************************************)
EXTENDS Devices, TLAPS, FiniteSetTheorems

-----------------------------------------------------------------------------
(* The walk along a chain.                                                 *)

\* A set of numbers that is not empty has a least element.
LEMMA Least ==
    ASSUME NEW T \in SUBSET Nat, T # {}
    PROVE  \E n \in T : \A k \in T : n <= k
<1>1. \E n \in T : \A k \in T : ~(<<k, n>> \in OpToRel(<, Nat))
  BY WFMin, NatLessThanWellFounded
<1>2. \A n, k \in Nat : k < n => <<k, n>> \in OpToRel(<, Nat)
  BY Zenon DEF OpToRel
<1>3. \E n \in T : \A k \in T : ~(k < n)
  BY <1>1, <1>2, Zenon
<1> QED
  BY <1>3

LEMMA CardUpTo ==
    ASSUME NEW n \in Nat
    PROVE  Cardinality(1 .. n) = n
<1>1. 1 \in Int /\ n \in Int
  OBVIOUS
<1>2. Cardinality(1 .. n) = IF 1 > n THEN 0 ELSE n - 1 + 1
  BY <1>1, FS_Interval, Zenon
<1> QED
  BY <1>2

\* From start along link the items of q are met, in their order, then Null.
Along(start, link, q) ==
    /\ start = IF Len(q) = 0 THEN Null ELSE q[1]
    /\ \A i \in 1 .. Len(q) : link[q[i]] = IF i = Len(q) THEN Null ELSE q[i + 1]

LEMMA WalkAlong ==
    ASSUME NEW start, NEW link, NEW q \in Seq(Items),
           IsInjective(q), Along(start, link, q)
    PROVE  Walk(start, link) = q
<1> DEFINE N == Cardinality(Items) + 1
           n == Len(q)
           after == [x \in ItemOrNull |-> IF x = Null THEN Null ELSE link[x]]
           Eq(f) == f = [k \in 1 .. N |-> IF k = 1 THEN start ELSE after[f[k - 1]]]
           f0 == [k \in 1 .. N |-> IF k <= n THEN q[k] ELSE Null]
           at == CHOOSE f : Eq(f)
<1>0. Null \notin Items /\ IsFiniteSet(Items)
  BY ListAssumption
<1>1. N \in Nat \ {0} /\ n \in Nat
  BY <1>0, FS_CardinalityType
<1>2. n <= N - 1
  <2>1. q \in [1 .. n -> Items]
    OBVIOUS
  <2>2. q \in Injection(1 .. n, Items)
    BY <2>1 DEF Injection
  <2>3. Cardinality(1 .. n) <= Cardinality(Items)
    BY <1>0, <2>2, FS_Injection
  <2>4. Cardinality(1 .. n) = n
    BY <1>1, CardUpTo
  <2> QED
    BY <1>0, <1>1, <2>3, <2>4, FS_CardinalityType
<1>3. Eq(f0)
  <2>1. ASSUME NEW k \in 1 .. N
        PROVE  f0[k] = IF k = 1 THEN start ELSE after[f0[k - 1]]
    <3>1. CASE k = 1
      BY <1>1, <1>2, <3>1 DEF Along
    <3>2. CASE k # 1 /\ k - 1 <= n
      <4>1. k - 1 \in 1 .. n /\ k - 1 \in 1 .. N
        BY <1>1, <1>2, <3>2
      <4>2. f0[k - 1] = q[k - 1] /\ q[k - 1] \in Items
        BY <4>1
      <4>3. after[q[k - 1]] = link[q[k - 1]]
        BY <1>0, <4>2 DEF ItemOrNull
      <4>4. link[q[k - 1]] = IF k - 1 = n THEN Null ELSE q[(k - 1) + 1]
        BY <4>1 DEF Along
      <4> HIDE DEF after
      <4> QED
        BY <1>1, <3>2, <4>1, <4>2, <4>3, <4>4
    <3>3. CASE k # 1 /\ k - 1 > n
      <4>1. k - 1 \in 1 .. N /\ f0[k - 1] = Null /\ f0[k] = Null
        BY <1>1, <3>3
      <4>2. after[Null] = Null
        BY DEF ItemOrNull
      <4> HIDE DEF after, f0
      <4> QED
        BY <3>3, <4>1, <4>2
    <3> QED
      BY <1>1, <3>1, <3>2, <3>3
  <2>2. f0 = [k \in 1 .. N |-> f0[k]]
    OBVIOUS
  <2> HIDE DEF f0, after, N
  <2> QED
    BY <2>1, <2>2
<1>4. Eq(at)
  <2> HIDE DEF Eq
  <2> QED
    BY <1>3
<1>5. at = f0
  <2> DEFINE Bad == {k \in 1 .. N : at[k] # f0[k]}
  <2> HIDE DEF at, f0, after
  <2>1. /\ at = [k \in 1 .. N |-> at[k]] /\ f0 = [k \in 1 .. N |-> f0[k]]
        /\ \A k \in 1 .. N : at[k] = IF k = 1 THEN start ELSE after[at[k - 1]]
        /\ \A k \in 1 .. N : f0[k] = IF k = 1 THEN start ELSE after[f0[k - 1]]
    BY <1>3, <1>4, Zenon
  <2>2. CASE Bad # {}
    <3>1. Bad \in SUBSET Nat
      BY <1>1
    <3>2. PICK k \in Bad : \A j \in Bad : k <= j
      BY <2>2, <3>1, Least
    <3>3. k # 1 => k - 1 \in 1 .. N /\ k - 1 \notin Bad
      BY <1>1, <3>2
    <3>4. k # 1 => at[k - 1] = f0[k - 1]
      BY <3>3
    <3>5. /\ k \in 1 .. N
          /\ at[k] = IF k = 1 THEN start ELSE after[at[k - 1]]
          /\ f0[k] = IF k = 1 THEN start ELSE after[f0[k - 1]]
      <4>1. k \in 1 .. N
        BY <3>2
      <4> HIDE DEF N, Bad
      <4> QED
        BY <2>1, <4>1, Zenon
    <3>6. at[k] = f0[k]
      BY <3>4, <3>5
    <3> QED
      BY <3>2, <3>6
  <2>3. CASE Bad = {}
    <3>1. \A k \in 1 .. N : at[k] = f0[k]
      BY <2>3
    <3> QED
      BY <2>1, <3>1, Zenon
  <2> QED
    BY <2>2, <2>3
<1>6. Walk(start, link) =
          SubSeq(at, 1, Cardinality({k \in DOMAIN at : at[k] # Null}))
  BY DEF Walk
<1>7. {k \in DOMAIN f0 : f0[k] # Null} = 1 .. n
  BY <1>0, <1>1, <1>2
<1>8. Cardinality(1 .. n) = n
  BY <1>1, CardUpTo
<1>9. SubSeq(f0, 1, n) = q
  BY <1>1, <1>2
<1> HIDE DEF at, f0
<1> QED
  BY <1>5, <1>6, <1>7, <1>8, <1>9

-----------------------------------------------------------------------------
(* The pointer operations on lists that hold sequences.                    *)

ListStates ==
    [head : [Lists -> ItemOrNull], tail : [Lists -> ItemOrNull],
     length : [Lists -> Nat],
     next : [Items -> ItemOrNull], prev : [Items -> ItemOrNull]]

\* The item at a position of a sequence.
At(q, k) == IF k \in 1 .. Len(q) THEN q[k] ELSE Null

Ends(m, l, q) ==
    /\ m.length[l] = Len(q)
    /\ m.head[l] = At(q, 1) /\ m.tail[l] = At(q, Len(q))

Links(m, q) ==
    \A i \in 1 .. Len(q) : m.next[q[i]] = At(q, i + 1) /\ m.prev[q[i]] = At(q, i - 1)

Apart(s) ==
    \A k, l \in Lists : \A i \in 1 .. Len(s[k]), j \in 1 .. Len(s[l]) :
        s[k][i] = s[l][j] => k = l /\ i = j

\* The lists of m hold the sequences s.
Holds(m, s) ==
    /\ m \in ListStates /\ s \in [Lists -> Seq(Items)] /\ Apart(s)
    /\ \A l \in Lists : Ends(m, l, s[l]) /\ Links(m, s[l])

Held(s, x) == \E l \in Lists : \E i \in 1 .. Len(s[l]) : s[l][i] = x

PutAt(m, l, q, k, x) ==
    [head |-> IF k = 1 THEN [m.head EXCEPT ![l] = x] ELSE m.head,
     tail |-> IF k = Len(q) + 1 THEN [m.tail EXCEPT ![l] = x] ELSE m.tail,
     length |-> [m.length EXCEPT ![l] = @ + 1],
     next |-> [y \in Items |-> IF y = x THEN At(q, k)
                               ELSE IF y = At(q, k - 1) THEN x ELSE m.next[y]],
     prev |-> [y \in Items |-> IF y = x THEN At(q, k - 1)
                               ELSE IF y = At(q, k) THEN x ELSE m.prev[y]]]

With(q, k, x) ==
    [i \in 1 .. Len(q) + 1 |-> IF i < k THEN q[i] ELSE IF i = k THEN x ELSE q[i - 1]]

Without(q, k) == [i \in 1 .. Len(q) - 1 |-> IF i < k THEN q[i] ELSE q[i + 1]]

LEMMA PutKeeps ==
    ASSUME NEW m, NEW s, Holds(m, s), NEW l \in Lists,
           NEW k \in 1 .. Len(s[l]) + 1, NEW x \in Items, ~Held(s, x)
    PROVE  Holds(PutAt(m, l, s[l], k, x), [s EXCEPT ![l] = With(s[l], k, x)])
<1> DEFINE q == s[l]
           p == With(q, k, x)
           t == [s EXCEPT ![l] = p]
           mm == PutAt(m, l, q, k, x)
<1>0. Null \notin Items
  BY ListAssumption
<1>1. /\ s \in [Lists -> Seq(Items)] /\ q \in Seq(Items) /\ Len(q) \in Nat
      /\ Apart(s) /\ m \in ListStates /\ k \in 1 .. Len(q) + 1
  BY DEF Holds
<1>2. p \in Seq(Items) /\ Len(p) = Len(q) + 1
  BY <1>1 DEF With
<1>3. \A i \in 1 .. Len(p) :
          p[i] = IF i < k THEN q[i] ELSE IF i = k THEN x ELSE q[i - 1]
  BY <1>1 DEF With
<1>31. \A i \in 1 .. Len(p) :
           \/ i < k /\ i \in 1 .. Len(q) /\ p[i] = q[i]
           \/ i = k /\ p[i] = x
           \/ i > k /\ i - 1 \in 1 .. Len(q) /\ p[i] = q[i - 1]
  BY <1>1, <1>2, <1>3
<1>4. \A j \in Lists, i \in Nat : i \in 1 .. Len(s[j]) => s[j][i] # x /\ s[j][i] \in Items
  BY <1>1 DEF Held
<1>5. t \in [Lists -> Seq(Items)] /\ t[l] = p /\ \A j \in Lists : j # l => t[j] = s[j]
  BY <1>1, <1>2
<1>6. Apart(t)
  <2>1. \A i, j \in 1 .. Len(p) : p[i] = p[j] => i = j
    <3>1. \A i, j \in 1 .. Len(q) : q[i] = q[j] => i = j
      BY <1>1 DEF Apart
    <3>2. \A i \in 1 .. Len(q) : q[i] # x
      BY <1>1, <1>4
    <3> HIDE DEF p, q
    <3> SUFFICES ASSUME NEW i \in 1 .. Len(p), NEW j \in 1 .. Len(p), p[i] = p[j]
                 PROVE  i = j
      OBVIOUS
    <3>3. CASE i = k \/ j = k
      <4>1. \A h \in 1 .. Len(p) : p[h] = x <=> h = k
        <5> TAKE h \in 1 .. Len(p)
        <5>1. CASE h < k
          BY <1>1, <1>31, <3>2, <5>1
        <5>2. CASE h = k
          BY <1>1, <1>31, <5>2
        <5>3. CASE h > k
          <6>1. h - 1 \in 1 .. Len(q) /\ p[h] = q[h - 1]
            BY <1>1, <1>31, <5>3
          <6>2. q[h - 1] # x
            BY <3>2, <6>1
          <6> QED
            BY <5>3, <6>1, <6>2
        <5> QED
          BY <1>1, <1>2, <5>1, <5>2, <5>3
      <4> QED
        BY <3>3, <4>1
    <3>4. CASE i # k /\ j # k
      <4>1. PICK a \in 1 .. Len(q) : p[i] = q[a] /\ a = IF i < k THEN i ELSE i - 1
        BY <1>1, <1>31, <3>4
      <4>2. PICK b \in 1 .. Len(q) : p[j] = q[b] /\ b = IF j < k THEN j ELSE j - 1
        BY <1>1, <1>31, <3>4
      <4>3. a = b
        BY <3>1, <4>1, <4>2
      <4> QED
        BY <1>1, <1>2, <3>4, <4>1, <4>2, <4>3
    <3> QED
      BY <3>3, <3>4
  <2>2. \A j \in Lists : j # l =>
            \A i \in 1 .. Len(p), h \in 1 .. Len(s[j]) : p[i] # s[j][h]
    <3>1. \A j \in Lists : j # l =>
            \A i \in 1 .. Len(q), h \in 1 .. Len(s[j]) : q[i] # s[j][h]
      BY <1>1 DEF Apart
    <3>2. \A j \in Lists : \A h \in 1 .. Len(s[j]) : s[j][h] # x
      BY <1>1, <1>4
    <3> HIDE DEF p, q
    <3> SUFFICES ASSUME NEW j \in Lists, j # l,
                        NEW i \in 1 .. Len(p), NEW h \in 1 .. Len(s[j])
                 PROVE  p[i] # s[j][h]
      OBVIOUS
    <3> QED
      BY <1>31, <3>1, <3>2
  <2>3. \A j \in Lists, g \in Lists : j # l /\ g # l =>
           \A i \in 1 .. Len(s[j]), h \in 1 .. Len(s[g]) :
               s[j][i] = s[g][h] => j = g /\ i = h
    BY <1>1 DEF Apart
  <2> HIDE DEF p, q, t
  <2> SUFFICES ASSUME NEW f \in Lists, NEW g \in Lists,
                      NEW i \in 1 .. Len(t[f]), NEW h \in 1 .. Len(t[g]),
                      t[f][i] = t[g][h]
               PROVE  f = g /\ i = h
    BY DEF Apart
  <2>4. CASE f = l /\ g = l
    BY <1>5, <2>1, <2>4
  <2>5. CASE f = l /\ g # l
    BY <1>5, <2>2, <2>5
  <2>6. CASE f # l /\ g = l
    BY <1>5, <2>2, <2>6
  <2>7. CASE f # l /\ g # l
    BY <1>5, <2>3, <2>7
  <2> QED
    BY <2>4, <2>5, <2>6, <2>7
<1>7. mm \in ListStates
  <2>1. At(q, k) \in ItemOrNull /\ At(q, k - 1) \in ItemOrNull /\ x \in ItemOrNull
    BY <1>1 DEF At, ItemOrNull
  <2> HIDE DEF q
  <2> QED
    BY <1>1, <2>1 DEF PutAt, ListStates
<1>8. Ends(mm, l, p)
  <2>1. Ends(m, l, q)
    BY DEF Holds
  <2>2. /\ m.head \in [Lists -> ItemOrNull] /\ m.tail \in [Lists -> ItemOrNull]
        /\ m.length \in [Lists -> Nat]
    BY <1>1 DEF ListStates
  <2>3. /\ mm.length[l] = m.length[l] + 1
        /\ mm.head[l] = IF k = 1 THEN x ELSE m.head[l]
        /\ mm.tail[l] = IF k = Len(q) + 1 THEN x ELSE m.tail[l]
    BY <2>2 DEF PutAt
  <2> HIDE DEF p, q, mm
  <2> QED
    BY <1>1, <1>2, <1>3, <2>1, <2>3 DEF Ends, At
<1>9. Links(mm, p)
  <2>1. Links(m, q)
    BY DEF Holds
  <2>2. \A y \in Items :
           /\ mm.next[y] = IF y = x THEN At(q, k)
                           ELSE IF y = At(q, k - 1) THEN x ELSE m.next[y]
           /\ mm.prev[y] = IF y = x THEN At(q, k - 1)
                           ELSE IF y = At(q, k) THEN x ELSE m.prev[y]
    BY DEF PutAt
  <2>3. \A i, j \in 1 .. Len(q) : q[i] = q[j] => i = j
    BY <1>1 DEF Apart
  <2>4. \A i \in 1 .. Len(q) : q[i] # x /\ q[i] \in Items
    BY <1>1, <1>4
  <2>5. SUFFICES ASSUME NEW i \in 1 .. Len(p)
                 PROVE  /\ mm.next[p[i]] = At(p, i + 1)
                        /\ mm.prev[p[i]] = At(p, i - 1)
    BY DEF Links
  <2> HIDE DEF p, q, mm
  <2>6. CASE i < k
    <3>1. p[i] = q[i] /\ i \in 1 .. Len(q)
      BY <1>1, <1>2, <1>3, <2>6
    <3>2. mm.prev[q[i]] = m.prev[q[i]]
      BY <1>0, <1>1, <2>2, <2>3, <2>4, <2>6, <3>1 DEF At
    <3>3. m.prev[q[i]] = At(p, i - 1)
      BY <1>1, <1>2, <1>3, <2>1, <2>6, <3>1 DEF Links, At
    <3>4. CASE i = k - 1
      <4>1. At(q, k - 1) = q[i] /\ q[i] # x /\ q[i] \in Items
        BY <1>1, <2>4, <3>1, <3>4 DEF At
      <4>2. mm.next[q[i]] = x
        BY <2>2, <4>1
      <4>3. At(p, i + 1) = x
        BY <1>1, <1>2, <1>3, <2>6, <3>4 DEF At
      <4> QED
        BY <3>1, <3>2, <3>3, <4>2, <4>3
    <3>5. CASE i # k - 1
      <4>1. At(q, k - 1) = q[k - 1] /\ q[k - 1] # q[i]
        BY <1>1, <2>3, <2>6, <3>1, <3>5 DEF At
      <4>2. mm.next[q[i]] = m.next[q[i]]
        BY <2>2, <2>4, <3>1, <4>1
      <4>3. m.next[q[i]] = At(q, i + 1)
        BY <2>1, <3>1 DEF Links
      <4>4. At(q, i + 1) = At(p, i + 1)
        BY <1>1, <1>2, <1>3, <2>6, <3>5 DEF At
      <4> QED
        BY <3>1, <3>2, <3>3, <4>2, <4>3, <4>4
    <3> QED
      BY <3>4, <3>5
  <2>7. CASE i = k
    BY <1>1, <1>2, <1>3, <2>2, <2>7 DEF At
  <2>8. CASE i > k
    <3>1. p[i] = q[i - 1] /\ i - 1 \in 1 .. Len(q)
      BY <1>1, <1>2, <1>3, <2>8
    <3>2. mm.next[q[i - 1]] = m.next[q[i - 1]]
      BY <1>0, <1>1, <2>2, <2>3, <2>4, <2>8, <3>1 DEF At
    <3>3. m.next[q[i - 1]] = At(q, i) /\ m.prev[q[i - 1]] = At(q, i - 2)
      BY <2>1, <3>1 DEF Links
    <3>4. At(p, i + 1) = At(q, i)
      BY <1>1, <1>2, <1>3, <2>8, <3>1 DEF At
    <3>5. mm.prev[q[i - 1]] = At(p, i - 1)
      <4>1. CASE i - 1 = k
        BY <1>1, <1>2, <1>3, <2>2, <2>4, <3>1, <4>1 DEF At
      <4>2. CASE i - 1 # k
        <5>1. i - 2 \in 1 .. Len(q) /\ i - 1 \in 1 .. Len(p) /\ i - 1 > k
          BY <1>1, <1>2, <2>8, <3>1, <4>2
        <5>2. q[i - 1] # At(q, k) /\ At(q, i - 2) = q[i - 2]
          BY <1>0, <1>1, <2>3, <2>4, <2>8, <3>1, <4>2, <5>1 DEF At
        <5>3. p[i - 1] = q[(i - 1) - 1] /\ At(p, i - 1) = p[i - 1]
          BY <1>3, <5>1 DEF At
        <5> QED
          BY <2>2, <2>4, <3>1, <3>3, <5>1, <5>2, <5>3
      <4> QED
        BY <4>1, <4>2
    <3> QED
      BY <3>1, <3>2, <3>3, <3>4, <3>5
  <2> QED
    BY <1>1, <1>2, <2>6, <2>7, <2>8
<1>10. ASSUME NEW j \in Lists, j # l
       PROVE  Ends(mm, j, s[j]) /\ Links(mm, s[j])
  <2>1. Ends(m, j, s[j]) /\ Links(m, s[j])
    BY DEF Holds
  <2>2. Ends(mm, j, s[j])
    BY <1>1, <1>10, <2>1 DEF Ends, PutAt, ListStates
  <2>3. \A i \in 1 .. Len(s[j]) :
           /\ s[j][i] \in Items /\ s[j][i] # x
           /\ s[j][i] # At(q, k) /\ s[j][i] # At(q, k - 1)
    <3>1. \A i \in 1 .. Len(s[j]) : s[j][i] \in Items /\ s[j][i] # x
      BY <1>1, <1>4
    <3>2. \A i \in 1 .. Len(s[j]), h \in 1 .. Len(q) : s[j][i] # q[h]
      BY <1>1, <1>10 DEF Apart
    <3> QED
      BY <1>0, <3>1, <3>2 DEF At
  <2>4. Links(mm, s[j])
    BY <2>1, <2>3 DEF Links, PutAt
  <2> QED
    BY <2>2, <2>4
<1> HIDE DEF mm, t, p, q
<1>11. Holds(mm, t)
  BY <1>5, <1>6, <1>7, <1>8, <1>9, <1>10 DEF Holds
<1> QED
  BY <1>11 DEF mm, t, p, q

LEMMA InsertPuts ==
    ASSUME NEW m, NEW s, Holds(m, s), NEW l \in Lists,
           NEW x \in Items, ~Held(s, x)
    PROVE  ListInsert(m, l, x) = PutAt(m, l, s[l], Len(s[l]) + 1, x)
<1> DEFINE q == s[l]
<1>0. Null \notin Items
  BY ListAssumption
<1>1. q \in Seq(Items) /\ Len(q) \in Nat /\ m \in ListStates /\ Ends(m, l, q)
  BY DEF Holds
<1>2. /\ At(q, Len(q) + 1) = Null /\ At(q, (Len(q) + 1) - 1) = m.tail[l]
      /\ m.tail[l] = Null <=> Len(q) + 1 = 1
      /\ m.tail[l] \in ItemOrNull
  BY <1>0, <1>1 DEF At, Ends, ListStates
<1>11. m = [head |-> m.head, tail |-> m.tail, length |-> m.length,
            next |-> m.next, prev |-> m.prev]
  BY <1>1 DEF ListStates
<1>13. m.tail[l] # x
  BY <1>0, <1>1 DEF Ends, At, Held
<1> HIDE DEF q
<1> DEFINE nn == PutAt(m, l, q, Len(q) + 1, x)
<1>12. nn = [head |-> nn.head, tail |-> nn.tail, length |-> nn.length,
             next |-> nn.next, prev |-> nn.prev]
  BY DEF PutAt
<1>3. CASE m.tail[l] = Null
  <2>1. ListInsert(m, l, x) =
           [m EXCEPT !.next[x] = Null, !.prev[x] = Null,
                     !.head[l] = x, !.tail[l] = x, !.length[l] = @ + 1]
    BY <1>3 DEF ListInsert
  <2>2. ListInsert(m, l, x) =
           [head |-> [m.head EXCEPT ![l] = x], tail |-> [m.tail EXCEPT ![l] = x],
            length |-> [m.length EXCEPT ![l] = @ + 1],
            next |-> [m.next EXCEPT ![x] = Null],
            prev |-> [m.prev EXCEPT ![x] = Null]]
    BY <1>11, <2>1
  <2>3. /\ nn.next = [y \in Items |-> IF y = x THEN Null ELSE m.next[y]]
        /\ nn.prev = [y \in Items |-> IF y = x THEN Null ELSE m.prev[y]]
    BY <1>0, <1>2, <1>3 DEF PutAt
  <2>31. /\ [m.next EXCEPT ![x] = Null] = nn.next
         /\ [m.prev EXCEPT ![x] = Null] = nn.prev
    <3> HIDE DEF nn
    <3> QED
      BY <1>1, <2>3 DEF ListStates
  <2>4. /\ [m.head EXCEPT ![l] = x] = nn.head
        /\ [m.tail EXCEPT ![l] = x] = nn.tail
        /\ [m.length EXCEPT ![l] = @ + 1] = nn.length
    BY <1>2, <1>3 DEF PutAt
  <2> HIDE DEF nn
  <2>5. ListInsert(m, l, x) = nn
    BY <1>12, <2>2, <2>31, <2>4
  <2> QED
    BY <2>5 DEF nn, q
<1>4. CASE m.tail[l] # Null
  <2>1. ListInsert(m, l, x) =
           [m EXCEPT !.next = [@ EXCEPT ![x] = Null, ![m.tail[l]] = x],
                     !.prev[x] = m.tail[l],
                     !.tail[l] = x, !.length[l] = @ + 1]
    BY <1>4 DEF ListInsert
  <2>2. ListInsert(m, l, x) =
           [head |-> m.head, tail |-> [m.tail EXCEPT ![l] = x],
            length |-> [m.length EXCEPT ![l] = @ + 1],
            next |-> [m.next EXCEPT ![x] = Null, ![m.tail[l]] = x],
            prev |-> [m.prev EXCEPT ![x] = m.tail[l]]]
    BY <1>11, <2>1
  <2>3. [m.next EXCEPT ![x] = Null, ![m.tail[l]] = x] = nn.next
    BY <1>0, <1>1, <1>13, <1>2, <1>4 DEF PutAt, ListStates, ItemOrNull
  <2>31. [m.prev EXCEPT ![x] = m.tail[l]] = nn.prev
    BY <1>0, <1>1, <1>2, <1>4 DEF PutAt, ListStates
  <2>4. /\ m.head = nn.head
        /\ [m.tail EXCEPT ![l] = x] = nn.tail
        /\ [m.length EXCEPT ![l] = @ + 1] = nn.length
    BY <1>2, <1>4 DEF PutAt
  <2> HIDE DEF nn
  <2>5. ListInsert(m, l, x) = nn
    BY <1>12, <2>2, <2>3, <2>31, <2>4
  <2> QED
    BY <2>5 DEF nn, q
<1> QED
  BY <1>3, <1>4

LEMMA TakeKeeps ==
    ASSUME NEW m, NEW s, Holds(m, s), NEW l \in Lists, NEW k \in 1 .. Len(s[l])
    PROVE  Holds(ListDelete(m, l, s[l][k]), [s EXCEPT ![l] = Without(s[l], k)])
<1> DEFINE q == s[l]
           x == q[k]
           p == Without(q, k)
           t == [s EXCEPT ![l] = p]
           mm == ListDelete(m, l, x)
<1>0. Null \notin Items
  BY ListAssumption
<1>1. /\ s \in [Lists -> Seq(Items)] /\ q \in Seq(Items) /\ Len(q) \in Nat
      /\ Apart(s) /\ m \in ListStates /\ k \in 1 .. Len(q) /\ x \in Items
      /\ Ends(m, l, q) /\ Links(m, q)
  BY DEF Holds
<1>2. p \in Seq(Items) /\ Len(p) = Len(q) - 1
  BY <1>1 DEF Without
<1>3. \A i \in 1 .. Len(p) : p[i] = IF i < k THEN q[i] ELSE q[i + 1]
  BY <1>1 DEF Without
<1>4. \A i, j \in 1 .. Len(q) : q[i] = q[j] => i = j
  BY <1>1 DEF Apart
<1>5. t \in [Lists -> Seq(Items)] /\ t[l] = p /\ \A j \in Lists : j # l => t[j] = s[j]
  BY <1>1, <1>2
<1>51. \A i \in 1 .. Len(p) : \E a \in 1 .. Len(q) :
           p[i] = q[a] /\ a = IF i < k THEN i ELSE i + 1
  BY <1>1, <1>2, <1>3
<1>6. Apart(t)
  <2>1. \A i, j \in 1 .. Len(p) : p[i] = p[j] => i = j
    <3> HIDE DEF p, q
    <3> SUFFICES ASSUME NEW i \in 1 .. Len(p), NEW j \in 1 .. Len(p), p[i] = p[j]
                 PROVE  i = j
      OBVIOUS
    <3>1. PICK a \in 1 .. Len(q) : p[i] = q[a] /\ a = IF i < k THEN i ELSE i + 1
      BY <1>51
    <3>2. PICK b \in 1 .. Len(q) : p[j] = q[b] /\ b = IF j < k THEN j ELSE j + 1
      BY <1>51
    <3>3. a = b
      BY <1>4, <3>1, <3>2
    <3> QED
      BY <1>1, <1>2, <3>1, <3>2, <3>3
  <2>2. \A j \in Lists : j # l =>
            \A i \in 1 .. Len(p), h \in 1 .. Len(s[j]) : p[i] # s[j][h]
    <3>1. \A j \in Lists : j # l =>
            \A i \in 1 .. Len(q), h \in 1 .. Len(s[j]) : q[i] # s[j][h]
      BY <1>1 DEF Apart
    <3> HIDE DEF p, q
    <3> QED
      BY <1>51, <3>1
  <2>3. \A j \in Lists, g \in Lists : j # l /\ g # l =>
           \A i \in 1 .. Len(s[j]), h \in 1 .. Len(s[g]) :
               s[j][i] = s[g][h] => j = g /\ i = h
    BY <1>1 DEF Apart
  <2> HIDE DEF p, q, t
  <2> SUFFICES ASSUME NEW f \in Lists, NEW g \in Lists,
                      NEW i \in 1 .. Len(t[f]), NEW h \in 1 .. Len(t[g]),
                      t[f][i] = t[g][h]
               PROVE  f = g /\ i = h
    BY DEF Apart
  <2>4. CASE f = l /\ g = l
    BY <1>5, <2>1, <2>4
  <2>5. CASE f = l /\ g # l
    <3>1. t[f] = p /\ t[g] = s[g]
      BY <1>5, <2>5
    <3> QED
      BY <2>2, <2>5, <3>1
  <2>6. CASE f # l /\ g = l
    <3>1. t[f] = s[f] /\ t[g] = p
      BY <1>5, <2>6
    <3> QED
      BY <2>2, <2>6, <3>1
  <2>7. CASE f # l /\ g # l
    <3>1. t[f] = s[f] /\ t[g] = s[g]
      BY <1>5, <2>7
    <3> QED
      BY <2>3, <2>7, <3>1
  <2> QED
    BY <2>4, <2>5, <2>6, <2>7
<1>61. m.next[x] = At(q, k + 1) /\ m.prev[x] = At(q, k - 1)
  BY <1>1 DEF Links
<1>62. At(q, k + 1) \in ItemOrNull /\ At(q, k - 1) \in ItemOrNull
  BY <1>1 DEF At, ItemOrNull
<1>63. /\ mm.head = [m.head EXCEPT ![l] = IF @ = x THEN At(q, k + 1) ELSE @]
       /\ mm.tail = [m.tail EXCEPT ![l] = IF @ = x THEN At(q, k - 1) ELSE @]
       /\ mm.length = [m.length EXCEPT ![l] = @ - 1]
       /\ mm.next = [y \in Items |-> IF y = x THEN Null
                        ELSE IF y = At(q, k - 1) THEN At(q, k + 1) ELSE m.next[y]]
       /\ mm.prev = [y \in Items |-> IF y = x THEN Null
                        ELSE IF y = At(q, k + 1) THEN At(q, k - 1) ELSE m.prev[y]]
       /\ mm = [head |-> mm.head, tail |-> mm.tail, length |-> mm.length,
                next |-> mm.next, prev |-> mm.prev]
  <2> HIDE DEF q, x
  <2>1. mm = [m EXCEPT !.head[l] = IF @ = x THEN At(q, k + 1) ELSE @,
                       !.tail[l] = IF @ = x THEN At(q, k - 1) ELSE @,
                       !.next = Bypass(@, x, At(q, k - 1), At(q, k + 1)),
                       !.prev = Bypass(@, x, At(q, k + 1), At(q, k - 1)),
                       !.length[l] = @ - 1]
    BY <1>61 DEF ListDelete
  <2>2. m = [head |-> m.head, tail |-> m.tail, length |-> m.length,
             next |-> m.next, prev |-> m.prev]
    BY <1>1 DEF ListStates
  <2>3. mm = [head |-> [m.head EXCEPT ![l] = IF @ = x THEN At(q, k + 1) ELSE @],
              tail |-> [m.tail EXCEPT ![l] = IF @ = x THEN At(q, k - 1) ELSE @],
              length |-> [m.length EXCEPT ![l] = @ - 1],
              next |-> Bypass(m.next, x, At(q, k - 1), At(q, k + 1)),
              prev |-> Bypass(m.prev, x, At(q, k + 1), At(q, k - 1))]
    <3> HIDE DEF mm
    <3> QED
      BY <2>1, <2>2
  <2> HIDE DEF mm
  <2> QED
    BY <2>3 DEF Bypass
<1>7. mm \in ListStates
  <2>1. m.length[l] - 1 \in Nat
    BY <1>1 DEF Ends
  <2>2. mm.length \in [Lists -> Nat]
    BY <1>1, <1>63, <2>1 DEF ListStates
  <2> HIDE DEF q, mm, x
  <2>3. /\ mm.head \in [Lists -> ItemOrNull] /\ mm.tail \in [Lists -> ItemOrNull]
    BY <1>1, <1>62, <1>63 DEF ListStates
  <2>4. mm.next \in [Items -> ItemOrNull] /\ mm.prev \in [Items -> ItemOrNull]
    BY <1>1, <1>62, <1>63 DEF ListStates, ItemOrNull
  <2> QED
    BY <1>63, <2>2, <2>3, <2>4 DEF ListStates
<1>8. Ends(mm, l, p)
  <2>1. /\ mm.length[l] = m.length[l] - 1
        /\ mm.head[l] = IF m.head[l] = x THEN At(q, k + 1) ELSE m.head[l]
        /\ mm.tail[l] = IF m.tail[l] = x THEN At(q, k - 1) ELSE m.tail[l]
    BY <1>1, <1>63 DEF ListStates
  <2>2. m.head[l] = q[1] /\ m.tail[l] = q[Len(q)] /\ m.length[l] = Len(q)
    BY <1>1 DEF Ends, At
  <2>3. (q[1] = x <=> k = 1) /\ (q[Len(q)] = x <=> k = Len(q))
    BY <1>1, <1>4
  <2> HIDE DEF p, q, mm, x
  <2>4. mm.head[l] = At(p, 1)
    BY <1>1, <1>2, <1>3, <2>1, <2>2, <2>3 DEF At
  <2>5. mm.tail[l] = At(p, Len(p))
    BY <1>1, <1>2, <1>3, <2>1, <2>2, <2>3 DEF At
  <2> QED
    BY <1>1, <1>2, <2>1, <2>2, <2>4, <2>5 DEF Ends
<1>9. Links(mm, p)
  <2>1. \A y \in Items :
           /\ mm.next[y] = IF y = x THEN Null
                           ELSE IF y = At(q, k - 1) THEN At(q, k + 1) ELSE m.next[y]
           /\ mm.prev[y] = IF y = x THEN Null
                           ELSE IF y = At(q, k + 1) THEN At(q, k - 1) ELSE m.prev[y]
    BY <1>63
  <2>2. \A i \in 1 .. Len(q) : q[i] \in Items /\ (q[i] = x => i = k)
    BY <1>1, <1>4
  <2>3. \A i \in 1 .. Len(q) :
           /\ q[i] = At(q, k - 1) <=> i = k - 1
           /\ q[i] = At(q, k + 1) <=> i = k + 1
    BY <1>0, <1>1, <1>4, <2>2 DEF At
  <2>4. SUFFICES ASSUME NEW i \in 1 .. Len(p)
                 PROVE  /\ mm.next[p[i]] = At(p, i + 1)
                        /\ mm.prev[p[i]] = At(p, i - 1)
    BY DEF Links
  <2>5. PICK a \in 1 .. Len(q) : p[i] = q[a] /\ a = IF i < k THEN i ELSE i + 1
    BY <1>51
  <2>6. m.next[q[a]] = At(q, a + 1) /\ m.prev[q[a]] = At(q, a - 1)
    BY <1>1 DEF Links
  <2> HIDE DEF p, q, mm, x
  <2>61. a # k /\ q[a] \in Items /\ q[a] # x
    BY <1>1, <2>2, <2>5
  <2>7. mm.next[q[a]] = IF a = k - 1 THEN At(q, k + 1) ELSE At(q, a + 1)
    BY <2>1, <2>3, <2>6, <2>61
  <2>8. mm.prev[q[a]] = IF a = k + 1 THEN At(q, k - 1) ELSE At(q, a - 1)
    BY <2>1, <2>3, <2>6, <2>61
  <2>9. ASSUME NEW h \in Int
        PROVE  At(p, h) = IF h < k THEN At(q, h) ELSE At(q, h + 1)
    <3>1. CASE h < k
      BY <1>1, <1>2, <1>3, <3>1 DEF At
    <3>2. CASE ~(h < k)
      BY <1>1, <1>2, <1>3, <3>2 DEF At
    <3> QED
      BY <3>1, <3>2
  <2>10. /\ At(p, i + 1) = IF i + 1 < k THEN At(q, i + 1) ELSE At(q, (i + 1) + 1)
         /\ At(p, i - 1) = IF i - 1 < k THEN At(q, i - 1) ELSE At(q, (i - 1) + 1)
    <3>1. i + 1 \in Int /\ i - 1 \in Int
      BY <1>2
    <3> QED
      BY <2>9, <3>1, Zenon
  <2> QED
    BY <1>1, <1>2, <2>5, <2>61, <2>7, <2>8, <2>10
<1>10. ASSUME NEW j \in Lists, j # l
       PROVE  Ends(mm, j, s[j]) /\ Links(mm, s[j])
  <2>1. Ends(m, j, s[j]) /\ Links(m, s[j])
    BY DEF Holds
  <2>2. Ends(mm, j, s[j])
    BY <1>1, <1>10, <1>63, <2>1 DEF Ends, ListStates
  <2>3. \A i \in 1 .. Len(s[j]) :
           /\ s[j][i] \in Items /\ s[j][i] # x
           /\ s[j][i] # At(q, k + 1) /\ s[j][i] # At(q, k - 1)
    <3>1. \A i \in 1 .. Len(s[j]) : s[j][i] \in Items
      BY <1>1
    <3>2. \A i \in 1 .. Len(s[j]), h \in 1 .. Len(q) : s[j][i] # q[h]
      BY <1>1, <1>10 DEF Apart
    <3> QED
      BY <1>0, <1>1, <3>1, <3>2 DEF At
  <2> HIDE DEF mm, q, x
  <2>4. Links(mm, s[j])
    BY <1>63, <2>1, <2>3 DEF Links
  <2> QED
    BY <2>2, <2>4
<1> HIDE DEF mm, t, p, q
<1>11. Holds(mm, t)
  BY <1>5, <1>6, <1>7, <1>8, <1>9, <1>10 DEF Holds
<1> QED
  BY <1>11 DEF mm, t, p, q

LEMMA InsertAfterPuts ==
    ASSUME NEW m, NEW s, Holds(m, s), NEW l \in Lists,
           NEW k \in 1 .. Len(s[l]) + 1, NEW x \in Items, ~Held(s, x)
    PROVE  ListInsertAfter(m, l, At(s[l], k - 1), x) = PutAt(m, l, s[l], k, x)
<1> DEFINE q == s[l]
           before == At(q, k - 1)
           nn == PutAt(m, l, q, k, x)
           oo == ListInsertAfter(m, l, before, x)
<1>0. Null \notin Items
  BY ListAssumption
<1>1. /\ q \in Seq(Items) /\ Len(q) \in Nat /\ m \in ListStates
      /\ Ends(m, l, q) /\ Links(m, q) /\ k \in 1 .. Len(q) + 1
  BY DEF Holds
<1>2. \A i, j \in 1 .. Len(q) : q[i] = q[j] => i = j
  BY DEF Holds, Apart
<1>3. /\ m = [head |-> m.head, tail |-> m.tail, length |-> m.length,
              next |-> m.next, prev |-> m.prev]
      /\ m.next \in [Items -> ItemOrNull] /\ m.prev \in [Items -> ItemOrNull]
  BY <1>1 DEF ListStates
<1>4. nn = [head |-> nn.head, tail |-> nn.tail, length |-> nn.length,
            next |-> nn.next, prev |-> nn.prev]
  BY DEF PutAt
<1>5. \A i \in 1 .. Len(q) : q[i] \in Items /\ q[i] # x
  BY <1>1 DEF Held
<1>6. /\ m.head[l] = At(q, 1) /\ m.tail[l] = At(q, Len(q))
      /\ m.tail[l] = Null <=> Len(q) = 0
      /\ before = Null <=> k = 1
      /\ Len(q) # 0 => m.head[l] = q[1] /\ m.tail[l] = q[Len(q)]
      /\ k # 1 => before = q[k - 1] /\ k - 1 \in 1 .. Len(q)
  BY <1>0, <1>1, <1>5 DEF Ends, At
<1>7. k # 1 => (before = m.tail[l] <=> k = Len(q) + 1)
  BY <1>1, <1>2, <1>6
<1>8. nn.length = [m.length EXCEPT ![l] = @ + 1]
  BY DEF PutAt
<1>9. CASE Len(q) = 0
  <2>1. k = Len(q) + 1 /\ oo = ListInsert(m, l, x)
    BY <1>1, <1>6, <1>9 DEF ListInsertAfter
  <2> QED
    BY <2>1, InsertPuts
<1>10. CASE Len(q) # 0 /\ k = 1
  <2>1. oo = [m EXCEPT !.next[x] = m.head[l],
                       !.prev = [@ EXCEPT ![x] = Null, ![m.head[l]] = x],
                       !.head[l] = x, !.length[l] = @ + 1]
    BY <1>6, <1>10 DEF ListInsertAfter
  <2> HIDE DEF oo, q
  <2>2. oo = [head |-> [m.head EXCEPT ![l] = x], tail |-> m.tail,
              length |-> [m.length EXCEPT ![l] = @ + 1],
              next |-> [m.next EXCEPT ![x] = m.head[l]],
              prev |-> [m.prev EXCEPT ![x] = Null, ![m.head[l]] = x]]
    BY <1>3, <2>1
  <2>3. m.head[l] # x /\ m.head[l] \in Items
    BY <1>1, <1>5, <1>6, <1>10
  <2>4. [m.next EXCEPT ![x] = m.head[l]] = nn.next
    BY <1>0, <1>3, <1>6, <1>10, <2>3 DEF PutAt, At
  <2>5. [m.prev EXCEPT ![x] = Null, ![m.head[l]] = x] = nn.prev
    BY <1>0, <1>3, <1>6, <1>10, <2>3 DEF PutAt, At
  <2>6. [m.head EXCEPT ![l] = x] = nn.head /\ m.tail = nn.tail
    BY <1>1, <1>10 DEF PutAt
  <2> HIDE DEF nn
  <2> QED
    BY <1>4, <1>8, <2>2, <2>4, <2>5, <2>6 DEF oo, nn, q
<1>11. CASE k # 1 /\ k = Len(q) + 1
  <2>1. oo = [m EXCEPT !.next = [@ EXCEPT ![x] = Null, ![before] = x],
                       !.prev[x] = before,
                       !.tail[l] = x, !.length[l] = @ + 1]
    BY <1>1, <1>6, <1>7, <1>11 DEF ListInsertAfter
  <2>3. before # x /\ before \in Items
    BY <1>5, <1>6, <1>11
  <2> HIDE DEF oo, q, before
  <2>2. oo = [head |-> m.head, tail |-> [m.tail EXCEPT ![l] = x],
              length |-> [m.length EXCEPT ![l] = @ + 1],
              next |-> [m.next EXCEPT ![x] = Null, ![before] = x],
              prev |-> [m.prev EXCEPT ![x] = before]]
    BY <1>3, <2>1
  <2>4. At(q, k) = Null /\ At(q, k - 1) = before
    BY <1>1, <1>11 DEF At, before
  <2>5. [m.next EXCEPT ![x] = Null, ![before] = x] = nn.next
    BY <1>3, <2>3, <2>4 DEF PutAt
  <2>6. [m.prev EXCEPT ![x] = before] = nn.prev
    <3>1. nn.prev = [y \in Items |-> IF y = x THEN before ELSE m.prev[y]]
      BY <1>0, <2>4 DEF PutAt
    <3> HIDE DEF nn
    <3> QED
      BY <1>3, <3>1
  <2>7. m.head = nn.head /\ [m.tail EXCEPT ![l] = x] = nn.tail
    BY <1>1, <1>11 DEF PutAt
  <2> HIDE DEF nn
  <2> QED
    BY <1>4, <1>8, <2>2, <2>5, <2>6, <2>7 DEF oo, nn, q, before
<1>12. CASE k # 1 /\ k # Len(q) + 1
  <2>1. oo = [m EXCEPT
                !.next = [@ EXCEPT ![x] = m.next[before], ![before] = x],
                !.prev = [@ EXCEPT ![m.next[before]] = x, ![x] = before],
                !.length[l] = @ + 1]
    BY <1>1, <1>6, <1>7, <1>12 DEF ListInsertAfter
  <2>2. m.next[before] = q[k]
    <3>1. before = q[k - 1] /\ k - 1 \in 1 .. Len(q) /\ k \in 1 .. Len(q)
      BY <1>1, <1>6, <1>12
    <3>2. Links(m, q)
      BY <1>1
    <3> HIDE DEF before, q, oo, nn
    <3>3. m.next[q[k - 1]] = At(q, (k - 1) + 1)
      BY <3>1, <3>2 DEF Links
    <3> QED
      BY <1>1, <3>1, <3>3 DEF At
  <2>3. before # x /\ before \in Items /\ q[k] # x /\ q[k] \in Items
    BY <1>1, <1>5, <1>6, <1>12
  <2>4. At(q, k) = q[k] /\ At(q, k - 1) = before
    BY <1>1, <1>12 DEF At
  <2> HIDE DEF oo, q, before
  <2>5. oo = [head |-> m.head, tail |-> m.tail,
              length |-> [m.length EXCEPT ![l] = @ + 1],
              next |-> [m.next EXCEPT ![x] = q[k], ![before] = x],
              prev |-> [m.prev EXCEPT ![q[k]] = x, ![x] = before]]
    BY <1>3, <2>1, <2>2
  <2>6. [m.next EXCEPT ![x] = q[k], ![before] = x] = nn.next
    BY <1>3, <2>3, <2>4 DEF PutAt
  <2>7. [m.prev EXCEPT ![q[k]] = x, ![x] = before] = nn.prev
    BY <1>3, <2>3, <2>4 DEF PutAt
  <2>8. m.head = nn.head /\ m.tail = nn.tail
    BY <1>12 DEF PutAt
  <2> HIDE DEF nn
  <2> QED
    BY <1>4, <1>8, <2>5, <2>6, <2>7, <2>8 DEF oo, nn, q, before
<1> QED
  BY <1>9, <1>10, <1>11, <1>12

LEMMA FreeKeeps ==
    ASSUME NEW m, NEW s, Holds(m, s), NEW l \in Lists
    PROVE  Holds(ListFree(m, l), [s EXCEPT ![l] = <<>>])
<1> DEFINE t == [s EXCEPT ![l] = <<>>]
           mm == ListFree(m, l)
<1>1. /\ s \in [Lists -> Seq(Items)] /\ Apart(s) /\ m \in ListStates
      /\ \A j \in Lists : Ends(m, j, s[j]) /\ Links(m, s[j])
  BY DEF Holds
<1>2. /\ t \in [Lists -> Seq(Items)] /\ t[l] = <<>>
      /\ \A j \in Lists : j # l => t[j] = s[j]
  BY <1>1
<1>3. /\ mm = [head |-> [m.head EXCEPT ![l] = Null],
               tail |-> [m.tail EXCEPT ![l] = Null],
               length |-> [m.length EXCEPT ![l] = 0],
               next |-> m.next, prev |-> m.prev]
  <2>1. m = [head |-> m.head, tail |-> m.tail, length |-> m.length,
             next |-> m.next, prev |-> m.prev]
    BY <1>1 DEF ListStates
  <2>2. mm = [m EXCEPT !.head[l] = Null, !.tail[l] = Null, !.length[l] = 0]
    BY DEF ListFree
  <2> HIDE DEF mm
  <2> QED
    BY <2>1, <2>2
<1> HIDE DEF t, mm
<1>4. mm \in ListStates
  BY <1>1, <1>3 DEF ListStates, ItemOrNull
<1>5. Apart(t)
  <2> SUFFICES ASSUME NEW f \in Lists, NEW g \in Lists,
                      NEW i \in 1 .. Len(t[f]), NEW h \in 1 .. Len(t[g]),
                      t[f][i] = t[g][h]
               PROVE  f = g /\ i = h
    BY DEF Apart
  <2>1. f # l /\ g # l
    BY <1>2
  <2>2. t[f] = s[f] /\ t[g] = s[g]
    BY <1>2, <2>1
  <2> QED
    BY <1>1, <2>2 DEF Apart
<1>6. Ends(mm, l, t[l]) /\ Links(mm, t[l])
  BY <1>1, <1>2, <1>3 DEF Ends, Links, At, ListStates
<1>7. ASSUME NEW j \in Lists, j # l
      PROVE  Ends(mm, j, t[j]) /\ Links(mm, t[j])
  BY <1>1, <1>2, <1>3, <1>7 DEF Ends, Links, ListStates
<1>8. Holds(mm, t)
  BY <1>2, <1>4, <1>5, <1>6, <1>7 DEF Holds
<1> QED
  BY <1>8 DEF mm, t

LEMMA EmptyHolds == Holds(NoLists, [l \in Lists |-> <<>>])
<1>1. NoLists \in ListStates
  BY DEF NoLists, ListStates, ItemOrNull
<1>2. [l \in Lists |-> <<>>] \in [Lists -> Seq(Items)]
  OBVIOUS
<1> QED
  BY <1>1, <1>2 DEF Holds, Apart, Ends, Links, At, NoLists

\* What foreach sees of lists that hold sequences.
LEMMA HeldIsSeen ==
    ASSUME NEW m, NEW s, Holds(m, s), NEW l \in Lists
    PROVE  /\ Forward(m, l) = s[l] /\ Backward(m, l) = Reverse(s[l])
           /\ IsInjective(s[l]) /\ s[l] \in Seq(Items)
<1> DEFINE q == s[l]
           p == Reverse(q)
<1>1. /\ q \in Seq(Items) /\ Len(q) \in Nat /\ Ends(m, l, q) /\ Links(m, q)
  BY DEF Holds
<1>2. \A i, j \in 1 .. Len(q) : q[i] = q[j] => i = j
  BY DEF Holds, Apart
<1>3. IsInjective(q)
  BY <1>1, <1>2 DEF IsInjective
<1> HIDE DEF q
<1>4. Along(m.head[l], m.next, q)
  BY <1>1 DEF Along, Ends, Links, At
<1>5. /\ p \in Seq(Items) /\ Len(p) = Len(q)
      /\ \A i \in 1 .. Len(q) : p[i] = q[(Len(q) - i) + 1]
  BY <1>1 DEF Reverse
<1> HIDE DEF p
<1>6. IsInjective(p)
  <2> SUFFICES ASSUME NEW i \in 1 .. Len(q), NEW j \in 1 .. Len(q), p[i] = p[j]
               PROVE  i = j
    BY <1>5 DEF IsInjective
  <2>1. (Len(q) - i) + 1 \in 1 .. Len(q) /\ (Len(q) - j) + 1 \in 1 .. Len(q)
    BY <1>1
  <2>2. (Len(q) - i) + 1 = (Len(q) - j) + 1
    BY <1>2, <1>5, <2>1
  <2> QED
    BY <1>1, <2>2
<1>7. Along(m.tail[l], m.prev, p)
  <2>1. m.tail[l] = IF Len(p) = 0 THEN Null ELSE p[1]
    BY <1>1, <1>5 DEF Ends, At
  <2>2. ASSUME NEW i \in 1 .. Len(p)
        PROVE  m.prev[p[i]] = IF i = Len(p) THEN Null ELSE p[i + 1]
    <3> DEFINE h == (Len(q) - i) + 1
    <3>1. h \in 1 .. Len(q) /\ p[i] = q[h] /\ (i = Len(p) <=> h = 1)
      BY <1>1, <1>5
    <3>2. m.prev[q[h]] = At(q, h - 1)
      BY <1>1, <3>1 DEF Links
    <3>3. i # Len(p) => p[i + 1] = q[(Len(q) - (i + 1)) + 1] /\ h - 1 \in 1 .. Len(q)
      <4>1. i # Len(p) => i + 1 \in 1 .. Len(q) /\ h - 1 \in 1 .. Len(q)
        BY <1>1, <1>5
      <4> HIDE DEF h
      <4> QED
        BY <1>5, <4>1
    <3>4. (Len(q) - (i + 1)) + 1 = h - 1
      BY <1>1, <1>5
    <3> QED
      BY <1>1, <3>1, <3>2, <3>3, <3>4 DEF At
  <2> QED
    BY <2>1, <2>2 DEF Along
<1> QED
  BY <1>1, <1>3, <1>4, <1>5, <1>6, <1>7, WalkAlong DEF Forward, Backward, q, p

-----------------------------------------------------------------------------
(* A branch of the tree.                                                   *)

\* f lists the first iterates of F.
Iterated(f, F, a, N) ==
    \A k \in 0 .. N : f[k] = IF k = 0 THEN a ELSE F[f[k - 1]]

\* The iterates of a function exist, as far as one likes.
LEMMA Iterates ==
    ASSUME NEW D, NEW F \in [D -> D], NEW a \in D, NEW N \in Nat
    PROVE  \E f \in [0 .. N -> D] : Iterated(f, F, a, N)
<1> DEFINE Is(f, n) == \A k \in 0 .. n : f[k] = IF k = 0 THEN a ELSE F[f[k - 1]]
           Bad == {n \in Nat : ~\E f \in [0 .. n -> D] : Is(f, n)}
<1>1. CASE Bad # {}
  <2>1. PICK n \in Bad : \A k \in Bad : n <= k
    BY <1>1, Least
  <2>2. n # 0
    <3>1. [k \in 0 .. 0 |-> a] \in [0 .. 0 -> D] /\ Is([k \in 0 .. 0 |-> a], 0)
      OBVIOUS
    <3> HIDE DEF Is
    <3> QED
      BY <2>1, <3>1
  <2>3. n \in Nat /\ n - 1 \in Nat /\ n - 1 \notin Bad
    <3>1. n \in Nat
      BY <2>1
    <3> HIDE DEF Bad
    <3> QED
      BY <2>1, <2>2, <3>1
  <2>4. PICK f \in [0 .. n - 1 -> D] : Is(f, n - 1)
    BY <2>3
  <2> DEFINE g == [k \in 0 .. n |-> IF k = n THEN F[f[n - 1]] ELSE f[k]]
  <2>5. g \in [0 .. n -> D]
    BY <2>3
  <2>6. Is(g, n)
    <3> SUFFICES ASSUME NEW k \in 0 .. n
                 PROVE  g[k] = IF k = 0 THEN a ELSE F[g[k - 1]]
      OBVIOUS
    <3>1. CASE k = n
      BY <2>2, <2>3, <3>1
    <3>2. CASE k # n
      <4>1. k \in 0 .. n - 1
        BY <2>3, <3>2
      <4>2. f[k] = IF k = 0 THEN a ELSE F[f[k - 1]]
        BY <2>4, <4>1
      <4> QED
        BY <2>3, <3>2, <4>1, <4>2
    <3> QED
      BY <3>1, <3>2
  <2> HIDE DEF g, Is
  <2> QED
    BY <2>1, <2>5, <2>6
<1>2. CASE Bad = {}
  <2>1. PICK f \in [0 .. N -> D] : Is(f, N)
    BY <1>2
  <2> QED
    BY <2>1 DEF Iterated
<1> QED
  BY <1>1, <1>2

\* The set that Branch returns is a last iterate.
LEMMA BranchSteps ==
    ASSUME NEW m, NEW n \in Nodes,
           \A x \in Nodes : Range(Forward(m, x)) \subseteq Nodes
    PROVE  \E F \in [SUBSET Nodes -> SUBSET Nodes],
              f \in [0 .. Cardinality(Nodes) -> SUBSET Nodes] :
              /\ \A S \in SUBSET Nodes :
                    F[S] = UNION {{x} \cup Range(Forward(m, x)) : x \in S}
              /\ Iterated(f, F, {n}, Cardinality(Nodes))
              /\ Branch(m, n) = f[Cardinality(Nodes)]
<1> DEFINE N == Cardinality(Nodes)
           Grow(S) == UNION {{x} \cup Range(Forward(m, x)) : x \in S}
           F == [S \in SUBSET Nodes |-> Grow(S)]
           Eq(f) == f = [k \in 0 .. N |-> IF k = 0 THEN {n} ELSE Grow(f[k - 1])]
           reach == CHOOSE f : Eq(f)
<1>1. N \in Nat
  BY ListAssumption, TreeAssumption, FS_Subset, FS_CardinalityType
<1>2. \A S \in SUBSET Nodes : Grow(S) \in SUBSET Nodes
  OBVIOUS
<1> HIDE DEF Grow
<1>3. F \in [SUBSET Nodes -> SUBSET Nodes]
  BY <1>2
<1>4. PICK f \in [0 .. N -> SUBSET Nodes] : Iterated(f, F, {n}, N)
  <2> DEFINE D == SUBSET Nodes
             a == {n}
  <2>1. a \in D /\ F \in [D -> D]
    BY <1>3
  <2> HIDE DEF F, N, D, a
  <2>2. \E f \in [0 .. N -> D] : Iterated(f, F, a, N)
    BY <1>1, <2>1, Iterates
  <2> QED
    BY <2>2 DEF D, a
<1>5. Eq(f)
  <2>1. ASSUME NEW k \in 0 .. N, k # 0
        PROVE  F[f[k - 1]] = Grow(f[k - 1])
    <3>1. k - 1 \in 0 .. N
      BY <1>1, <2>1
    <3> QED
      BY <3>1
  <2>2. \A k \in 0 .. N : f[k] = IF k = 0 THEN {n} ELSE F[f[k - 1]]
    BY <1>4, Zenon DEF Iterated
  <2>3. \A k \in 0 .. N : f[k] = IF k = 0 THEN {n} ELSE Grow(f[k - 1])
    BY <2>1, <2>2
  <2>4. f = [k \in 0 .. N |-> f[k]]
    OBVIOUS
  <2> HIDE DEF N
  <2> QED
    BY <2>3, <2>4, Zenon
<1>6. Eq(reach)
  <2> HIDE DEF Eq
  <2> QED
    BY <1>5
<1>7. Branch(m, n) = reach[N]
  BY DEF Branch, reach, Grow
<1> HIDE DEF reach
<1>8. \A k \in 0 .. N : reach[k] = IF k = 0 THEN {n} ELSE Grow(reach[k - 1])
  <2> HIDE DEF N
  <2> QED
    BY <1>6, Zenon
<1>9. \A k \in 0 .. N : reach[k] \in SUBSET Nodes
  <2> DEFINE Bad == {k \in 0 .. N : reach[k] \notin SUBSET Nodes}
  <2>1. CASE Bad # {}
    <3>1. Bad \in SUBSET Nat
      BY <1>1
    <3>2. PICK k \in Bad : \A j \in Bad : k <= j
      BY <2>1, <3>1, Least
    <3>3. k # 0
      BY <1>8, <3>2
    <3>4. k - 1 \in 0 .. N /\ k - 1 \notin Bad
      BY <1>1, <3>2, <3>3
    <3>5. reach[k] = Grow(reach[k - 1])
      BY <1>8, <3>2, <3>3
    <3>6. reach[k - 1] \in SUBSET Nodes
      BY <3>4
    <3> QED
      BY <1>2, <3>2, <3>5, <3>6
  <2>2. CASE Bad = {}
    BY <2>2
  <2> QED
    BY <2>1, <2>2
<1>10. reach \in [0 .. N -> SUBSET Nodes]
  <2>1. reach = [k \in 0 .. N |-> reach[k]]
    <3> HIDE DEF N
    <3> QED
      BY <1>6
  <2> HIDE DEF N
  <2> QED
    BY <1>9, <2>1
<1>11. Iterated(reach, F, {n}, N)
  <2> SUFFICES ASSUME NEW k \in 0 .. N
               PROVE  reach[k] = IF k = 0 THEN {n} ELSE F[reach[k - 1]]
    BY DEF Iterated
  <2>1. k # 0 => k - 1 \in 0 .. N
    BY <1>1
  <2>2. k # 0 => F[reach[k - 1]] = Grow(reach[k - 1])
    BY <1>9, <2>1
  <2> QED
    BY <1>8, <2>2
<1>12. \A S \in SUBSET Nodes : F[S] = UNION {{x} \cup Range(Forward(m, x)) : x \in S}
  BY DEF Grow
<1> HIDE DEF F
<1> QED
  BY <1>3, <1>7, <1>10, <1>11, <1>12

\* What lies below a tree node are tree nodes.
LEMMA BranchInTree ==
    ASSUME NEW m, NEW n \in Nodes,
           \A x \in Nodes : Range(Forward(m, x)) \subseteq Nodes
    PROVE  Branch(m, n) \subseteq Nodes
<1> DEFINE N == Cardinality(Nodes)
<1>1. N \in Nat
  BY ListAssumption, TreeAssumption, FS_Subset, FS_CardinalityType
<1>2. \E f \in [0 .. N -> SUBSET Nodes] : Branch(m, n) = f[N]
  BY BranchSteps
<1> HIDE DEF N
<1> QED
  BY <1>1, <1>2

-----------------------------------------------------------------------------
(* The lists of the tree and the stack.                                    *)

Contents == [l \in Lists |-> Forward(list, l)]

\* Children lists hold tree nodes that were allocated once, the stack holds
\* elements that are not freed: what a caller inserts is in no list.
OwnersOK ==
    /\ \A l \in Nodes : \A i \in 1 .. Len(Contents[l]) :
          Contents[l][i] \in Nodes \ fresh
    /\ \A i \in 1 .. Len(Contents[Stack]) :
          Contents[Stack][i] \in Elems \cap allocated

TreeTypeOK ==
    /\ parent \in [Nodes -> Nodes \cup {Null}]
    /\ allocated \subseteq Items /\ fresh \subseteq Nodes

ListInv == Holds(list, Contents) /\ OwnersOK /\ TreeTypeOK

\* What a step may do to the sequences: the actions of ListSeqs.
PutStep(l, k, x) ==
    /\ x \in Items /\ ~Held(Contents, x) /\ k \in 1 .. Len(Contents[l]) + 1
    /\ Contents' = [Contents EXCEPT ![l] = With(Contents[l], k, x)]
TakeStep(l, k) ==
    /\ k \in 1 .. Len(Contents[l])
    /\ Contents' = [Contents EXCEPT ![l] = Without(Contents[l], k)]
EmptyStep(l) == Contents' = [Contents EXCEPT ![l] = <<>>]

LEMMA NowContents ==
    ASSUME NEW t, Holds(list', t)
    PROVE  Contents' = t
<1>1. t \in [Lists -> Seq(Items)]
  BY DEF Holds
<1>2. \A l \in Lists : Forward(list', l) = t[l]
  BY HeldIsSeen
<1>3. Contents' = [l \in Lists |-> Forward(list', l)]
  BY DEF Contents, Forward, Walk
<1> QED
  BY <1>1, <1>2, <1>3

LEMMA PutHolds ==
    ASSUME Holds(list, Contents), NEW l \in Lists, NEW x \in Items,
           NEW k \in 1 .. Len(Contents[l]) + 1, ~Held(Contents, x),
           list' = PutAt(list, l, Contents[l], k, x)
    PROVE  Holds(list, Contents)' /\ PutStep(l, k, x)
<1> DEFINE t == [Contents EXCEPT ![l] = With(Contents[l], k, x)]
<1>1. Holds(list', t)
  BY PutKeeps
<1> HIDE DEF t
<1>2. Contents' = t
  BY <1>1, NowContents
<1> QED
  BY <1>1, <1>2 DEF PutStep, t

LEMMA TakeHolds ==
    ASSUME Holds(list, Contents), NEW l \in Lists,
           NEW k \in 1 .. Len(Contents[l]),
           list' = ListDelete(list, l, Contents[l][k])
    PROVE  Holds(list, Contents)' /\ TakeStep(l, k)
<1> DEFINE t == [Contents EXCEPT ![l] = Without(Contents[l], k)]
<1>1. Holds(list', t)
  BY TakeKeeps
<1> HIDE DEF t
<1>2. Contents' = t
  BY <1>1, NowContents
<1> QED
  BY <1>1, <1>2 DEF TakeStep, t

LEMMA FreeHolds ==
    ASSUME Holds(list, Contents), NEW l \in Lists, list' = ListFree(list, l)
    PROVE  Holds(list, Contents)' /\ EmptyStep(l)
<1> DEFINE t == [Contents EXCEPT ![l] = <<>>]
<1>1. Holds(list', t)
  BY FreeKeeps
<1> HIDE DEF t
<1>2. Contents' = t
  BY <1>1, NowContents
<1> QED
  BY <1>1, <1>2 DEF EmptyStep, t

LEMMA SameHolds ==
    ASSUME Holds(list, Contents), UNCHANGED list
    PROVE  Holds(list, Contents)' /\ Contents' = Contents
<1>1. Contents' = Contents
  BY DEF Contents, Forward, Walk
<1> QED
  BY <1>1

\* Where the items of a list were before the step.
LEMMA PutMembers ==
    ASSUME Contents \in [Lists -> Seq(Items)], NEW l \in Lists,
           NEW k, NEW x, PutStep(l, k, x)
    PROVE  \A j \in Lists : \A i \in 1 .. Len(Contents'[j]) :
              \/ j = l /\ Contents'[j][i] = x
              \/ \E h \in 1 .. Len(Contents[j]) : Contents'[j][i] = Contents[j][h]
<1> DEFINE q == Contents[l]
<1>1. \A j \in Lists : Contents'[j] = IF j = l THEN With(q, k, x) ELSE Contents[j]
  BY DEF PutStep
<1>2. q \in Seq(Items) /\ k \in 1 .. Len(q) + 1 /\ Len(q) \in Nat
  BY DEF PutStep
<1> HIDE DEF q
<1>3. \A i \in 1 .. Len(With(q, k, x)) :
          \/ With(q, k, x)[i] = x
          \/ \E h \in 1 .. Len(q) : With(q, k, x)[i] = q[h]
  <2> DEFINE p == With(q, k, x)
  <2>1. /\ Len(p) = Len(q) + 1
        /\ \A i \in 1 .. Len(q) + 1 :
              p[i] = IF i < k THEN q[i] ELSE IF i = k THEN x ELSE q[i - 1]
    BY <1>2 DEF With
  <2> HIDE DEF p
  <2> SUFFICES ASSUME NEW i \in 1 .. Len(q) + 1
               PROVE  p[i] = x \/ \E h \in 1 .. Len(q) : p[i] = q[h]
    BY <2>1 DEF p
  <2>2. CASE i < k
    BY <1>2, <2>1, <2>2
  <2>3. CASE i = k
    BY <1>2, <2>1, <2>3
  <2>4. CASE i > k
    <3>1. i - 1 \in 1 .. Len(q) /\ p[i] = q[i - 1]
      BY <1>2, <2>1, <2>4
    <3> QED
      BY <3>1
  <2> QED
    BY <1>2, <2>2, <2>3, <2>4
<1> QED
  BY <1>1, <1>3 DEF q

LEMMA TakeMembers ==
    ASSUME Contents \in [Lists -> Seq(Items)], NEW l \in Lists,
           NEW k, TakeStep(l, k)
    PROVE  \A j \in Lists : \A i \in 1 .. Len(Contents'[j]) :
              \E h \in 1 .. Len(Contents[j]) :
                  Contents'[j][i] = Contents[j][h] /\ (j = l => h # k)
<1> DEFINE q == Contents[l]
<1>1. \A j \in Lists : Contents'[j] = IF j = l THEN Without(q, k) ELSE Contents[j]
  BY DEF TakeStep
<1>2. q \in Seq(Items) /\ k \in 1 .. Len(q) /\ Len(q) \in Nat
  BY DEF TakeStep
<1> HIDE DEF q
<1>3. \A i \in 1 .. Len(Without(q, k)) :
          \E h \in 1 .. Len(q) : Without(q, k)[i] = q[h] /\ h # k
  <2> DEFINE p == Without(q, k)
  <2>1. /\ Len(p) = Len(q) - 1
        /\ \A i \in 1 .. Len(q) - 1 : p[i] = IF i < k THEN q[i] ELSE q[i + 1]
    BY <1>2 DEF Without
  <2> HIDE DEF p
  <2> SUFFICES ASSUME NEW i \in 1 .. Len(q) - 1
               PROVE  \E h \in 1 .. Len(q) : p[i] = q[h] /\ h # k
    BY <2>1 DEF p
  <2>2. CASE i < k
    BY <1>2, <2>1, <2>2
  <2>3. CASE i >= k
    <3>1. i + 1 \in 1 .. Len(q) /\ p[i] = q[i + 1] /\ i + 1 # k
      BY <1>2, <2>1, <2>3
    <3> QED
      BY <3>1
  <2> QED
    BY <1>2, <2>2, <2>3
<1> QED
  BY <1>1, <1>3 DEF q

Moved ==
    \/ Contents' = Contents
    \/ \E l \in Lists : \/ \E k \in Nat, x \in Items : PutStep(l, k, x)
                        \/ \E k \in Nat : TakeStep(l, k)
                        \/ EmptyStep(l)

\* The tree is as it was.
TreeKept ==
    /\ UNCHANGED treeVars
    /\ allocated' \cap Nodes = allocated \cap Nodes
    /\ \A l \in Nodes : Contents'[l] = Contents[l]

LEMMA TreeFacts ==
    /\ Null \notin Items /\ Stack \in Lists /\ Stack \notin Nodes
    /\ Nodes \subseteq Lists /\ Lists = Nodes \cup {Stack}
    /\ Nodes \subseteq Items /\ Elems \subseteq Items /\ Nodes \cap Elems = {}
BY ListAssumption, TreeAssumption

\* Items that were in the same list before, or are new and of the right kind.
LEMMA OwnersStep ==
    ASSUME OwnersOK, fresh' \subseteq fresh,
           \A j \in Nodes : \A i \in 1 .. Len(Contents'[j]) :
               \/ Contents'[j][i] \in Nodes \ fresh'
               \/ \E h \in 1 .. Len(Contents[j]) : Contents'[j][i] = Contents[j][h],
           \A i \in 1 .. Len(Contents'[Stack]) :
               \/ Contents'[Stack][i] \in Elems \cap allocated'
               \/ \E h \in 1 .. Len(Contents[Stack]) :
                     /\ Contents'[Stack][i] = Contents[Stack][h]
                     /\ Contents[Stack][h] \in allocated'
    PROVE  OwnersOK'
<1>1. ASSUME NEW j \in Nodes, NEW i \in 1 .. Len(Contents'[j])
      PROVE  Contents'[j][i] \in Nodes \ fresh'
  <2>1. CASE \E h \in 1 .. Len(Contents[j]) : Contents'[j][i] = Contents[j][h]
    <3>1. PICK h \in 1 .. Len(Contents[j]) : Contents'[j][i] = Contents[j][h]
      BY <2>1
    <3>2. Contents[j][h] \in Nodes \ fresh
      BY DEF OwnersOK
    <3> QED
      BY <3>1, <3>2
  <2> QED
    BY <2>1
<1>2. ASSUME NEW i \in 1 .. Len(Contents'[Stack])
      PROVE  Contents'[Stack][i] \in Elems \cap allocated'
  <2>1. CASE \E h \in 1 .. Len(Contents[Stack]) :
                /\ Contents'[Stack][i] = Contents[Stack][h]
                /\ Contents[Stack][h] \in allocated'
    <3>1. PICK h \in 1 .. Len(Contents[Stack]) :
                /\ Contents'[Stack][i] = Contents[Stack][h]
                /\ Contents[Stack][h] \in allocated'
      BY <2>1
    <3>2. Contents[Stack][h] \in Elems
      BY DEF OwnersOK
    <3> QED
      BY <3>1, <3>2
  <2> QED
    BY <2>1
<1> QED
  BY <1>1, <1>2 DEF OwnersOK

LEMMA InStack ==
    ASSUME OwnersOK
    PROVE  \A h \in 1 .. Len(Contents[Stack]) : Contents[Stack][h] \in Elems \cap allocated
BY DEF OwnersOK

LEMMA InsertChildMoves ==
    ASSUME ListInv, NEW p \in Nodes, NEW n \in Nodes, TreeNodeInsertChild(p, n)
    PROVE  ListInv' /\ Moved /\ \E k : PutStep(p, k, n)
<1> USE TreeFacts
<1>1. /\ Holds(list, Contents) /\ OwnersOK /\ TreeTypeOK
      /\ Contents \in [Lists -> Seq(Items)]
  BY DEF ListInv, Holds
<1>2. /\ list' = ListInsert(list, p, n) /\ parent' = [parent EXCEPT ![n] = p]
      /\ allocated' = allocated \cup {n} /\ fresh' = fresh \ {n} /\ n \in fresh
  BY DEF TreeNodeInsertChild
<1>3. ~Held(Contents, n)
  BY <1>1, <1>2 DEF Held, OwnersOK
<1> DEFINE k == Len(Contents[p]) + 1
<1>4. k \in 1 .. Len(Contents[p]) + 1 /\ k \in Nat
  BY <1>1
<1>5. list' = PutAt(list, p, Contents[p], k, n)
  BY <1>1, <1>2, <1>3, InsertPuts
<1> HIDE DEF k
<1>6. Holds(list, Contents)' /\ PutStep(p, k, n)
  BY <1>1, <1>3, <1>4, <1>5, PutHolds
<1>7. OwnersOK'
  <2>1. \A j \in Lists : \A i \in 1 .. Len(Contents'[j]) :
              \/ j = p /\ Contents'[j][i] = n
              \/ \E h \in 1 .. Len(Contents[j]) : Contents'[j][i] = Contents[j][h]
    BY <1>1, <1>6, PutMembers
  <2>2. \A j \in Nodes : \A i \in 1 .. Len(Contents'[j]) :
           \/ Contents'[j][i] \in Nodes \ fresh'
           \/ \E h \in 1 .. Len(Contents[j]) : Contents'[j][i] = Contents[j][h]
    BY <1>2, <2>1
  <2>3. \A i \in 1 .. Len(Contents'[Stack]) : \E h \in 1 .. Len(Contents[Stack]) :
           /\ Contents'[Stack][i] = Contents[Stack][h]
           /\ Contents[Stack][h] \in allocated'
    BY <1>1, <1>2, <2>1, InStack
  <2> QED
    BY <1>1, <1>2, <2>2, <2>3, OwnersStep
<1>8. TreeTypeOK'
  BY <1>1, <1>2 DEF TreeTypeOK
<1> QED
  BY <1>4, <1>6, <1>7, <1>8 DEF ListInv, Moved

LEMMA RemoveMoves ==
    ASSUME ListInv, NEW n \in Nodes, TreeNodeRemove(n)
    PROVE  /\ ListInv' /\ Moved
           /\ \E k : TakeStep(parent[n], k) /\ Contents[parent[n]][k] = n
<1> USE TreeFacts
<1>1. /\ Holds(list, Contents) /\ OwnersOK /\ TreeTypeOK
      /\ Contents \in [Lists -> Seq(Items)]
  BY DEF ListInv, Holds
<1> DEFINE p == parent[n]
<1>2. /\ p # Null /\ ListFind(list, p, n) # Null
      /\ list' = ListDelete(list, p, n)
      /\ allocated' = allocated \ Branch(list, n) /\ fresh' = fresh
      /\ parent' = parent
  BY DEF TreeNodeRemove
<1>3. p \in Nodes
  BY <1>1, <1>2 DEF TreeTypeOK
<1> HIDE DEF p
<1>4. Forward(list, p) = Contents[p] /\ Contents[p] \in Seq(Items)
  BY <1>1, <1>3 DEF Contents
<1>5. PICK k \in 1 .. Len(Contents[p]) : Contents[p][k] = n
  BY <1>2, <1>4 DEF ListFind, Range
<1>6. Holds(list, Contents)' /\ TakeStep(p, k)
  BY <1>1, <1>2, <1>3, <1>5, TakeHolds
<1>7. Branch(list, n) \subseteq Nodes
  <2>1. \A x \in Nodes : Range(Forward(list, x)) \subseteq Nodes
    <3> SUFFICES ASSUME NEW x \in Nodes PROVE Range(Contents[x]) \subseteq Nodes
      BY DEF Contents
    <3>1. Contents[x] \in Seq(Items)
      BY <1>1
    <3> QED
      BY <1>1, <3>1 DEF OwnersOK, Range
  <2> QED
    BY <2>1, BranchInTree
<1>8. OwnersOK'
  <2>1. \A j \in Lists : \A i \in 1 .. Len(Contents'[j]) :
              \E h \in 1 .. Len(Contents[j]) : Contents'[j][i] = Contents[j][h]
    BY <1>1, <1>3, <1>6, TakeMembers
  <2>2. Elems \cap allocated' = Elems \cap allocated
    BY <1>2, <1>7
  <2>3. \A i \in 1 .. Len(Contents'[Stack]) : \E h \in 1 .. Len(Contents[Stack]) :
           /\ Contents'[Stack][i] = Contents[Stack][h]
           /\ Contents[Stack][h] \in allocated'
    BY <1>1, <2>1, <2>2, InStack
  <2> QED
    BY <1>1, <1>2, <2>1, <2>3, OwnersStep
<1>9. TreeTypeOK'
  BY <1>1, <1>2 DEF TreeTypeOK
<1>10. \E j : TakeStep(p, j) /\ Contents[p][j] = n
  BY <1>5, <1>6
<1>11. ListInv' /\ Moved
  BY <1>3, <1>6, <1>8, <1>9 DEF ListInv, Moved
<1> QED
  BY <1>10, <1>11 DEF p

LEMMA PushMoves ==
    ASSUME ListInv, NEW x \in Elems, NEW k \in 1 .. Len(Contents[Stack]) + 1,
           x \notin allocated,
           list' = PutAt(list, Stack, Contents[Stack], k, x),
           allocated' = allocated \cup {x}, UNCHANGED treeVars
    PROVE  ListInv' /\ Moved /\ TreeKept
<1> USE TreeFacts
<1>1. /\ Holds(list, Contents) /\ OwnersOK /\ TreeTypeOK
      /\ Contents \in [Lists -> Seq(Items)]
  BY DEF ListInv, Holds
<1>2. ~Held(Contents, x)
  BY <1>1 DEF Held, OwnersOK
<1>3. Holds(list, Contents)' /\ PutStep(Stack, k, x)
  BY <1>1, <1>2, PutHolds
<1>4. OwnersOK'
  <2>1. \A j \in Lists : \A i \in 1 .. Len(Contents'[j]) :
              \/ j = Stack /\ Contents'[j][i] = x
              \/ \E h \in 1 .. Len(Contents[j]) : Contents'[j][i] = Contents[j][h]
    BY <1>1, <1>3, PutMembers
  <2>2. fresh' \subseteq fresh
    BY DEF treeVars
  <2>3. \A i \in 1 .. Len(Contents'[Stack]) :
           \/ Contents'[Stack][i] \in Elems \cap allocated'
           \/ \E h \in 1 .. Len(Contents[Stack]) :
                 /\ Contents'[Stack][i] = Contents[Stack][h]
                 /\ Contents[Stack][h] \in allocated'
    BY <1>1, <2>1, InStack
  <2>4. \A j \in Nodes : \A i \in 1 .. Len(Contents'[j]) :
           \E h \in 1 .. Len(Contents[j]) : Contents'[j][i] = Contents[j][h]
    BY <2>1
  <2> QED
    BY <1>1, <2>2, <2>3, <2>4, OwnersStep
<1>5. TreeTypeOK'
  BY <1>1 DEF TreeTypeOK, treeVars
<1>6. TreeKept
  <2>1. \A j \in Nodes : Contents'[j] = Contents[j]
    BY <1>1, <1>3 DEF PutStep
  <2>2. allocated' \cap Nodes = allocated \cap Nodes
    BY <1>1
  <2> QED
    BY <1>2, <2>1, <2>2 DEF TreeKept
<1> QED
  BY <1>1, <1>3, <1>4, <1>5, <1>6 DEF ListInv, Moved

LEMMA GiveMoves ==
    ASSUME ListInv, NEW k \in 1 .. Len(Contents[Stack]), Give(Contents[Stack][k])
    PROVE  ListInv' /\ Moved /\ TreeKept
<1> USE TreeFacts
<1> DEFINE x == Contents[Stack][k]
<1>1. /\ Holds(list, Contents) /\ OwnersOK /\ TreeTypeOK /\ Apart(Contents)
      /\ Contents \in [Lists -> Seq(Items)]
  BY DEF ListInv, Holds
<1>2. /\ list' = ListDelete(list, Stack, x) /\ allocated' = allocated \ {x}
      /\ UNCHANGED treeVars
  BY DEF Give
<1>3. Holds(list, Contents)' /\ TakeStep(Stack, k)
  BY <1>1, <1>2, TakeHolds
<1>4. OwnersOK'
  <2>1. \A j \in Lists : \A i \in 1 .. Len(Contents'[j]) :
              \E h \in 1 .. Len(Contents[j]) :
                  Contents'[j][i] = Contents[j][h] /\ (j = Stack => h # k)
    BY <1>1, <1>3, TakeMembers
  <2>2. \A h \in 1 .. Len(Contents[Stack]) : h # k => Contents[Stack][h] # x
    BY <1>1 DEF Apart
  <2> HIDE DEF x
  <2>3. fresh' \subseteq fresh
    BY <1>2 DEF treeVars
  <2>4. \A i \in 1 .. Len(Contents'[Stack]) : \E h \in 1 .. Len(Contents[Stack]) :
           /\ Contents'[Stack][i] = Contents[Stack][h]
           /\ Contents[Stack][h] \in allocated'
    BY <1>1, <1>2, <2>1, <2>2, InStack
  <2>5. \A j \in Nodes : \A i \in 1 .. Len(Contents'[j]) :
           \E h \in 1 .. Len(Contents[j]) : Contents'[j][i] = Contents[j][h]
    BY <2>1
  <2> QED
    BY <1>1, <2>3, <2>4, <2>5, OwnersStep
<1>5. TreeTypeOK'
  BY <1>1, <1>2 DEF TreeTypeOK, treeVars
<1>6. TreeKept
  <2>1. \A j \in Nodes : Contents'[j] = Contents[j]
    BY <1>1, <1>3 DEF TakeStep
  <2>2. allocated' \cap Nodes = allocated \cap Nodes
    BY <1>1, <1>2, InStack
  <2> QED
    BY <1>2, <2>1, <2>2 DEF TreeKept
<1> QED
  BY <1>1, <1>3, <1>4, <1>5, <1>6 DEF ListInv, Moved

LEMMA FreeStackMoves ==
    ASSUME ListInv, FreeStack
    PROVE  ListInv' /\ Moved /\ TreeKept
<1> USE TreeFacts
<1>1. /\ Holds(list, Contents) /\ OwnersOK /\ TreeTypeOK
      /\ Contents \in [Lists -> Seq(Items)]
  BY DEF ListInv, Holds
<1>2. /\ list' = ListFree(list, Stack) /\ UNCHANGED treeVars
      /\ allocated' \subseteq allocated
  BY DEF FreeStack
<1>3. Holds(list, Contents)' /\ EmptyStep(Stack)
  BY <1>1, <1>2, FreeHolds
<1>4. OwnersOK'
  <2>1. \A j \in Lists : Contents'[j] = IF j = Stack THEN <<>> ELSE Contents[j]
    BY <1>1, <1>3 DEF EmptyStep
  <2>2. \A j \in Nodes : Contents'[j] = Contents[j]
    BY <2>1
  <2>3. fresh' \subseteq fresh
    BY <1>2 DEF treeVars
  <2>4. \A i \in 1 .. Len(Contents'[Stack]) : FALSE
    BY <2>1
  <2> QED
    BY <1>1, <2>2, <2>3, <2>4, OwnersStep
<1>5. TreeTypeOK'
  BY <1>1, <1>2 DEF TreeTypeOK, treeVars
<1>6. TreeKept
  <2>1. \A j \in Nodes : Contents'[j] = Contents[j]
    BY <1>1, <1>3 DEF EmptyStep
  <2>2. Forward(list, Stack) = Contents[Stack] /\ Contents[Stack] \in Seq(Items)
    BY <1>1, HeldIsSeen
  <2>3. Range(Contents[Stack]) \subseteq Elems
    BY <1>1, <2>2, InStack DEF Range
  <2>4. allocated' \cap Nodes = allocated \cap Nodes
    BY <2>2, <2>3 DEF FreeStack
  <2> QED
    BY <1>2, <2>1, <2>4 DEF TreeKept
<1> QED
  BY <1>3, <1>4, <1>5, <1>6 DEF ListInv, Moved

LEMMA SameMoves ==
    ASSUME ListInv, UNCHANGED list, fresh' \subseteq fresh,
           Elems \cap allocated' = Elems \cap allocated, TreeTypeOK'
    PROVE  ListInv' /\ Moved
<1>1. Holds(list, Contents) /\ OwnersOK
  BY DEF ListInv
<1>2. Holds(list, Contents)' /\ Contents' = Contents
  BY <1>1, SameHolds
<1>3. OwnersOK'
  BY <1>1, <1>2 DEF OwnersOK
<1> QED
  BY <1>2, <1>3 DEF ListInv, Moved

\* The operations on the stack leave the tree alone.
LEMMA StackMoves ==
    ASSUME ListInv, StackStep
    PROVE  ListInv' /\ Moved /\ TreeKept
<1> USE TreeFacts
<1>0. /\ Holds(list, Contents) /\ TreeTypeOK /\ Contents \in [Lists -> Seq(Items)]
      /\ Forward(list, Stack) = Contents[Stack] /\ Len(Contents[Stack]) \in Nat
      /\ Ends(list, Stack, Contents[Stack])
  <2>1. /\ Holds(list, Contents) /\ TreeTypeOK /\ Contents \in [Lists -> Seq(Items)]
        /\ Ends(list, Stack, Contents[Stack])
    BY DEF ListInv, Holds
  <2> QED
    BY <2>1 DEF Contents
<1>1. ASSUME NEW x \in Elems, Push(x)
      PROVE  ListInv' /\ Moved /\ TreeKept
  <2> DEFINE k == Len(Contents[Stack]) + 1
  <2>1. k \in 1 .. Len(Contents[Stack]) + 1
    BY <1>0
  <2>2. /\ list' = ListInsert(list, Stack, x) /\ x \notin allocated
        /\ allocated' = allocated \cup {x} /\ UNCHANGED treeVars
    BY <1>1 DEF Push
  <2>3. ~Held(Contents, x)
    BY <2>2 DEF Held, ListInv, OwnersOK
  <2>4. list' = PutAt(list, Stack, Contents[Stack], k, x)
    BY <1>0, <2>2, <2>3, InsertPuts
  <2> HIDE DEF k
  <2> QED
    BY <2>1, <2>2, <2>4, PushMoves
<1>2. ASSUME NEW x \in Elems, NEW before \in ItemOrNull, PushAfter(before, x)
      PROVE  ListInv' /\ Moved /\ TreeKept
  <2>2. /\ list' = ListInsertAfter(list, Stack, before, x) /\ x \notin allocated
        /\ allocated' = allocated \cup {x} /\ UNCHANGED treeVars
        /\ before \in {Null} \cup Range(Contents[Stack])
    BY <1>0, <1>2 DEF PushAfter
  <2>3. ~Held(Contents, x)
    BY <2>2 DEF Held, ListInv, OwnersOK
  <2>4. PICK k \in 1 .. Len(Contents[Stack]) + 1 : before = At(Contents[Stack], k - 1)
    <3>1. CASE before = Null
      <4>1. 1 \in 1 .. Len(Contents[Stack]) + 1 /\ At(Contents[Stack], 1 - 1) = Null
        BY <1>0 DEF At
      <4> QED
        BY <3>1, <4>1
    <3>2. CASE before \in Range(Contents[Stack])
      <4>1. PICK h \in 1 .. Len(Contents[Stack]) : before = Contents[Stack][h]
        BY <1>0, <3>2 DEF Range
      <4>2. /\ h + 1 \in 1 .. Len(Contents[Stack]) + 1 /\ (h + 1) - 1 = h
        BY <1>0
      <4>3. before = At(Contents[Stack], (h + 1) - 1)
        BY <4>1, <4>2 DEF At
      <4> QED
        BY <4>2, <4>3
    <3> QED
      BY <2>2, <3>1, <3>2
  <2>5. list' = PutAt(list, Stack, Contents[Stack], k, x)
    BY <1>0, <2>2, <2>3, <2>4, InsertAfterPuts
  <2> QED
    BY <2>2, <2>5, PushMoves
<1>3. CASE ListPop
  <2> DEFINE k == Len(Contents[Stack])
  <2>1. k \in 1 .. Len(Contents[Stack]) /\ list.tail[Stack] = Contents[Stack][k]
    BY <1>0, <1>3 DEF ListPop, Ends, At
  <2>2. Give(Contents[Stack][k])
    BY <1>3, <2>1 DEF ListPop
  <2> HIDE DEF k
  <2> QED
    BY <2>1, <2>2, GiveMoves
<1>4. CASE ListDequeue
  <2>1. 1 \in 1 .. Len(Contents[Stack]) /\ list.head[Stack] = Contents[Stack][1]
    BY <1>0, <1>4 DEF ListDequeue, Ends, At
  <2>2. Give(Contents[Stack][1])
    BY <1>4, <2>1 DEF ListDequeue
  <2> QED
    BY <2>1, <2>2, GiveMoves
<1>5. CASE FreeStack
  BY <1>5, FreeStackMoves
<1>6. ASSUME NEW index \in 0 .. Cardinality(Elems), ListRemove(index)
      PROVE  ListInv' /\ Moved /\ TreeKept
  <2>1. index \in Nat
    BY ListAssumption, FS_Subset, FS_CardinalityType
  <2> DEFINE k == index + 1
  <2>2. k \in 1 .. Len(Contents[Stack])
    BY <1>0, <1>6, <2>1 DEF ListRemove, Ends
  <2>3. Give(Contents[Stack][k])
    BY <1>0, <1>6 DEF ListRemove, ListAt
  <2> HIDE DEF k
  <2> QED
    BY <2>2, <2>3, GiveMoves
<1> QED
  BY <1>1, <1>2, <1>3, <1>4, <1>5, <1>6 DEF StackStep

\* Every step keeps the invariant, and is a step on sequences.
LEMMA StepMoves ==
    ASSUME ListInv, [TreeStep \/ StackStep]_vars
    PROVE  ListInv' /\ Moved
<1> USE TreeFacts
<1>0. TreeTypeOK
  BY DEF ListInv
<1>1. CASE TreeSetRoot
  <2>1. /\ UNCHANGED list /\ fresh' \subseteq fresh
        /\ Elems \cap allocated' = Elems \cap allocated
    BY <1>1, TreeAssumption DEF TreeSetRoot
  <2>2. TreeTypeOK'
    BY <1>0, <1>1, TreeAssumption DEF TreeSetRoot, TreeTypeOK
  <2> QED
    BY <2>1, <2>2, SameMoves
<1>2. ASSUME NEW p \in Nodes, NEW n \in Nodes, TreeNodeInsertChild(p, n)
      PROVE  ListInv' /\ Moved
  BY <1>2, InsertChildMoves
<1>3. ASSUME NEW n \in Nodes, TreeNodeRemove(n)
      PROVE  ListInv' /\ Moved
  BY <1>3, RemoveMoves
<1>4. CASE StackStep
  BY <1>4, StackMoves
<1>5. CASE UNCHANGED vars
  <2>1. TreeTypeOK'
    BY <1>0, <1>5 DEF TreeTypeOK, vars, treeVars
  <2> QED
    BY <1>5, <2>1, SameMoves DEF vars, treeVars
<1> QED
  BY <1>1, <1>2, <1>3, <1>4, <1>5 DEF TreeStep

LEMMA InitLists ==
    ASSUME Init
    PROVE  ListInv /\ Contents = [l \in Lists |-> <<>>]
<1>1. list = NoLists /\ parent = [n \in Nodes |-> Null] /\ allocated = {} /\ fresh = Nodes
  BY DEF Init
<1>2. Holds(list, [l \in Lists |-> <<>>])
  BY <1>1, EmptyHolds
<1>3. \A l \in Lists : Forward(list, l) = [j \in Lists |-> <<>>][l]
  BY <1>2, HeldIsSeen
<1>4. Contents = [l \in Lists |-> <<>>]
  BY <1>3 DEF Contents
<1>5. OwnersOK
  BY <1>4, TreeFacts DEF OwnersOK
<1> QED
  BY <1>1, <1>2, <1>4, <1>5 DEF ListInv, TreeTypeOK

-----------------------------------------------------------------------------
(* The theorems.                                                           *)

\* The device manager changes the tree and the lists through the operations of
\* tree.c and list.c only.
THEOREM ManagerUsesTree == DevSpec => Spec
<1>1. DevInit => Init
  BY DEF DevInit
<1>2. [DevNext]_devAll => [TreeStep \/ StackStep]_vars
  <2> SUFFICES ASSUME [DevNext]_devAll PROVE [TreeStep \/ StackStep]_vars
    OBVIOUS
  <2>1. ASSUME NEW d, NEW p, Insert(d, p)
        PROVE  [TreeStep \/ StackStep]_vars
    <3> DEFINE at == DeviceSearchNode(name[p])
    <3>1. CASE UNCHANGED vars
      BY <3>1
    <3>2. ASSUME NEW n \in Nodes, TreeNodeInsertChild(at, n)
          PROVE  TreeStep
      <4>1. at \in Nodes
        BY <3>2 DEF TreeNodeInsertChild
      <4> HIDE DEF at
      <4> QED
        BY <3>2, <4>1 DEF TreeStep
    <3> HIDE DEF at
    <3>3. \/ UNCHANGED vars
          \/ \E n \in Nodes : TreeNodeInsertChild(at, n)
      BY <2>1 DEF Insert, at
    <3> QED
      BY <3>1, <3>2, <3>3
  <2>2. ASSUME NEW d, DeviceManagerRemove(d)
        PROVE  TreeStep
    <3> DEFINE n == DeviceSearchTreeNode(d)
    <3>1. TreeNodeRemove(n)
      BY <2>2 DEF DeviceManagerRemove
    <3>2. n \in Nodes
      BY <3>1 DEF TreeNodeRemove
    <3> HIDE DEF n
    <3> QED
      BY <3>1, <3>2 DEF TreeStep
  <2>3. CASE DeviceManagerStart
    BY <2>3 DEF DeviceManagerStart, TreeStep
  <2>4. CASE DeviceManagerInsertKernel
    BY <2>1, <2>4 DEF DeviceManagerInsertKernel
  <2>5. ASSUME NEW d \in Devs, NEW p \in Devs, DeviceManagerInsert(d, p)
        PROVE  [TreeStep \/ StackStep]_vars
    BY <2>1, <2>5 DEF DeviceManagerInsert
  <2>6. ASSUME NEW d \in Devs, DeviceStart(d) \/ DeviceStop(d)
        PROVE  UNCHANGED vars
    BY <2>6 DEF DeviceStart, DeviceStop
  <2>7. CASE UNCHANGED devAll
    BY <2>7 DEF devAll
  <2> QED
    BY <2>2, <2>3, <2>4, <2>5, <2>6, <2>7 DEF DevNext
<1> QED
  BY <1>1, <1>2, PTL DEF DevSpec, Spec

LEMMA ListInvariant == Spec => []ListInv
<1>1. Init => ListInv
  BY InitLists
<1>2. ListInv /\ [TreeStep \/ StackStep]_vars => ListInv'
  BY StepMoves
<1> QED
  BY <1>1, <1>2, PTL DEF Spec

\* Whatever list_append, list_append_after, list_delete and the operations
\* built on them are called for, every list reads the same from its head and
\* from its tail, counts its nodes, and shares none with another list: for
\* every number of nodes and lists.
THEOREM ListsStayLinked == DevSpec => []WellLinked
<1>1. ListInv => WellLinked
  <2> SUFFICES ASSUME ListInv PROVE WellLinked
    OBVIOUS
  <2>1. /\ Holds(list, Contents) /\ Contents \in [Lists -> Seq(Items)]
        /\ Apart(Contents)
    BY DEF ListInv, Holds
  <2>2. ASSUME NEW l \in Lists
        PROVE  /\ Backward(list, l) = Reverse(Forward(list, l))
               /\ list.length[l] = Len(Forward(list, l))
               /\ IsInjective(Forward(list, l))
    <3>1. /\ Forward(list, l) = Contents[l]
          /\ Backward(list, l) = Reverse(Contents[l]) /\ IsInjective(Contents[l])
      BY <2>1, HeldIsSeen
    <3>2. list.length[l] = Len(Contents[l])
      BY <2>1 DEF Holds, Ends
    <3> QED
      BY <3>1, <3>2
  <2>3. ASSUME NEW k \in Lists, NEW l \in Lists, k # l
        PROVE  Range(Forward(list, k)) \cap Range(Forward(list, l)) = {}
    <3>1. Range(Contents[k]) \cap Range(Contents[l]) = {}
      <4>1. Contents[k] \in Seq(Items) /\ Contents[l] \in Seq(Items)
        BY <2>1
      <4>2. \A i \in 1 .. Len(Contents[k]), j \in 1 .. Len(Contents[l]) :
               Contents[k][i] # Contents[l][j]
        BY <2>1, <2>3 DEF Apart
      <4> QED
        BY <4>1, <4>2 DEF Range
    <3> QED
      BY <3>1 DEF Contents
  <2> QED
    BY <2>2, <2>3 DEF WellLinked
<1> QED
  BY <1>1, ManagerUsesTree, ListInvariant, PTL

LEMMA SeqsEqual ==
    ASSUME NEW S, NEW a \in Seq(S), NEW b \in Seq(S), Len(a) = Len(b),
           \A i \in 1 .. Len(a) : a[i] = b[i]
    PROVE  a = b
OBVIOUS

LEMMA ConcatParts ==
    ASSUME NEW S, NEW u \in Seq(S), NEW v \in Seq(S)
    PROVE  /\ u \o v \in Seq(S) /\ Len(u \o v) = Len(u) + Len(v)
           /\ \A i \in 1 .. Len(u) + Len(v) :
                 (u \o v)[i] = IF i <= Len(u) THEN u[i] ELSE v[i - Len(u)]
OBVIOUS

LEMMA WithRemoved ==
    ASSUME NEW q \in Seq(Items), NEW k \in 1 .. Len(q) + 1, NEW x \in Items
    PROVE  /\ k \in 1 .. Len(With(q, k, x)) /\ With(q, k, x)[k] = x
           /\ RemoveAt(With(q, k, x), k) = q
<1> DEFINE p == With(q, k, x)
<1>1. /\ p \in Seq(Items) /\ Len(p) = Len(q) + 1 /\ Len(q) \in Nat
      /\ \A i \in 1 .. Len(q) + 1 :
            p[i] = IF i < k THEN q[i] ELSE IF i = k THEN x ELSE q[i - 1]
  BY DEF With
<1> HIDE DEF p
<1>2. k \in 1 .. Len(p) /\ p[k] = x
  BY <1>1
<1>3. RemoveAt(p, k) = q
  <2> DEFINE u == SubSeq(p, 1, k - 1)
             v == SubSeq(p, k + 1, Len(p))
  <2>1. /\ u \in Seq(Items) /\ Len(u) = k - 1
        /\ \A i \in 1 .. k - 1 : u[i] = q[i]
    BY <1>1
  <2>2. /\ v \in Seq(Items) /\ Len(v) = Len(q) - (k - 1)
        /\ \A i \in 1 .. Len(q) - (k - 1) : v[i] = p[k + i]
    BY <1>1
  <2>3. \A i \in 1 .. Len(q) - (k - 1) : p[k + i] = q[(k - 1) + i]
    <3> TAKE i \in 1 .. Len(q) - (k - 1)
    <3>1. k + i \in 1 .. Len(q) + 1 /\ k + i > k /\ (k + i) - 1 = (k - 1) + i
      BY <1>1
    <3> QED
      BY <1>1, <3>1
  <2>4. RemoveAt(p, k) = u \o v
    BY DEF RemoveAt
  <2> HIDE DEF u, v
  <2>5. /\ u \o v \in Seq(Items) /\ Len(u \o v) = Len(q)
        /\ \A i \in 1 .. Len(q) : (u \o v)[i] = IF i <= k - 1 THEN u[i] ELSE v[i - (k - 1)]
    BY <1>1, <2>1, <2>2, ConcatParts
  <2>6. ASSUME NEW i \in 1 .. Len(q)
        PROVE  (u \o v)[i] = q[i]
    <3>1. CASE i <= k - 1
      BY <1>1, <2>1, <2>5, <3>1
    <3>2. CASE ~(i <= k - 1)
      <4> DEFINE h == i - (k - 1)
      <4>1. h \in 1 .. Len(q) - (k - 1) /\ (k - 1) + h = i
        BY <1>1, <3>2
      <4>2. v[h] = q[(k - 1) + h]
        BY <2>2, <2>3, <4>1
      <4> HIDE DEF h
      <4> QED
        BY <2>5, <3>2, <4>1, <4>2 DEF h
    <3> QED
      BY <3>1, <3>2
  <2> DEFINE w == u \o v
  <2> HIDE DEF w
  <2>7. w \in Seq(Items) /\ Len(w) = Len(q) /\ \A i \in 1 .. Len(w) : w[i] = q[i]
    BY <2>5, <2>6 DEF w
  <2>8. w = q
    BY <2>7, SeqsEqual
  <2> QED
    BY <2>4, <2>8 DEF w
<1> QED
  BY <1>2, <1>3 DEF p

LEMMA WithoutIsRemoved ==
    ASSUME NEW q \in Seq(Items), NEW k \in 1 .. Len(q)
    PROVE  Without(q, k) = RemoveAt(q, k)
<1> DEFINE u == SubSeq(q, 1, k - 1)
           v == SubSeq(q, k + 1, Len(q))
           p == Without(q, k)
<1>1. Len(q) \in Nat /\ RemoveAt(q, k) = u \o v
  BY DEF RemoveAt
<1>2. /\ u \in Seq(Items) /\ Len(u) = k - 1 /\ \A i \in 1 .. k - 1 : u[i] = q[i]
  BY <1>1
<1>3. /\ v \in Seq(Items) /\ Len(v) = Len(q) - k
      /\ \A i \in 1 .. Len(q) - k : v[i] = q[k + i]
  <2>1. k + 1 \in Nat /\ Len(q) - k \in Nat /\ Len(v) = Len(q) - k
    BY <1>1
  <2>2. \A i \in 1 .. Len(q) - k : v[i] = q[k + i]
    BY <1>1, <2>1
  <2>3. v \in Seq(Items)
    BY <1>1
  <2> QED
    BY <2>1, <2>2, <2>3
<1>4. /\ p \in Seq(Items) /\ Len(p) = Len(q) - 1
      /\ \A i \in 1 .. Len(q) - 1 : p[i] = IF i < k THEN q[i] ELSE q[i + 1]
  BY <1>1 DEF Without
<1> HIDE DEF u, v, p
<1>5. /\ u \o v \in Seq(Items) /\ Len(u \o v) = Len(q) - 1
      /\ \A i \in 1 .. Len(q) - 1 :
            (u \o v)[i] = IF i <= k - 1 THEN u[i] ELSE v[i - (k - 1)]
  <2>1. Len(u) + Len(v) = Len(q) - 1
    BY <1>1, <1>2, <1>3
  <2>2. /\ u \o v \in Seq(Items) /\ Len(u \o v) = Len(u) + Len(v)
        /\ \A i \in 1 .. Len(u) + Len(v) :
              (u \o v)[i] = IF i <= Len(u) THEN u[i] ELSE v[i - Len(u)]
    BY <1>2, <1>3, ConcatParts
  <2> QED
    BY <1>2, <2>1, <2>2
<1>6. ASSUME NEW i \in 1 .. Len(q) - 1
      PROVE  (u \o v)[i] = p[i]
  <2>1. CASE i <= k - 1
    BY <1>1, <1>2, <1>4, <1>5, <2>1
  <2>2. CASE ~(i <= k - 1)
    <3> DEFINE h == i - (k - 1)
    <3>1. h \in 1 .. Len(q) - k /\ k + h = i + 1 /\ ~(i < k)
      BY <1>1, <2>2
    <3>2. v[h] = q[k + h]
      BY <1>3, <3>1
    <3> HIDE DEF h
    <3> QED
      BY <1>4, <1>5, <2>2, <3>1, <3>2 DEF h
  <2> QED
    BY <2>1, <2>2
<1> DEFINE w == u \o v
<1> HIDE DEF w
<1>7. w \in Seq(Items) /\ Len(w) = Len(p) /\ \A i \in 1 .. Len(w) : w[i] = p[i]
  BY <1>4, <1>5, <1>6 DEF w
<1>8. w = p
  BY <1>4, <1>7, SeqsEqual
<1> QED
  BY <1>1, <1>8 DEF p, w

\* The pointer operations of list.c, with whatever the tree and the path
\* canonicalizer make of them, are operations on sequences: every step puts a
\* node that is in no list at one place of one list, takes one out, empties a
\* list, or changes none.
THEOREM ListsAreSequences == DevSpec => ImplementsSequences
<1>1. Init => Abstract!Init
  <2> SUFFICES ASSUME Init PROVE Abstract!Init
    OBVIOUS
  <2> QED
    BY InitLists DEF Abstract!Init, Contents
<1>2. ListInv /\ [TreeStep \/ StackStep]_vars => [Abstract!Next]_Contents
  <2> SUFFICES ASSUME ListInv, [TreeStep \/ StackStep]_vars
               PROVE  [Abstract!Next]_Contents
    OBVIOUS
  <2>1. Moved /\ Contents \in [Lists -> Seq(Items)]
    BY StepMoves DEF ListInv, Holds
  <2>2. ASSUME NEW l \in Lists, NEW k \in Nat, NEW x \in Items, PutStep(l, k, x)
        PROVE  Abstract!Put(l)
    <3> DEFINE q == Contents[l]
               p == With(q, k, x)
    <3>1. /\ q \in Seq(Items) /\ k \in 1 .. Len(q) + 1 /\ ~Held(Contents, x)
          /\ Contents' = [Contents EXCEPT ![l] = p]
      BY <2>1, <2>2 DEF PutStep
    <3>2. k \in 1 .. Len(p) /\ p[k] = x /\ RemoveAt(p, k) = q
      BY <3>1, WithRemoved
    <3> HIDE DEF p
    <3>3. Contents'[l] = p /\ \A m \in Lists \ {l} : Contents'[m] = Contents[m]
      BY <2>1, <3>1
    <3>4. x \notin UNION {Range(Contents[m]) : m \in Lists}
      <4>1. ASSUME NEW m \in Lists PROVE x \notin Range(Contents[m])
        <5>1. Contents[m] \in Seq(Items)
          BY <2>1
        <5> QED
          BY <3>1, <5>1 DEF Held, Range
      <4> QED
        BY <4>1
    <3>5. Abstract!OnlyIn(l)
      BY <3>3 DEF Abstract!OnlyIn, Contents
    <3>6. /\ k \in 1 .. Len(Contents'[l])
          /\ RemoveAt(Contents'[l], k) = Contents[l]
          /\ Contents'[l][k] \in Items \ UNION {Range(Contents[m]) : m \in Lists}
      BY <3>2, <3>3, <3>4
    <3>7. Abstract!Used = UNION {Range(Contents[m]) : m \in Lists}
      BY DEF Abstract!Used, Abstract!Range, Range, Contents
    <3>8. Contents'[l][k] \in Items \ Abstract!Used
      BY <3>6, <3>7
    <3>9. \E j \in 1 .. Len(Contents'[l]) :
             /\ RemoveAt(Contents'[l], j) = Contents[l]
             /\ Contents'[l][j] \in Items \ Abstract!Used
      BY <3>6, <3>8
    <3> QED
      BY <3>5, <3>9 DEF Abstract!Put, Contents, Abstract!RemoveAt, RemoveAt
  <2>3. ASSUME NEW l \in Lists, NEW k \in Nat, TakeStep(l, k)
        PROVE  Abstract!Take(l)
    <3> DEFINE q == Contents[l]
    <3>1. /\ q \in Seq(Items) /\ k \in 1 .. Len(q)
          /\ Contents' = [Contents EXCEPT ![l] = Without(q, k)]
      BY <2>1, <2>3 DEF TakeStep
    <3>2. Without(q, k) = RemoveAt(q, k)
      BY <3>1, WithoutIsRemoved
    <3>3. /\ Contents'[l] = RemoveAt(Contents[l], k)
          /\ \A m \in Lists \ {l} : Contents'[m] = Contents[m]
      BY <2>1, <3>1, <3>2
    <3>4. Abstract!OnlyIn(l)
      BY <3>3 DEF Abstract!OnlyIn, Contents
    <3>5. \E j \in 1 .. Len(Contents[l]) : Contents'[l] = RemoveAt(Contents[l], j)
      BY <3>1, <3>3
    <3> QED
      BY <3>4, <3>5 DEF Abstract!Take, Contents, Abstract!RemoveAt, RemoveAt
  <2>4. ASSUME NEW l \in Lists, EmptyStep(l)
        PROVE  Abstract!Empty(l)
    <3>1. /\ Contents'[l] = <<>>
          /\ \A m \in Lists \ {l} : Contents'[m] = Contents[m]
      BY <2>1, <2>4 DEF EmptyStep
    <3> QED
      BY <3>1 DEF Abstract!Empty, Abstract!OnlyIn, Contents
  <2>5. CASE \E l \in Lists : \/ \E k \in Nat, x \in Items : PutStep(l, k, x)
                              \/ \E k \in Nat : TakeStep(l, k)
                              \/ EmptyStep(l)
    BY <2>2, <2>3, <2>4, <2>5 DEF Abstract!Next
  <2> QED
    BY <2>1, <2>5 DEF Moved
<1>3. [Abstract!Next]_Contents => [Abstract!Next]_([l \in Lists |-> Forward(list, l)])
  BY DEF Contents
<1>4. Spec => ImplementsSequences
  BY <1>1, <1>2, <1>3, ListInvariant, PTL DEF Spec, ImplementsSequences, Abstract!Spec
<1> QED
  BY <1>4, ManagerUsesTree

-----------------------------------------------------------------------------
(* Iterates and sums.                                                      *)

\* A set that only grows, inside a finite one, stops growing in as many steps
\* as that has elements.
LEMMA GrowthEnds ==
    ASSUME NEW D, IsFiniteSet(D), NEW F \in [SUBSET D -> SUBSET D],
           \A S \in SUBSET D : S \subseteq F[S],
           NEW a \in SUBSET D, a # {},
           NEW f, f \in [0 .. Cardinality(D) -> SUBSET D],
           Iterated(f, F, a, Cardinality(D))
    PROVE  F[f[Cardinality(D)]] = f[Cardinality(D)]
<1> DEFINE N == Cardinality(D)
<1>1. N \in Nat
  BY FS_CardinalityType
<1>2. \A S \in SUBSET D : IsFiniteSet(S) /\ Cardinality(S) \in Nat /\ Cardinality(S) <= N
  BY FS_Subset, FS_CardinalityType
<1>3. f[0] = a /\ \A k \in 1 .. N : f[k] = F[f[k - 1]] /\ f[k - 1] \in SUBSET D
  BY <1>1 DEF Iterated
<1> HIDE DEF N
<1> DEFINE Ends0(k) == F[f[k]] = f[k]
           Bad == {k \in 0 .. N : ~(Ends0(k) \/ Cardinality(f[k]) >= k + 1)}
<1>4. CASE Bad # {}
  <2>1. Bad \in SUBSET Nat
    BY <1>1
  <2> HIDE DEF Bad
  <2>2. PICK k \in Bad : \A j \in Bad : k <= j
    BY <1>4, <2>1, Least
  <2>3. k \in 0 .. N /\ ~Ends0(k) /\ ~(Cardinality(f[k]) >= k + 1)
    BY <2>2 DEF Bad
  <2>4. k # 0
    <3>1. Cardinality(a) # 0
      BY <1>2, FS_EmptySet
    <3> QED
      BY <1>2, <1>3, <2>3, <3>1
  <2>5. k - 1 \in 0 .. N /\ k - 1 \notin Bad /\ k \in 1 .. N
    BY <1>1, <2>2, <2>3, <2>4
  <2>6. Ends0(k - 1) \/ Cardinality(f[k - 1]) >= (k - 1) + 1
    BY <2>5 DEF Bad
  <2>7. f[k] = F[f[k - 1]] /\ f[k - 1] \in SUBSET D /\ f[k] \in SUBSET D
    BY <1>3, <2>5
  <2>8. CASE Ends0(k - 1)
    BY <2>3, <2>7, <2>8
  <2>9. CASE ~Ends0(k - 1) /\ Cardinality(f[k - 1]) >= (k - 1) + 1
    <3>1. f[k - 1] \subseteq f[k] /\ f[k - 1] # f[k]
      BY <2>7, <2>9
    <3>2. Cardinality(f[k - 1]) < Cardinality(f[k])
      BY <1>2, <2>7, <3>1, FS_Subset
    <3> QED
      BY <1>2, <2>3, <2>7, <2>9, <3>2
  <2> QED
    BY <2>6, <2>8, <2>9
<1>5. CASE Bad = {}
  <2>1. N \in 0 .. N /\ f[N] \in SUBSET D
    BY <1>1 DEF N
  <2>2. Ends0(N) \/ Cardinality(f[N]) >= N + 1
    BY <1>5, <2>1
  <2>3. Cardinality(f[N]) <= N /\ Cardinality(f[N]) \in Nat
    BY <1>2, <2>1
  <2> QED
    BY <1>1, <2>2, <2>3 DEF N
<1> QED
  BY <1>4, <1>5

\* The sum of the lengths of a branch is what adds up node by node.
LEMMA SumIs ==
    ASSUME NEW m, NEW n, IsFiniteSet(Branch(m, n)),
           NEW g \in [SUBSET Branch(m, n) -> Nat], g[{}] = 0,
           \A T \in SUBSET Branch(m, n) : \A x \in T : g[T] = m.length[x] + g[T \ {x}]
    PROVE  CountChildren(m, n) = g[Branch(m, n)]
<1> DEFINE S == Branch(m, n)
           Pick(s) == CHOOSE x \in s : TRUE
           Eq(f) == f = [s \in SUBSET S |->
                           IF s = {} THEN 0
                           ELSE LET x == Pick(s) IN m.length[x] + f[s \ {x}]]
           iter == CHOOSE f : Eq(f)
<1>1. Eq(g)
  <2>1. ASSUME NEW s \in SUBSET S, s # {}
        PROVE  g[s] = m.length[Pick(s)] + g[s \ {Pick(s)}]
    BY <2>1
  <2> HIDE DEF Pick
  <2> QED
    BY <2>1
<1>2. Eq(iter)
  <2> HIDE DEF Eq
  <2> QED
    BY <1>1
<1>3. CountChildren(m, n) = iter[S]
  BY DEF CountChildren, MapThenSumSet, MapThenFoldSet, iter, Pick
<1> HIDE DEF iter
<1>4. \A s \in SUBSET S : iter[s] = IF s = {} THEN 0 ELSE m.length[Pick(s)] + iter[s \ {Pick(s)}]
  <2> HIDE DEF Pick
  <2> QED
    BY <1>2
<1> DEFINE Size(s) == Cardinality(s)
           Bad == {k \in Nat : \E s \in SUBSET S : Size(s) = k /\ iter[s] # g[s]}
<1>5. CASE Bad # {}
  <2>1. PICK k \in Bad : \A j \in Bad : k <= j
    BY <1>5, Least
  <2>2. PICK s \in SUBSET S : Cardinality(s) = k /\ iter[s] # g[s]
    BY <2>1
  <2>3. s # {}
    BY <1>4, <2>2
  <2> DEFINE x == Pick(s)
  <2>4. x \in s
    BY <2>3
  <2>5. iter[s] = m.length[x] + iter[s \ {x}]
    BY <1>4, <2>3
  <2> HIDE DEF x
  <2>6. IsFiniteSet(s) /\ k \in Nat
    BY <2>1, FS_Subset
  <2>7. Cardinality(s \ {x}) = k - 1 /\ Cardinality(s \ {x}) \in Nat
    BY <2>2, <2>4, <2>6, FS_RemoveElement, FS_CardinalityType, FS_Subset
  <2>8. k - 1 \notin Bad
    BY <2>1, <2>6
  <2>9. iter[s \ {x}] = g[s \ {x}]
    BY <2>7, <2>8
  <2> QED
    BY <2>2, <2>4, <2>5, <2>9
<1>6. CASE Bad = {}
  <2>1. Cardinality(S) \in Nat
    BY FS_CardinalityType
  <2> QED
    BY <1>3, <1>6, <2>1
<1> QED
  BY <1>5, <1>6

LEMMA InRange ==
    ASSUME NEW T, NEW q \in Seq(T)
    PROVE  \A y : y \in Range(q) <=> \E h \in 1 .. Len(q) : y = q[h]
BY DEF Range

\* FlattenSeq holds what its sequences hold.
LEMMA FlattenHolds ==
    ASSUME NEW T, NEW ss \in Seq(Seq(T))
    PROVE  /\ FlattenSeq(ss) \in Seq(T)
           /\ Range(FlattenSeq(ss)) = UNION {Range(ss[i]) : i \in 1 .. Len(ss)}
<1> DEFINE N == Len(ss)
           D == Seq(T)
           Eq(f) == f = [i \in 1 .. N |-> IF i = 1 THEN ss[i] ELSE f[i - 1] \o ss[i]]
           flatten == CHOOSE f : Eq(f)
<1>0. N \in Nat /\ \A i \in 1 .. N : ss[i] \in D
  OBVIOUS
<1>1. CASE N = 0
  <2>1. ss = <<>>
    BY <1>1
  <2>2. FlattenSeq(ss) = <<>>
    BY <1>1, <2>1 DEF FlattenSeq
  <2> QED
    BY <1>1, <2>2 DEF Range
<1>2. CASE N # 0
  <2> DEFINE Is(f, n) == \A i \in 1 .. n : f[i] = IF i = 1 THEN ss[i] ELSE f[i - 1] \o ss[i]
             Bad == {n \in 0 .. N : ~\E f \in [1 .. n -> D] : Is(f, n)}
  <2>1. \E f \in [1 .. N -> D] : Is(f, N)
    <3>1. CASE Bad # {}
      <4>1. Bad \in SUBSET Nat
        BY <1>0
      <4>2. PICK n \in Bad : \A k \in Bad : n <= k
        BY <3>1, <4>1, Least
      <4>3. n # 0
        <5>1. [i \in 1 .. 0 |-> ss[1]] \in [1 .. 0 -> D] /\ Is([i \in 1 .. 0 |-> ss[1]], 0)
          OBVIOUS
        <5> HIDE DEF Is
        <5> QED
          BY <4>2, <5>1
      <4>4. n \in 1 .. N /\ n - 1 \in 0 .. N /\ n - 1 \notin Bad
        <5>1. n \in 0 .. N
          BY <4>2
        <5> HIDE DEF Bad
        <5> QED
          BY <1>0, <4>2, <4>3, <5>1
      <4>5. PICK f \in [1 .. n - 1 -> D] : Is(f, n - 1)
        BY <4>4
      <4> DEFINE last == IF n = 1 THEN ss[n] ELSE f[n - 1] \o ss[n]
                 g == [i \in 1 .. n |-> IF i = n THEN last ELSE f[i]]
      <4>6. last \in D
        <5>1. CASE n = 1
          BY <1>0, <4>4, <5>1
        <5>2. CASE n # 1
          <6>1. n - 1 \in 1 .. n - 1
            BY <4>4, <5>2
          <6>2. f[n - 1] \in D /\ ss[n] \in D
            BY <1>0, <4>4, <6>1
          <6> HIDE DEF N
          <6> QED
            BY <5>2, <6>2
        <5> QED
          BY <5>1, <5>2
      <4>7. g \in [1 .. n -> D]
        <5> HIDE DEF last, D
        <5> QED
          BY <4>4, <4>6
      <4>8. Is(g, n)
        <5> SUFFICES ASSUME NEW i \in 1 .. n
                     PROVE  g[i] = IF i = 1 THEN ss[i] ELSE g[i - 1] \o ss[i]
          OBVIOUS
        <5>1. CASE i = n
          <6>1. n # 1 => n - 1 \in 1 .. n /\ n - 1 # n
            BY <4>4
          <6> QED
            BY <4>4, <5>1, <6>1
        <5>2. CASE i # n
          <6>1. i \in 1 .. n - 1 /\ (i # 1 => i - 1 \in 1 .. n /\ i - 1 # n)
            BY <4>4, <5>2
          <6>2. f[i] = IF i = 1 THEN ss[i] ELSE f[i - 1] \o ss[i]
            BY <4>5, <6>1
          <6> HIDE DEF last
          <6> QED
            BY <5>2, <6>1, <6>2
        <5> QED
          BY <5>1, <5>2
      <4> HIDE DEF g, Is
      <4> QED
        BY <4>2, <4>7, <4>8
    <3>2. CASE Bad = {}
      <4>1. N \in 0 .. N
        BY <1>0
      <4> HIDE DEF Is, N
      <4> QED
        BY <3>2, <4>1
    <3> QED
      BY <3>1, <3>2
  <2>2. PICK f \in [1 .. N -> D] : Is(f, N)
    BY <2>1
  <2>3. Eq(f)
    <3> HIDE DEF N
    <3>1. f = [i \in 1 .. N |-> f[i]]
      OBVIOUS
    <3> QED
      BY <2>2, <3>1, Zenon
  <2>4. Eq(flatten)
    <3> HIDE DEF Eq
    <3> QED
      BY <2>3
  <2>5. FlattenSeq(ss) = flatten[N]
    BY <1>0, <1>2 DEF FlattenSeq, flatten
  <2> HIDE DEF flatten
  <2>6. \A i \in 1 .. N : flatten[i] = IF i = 1 THEN ss[i] ELSE flatten[i - 1] \o ss[i]
    <3> HIDE DEF N
    <3> QED
      BY <2>4, Zenon
  <2> DEFINE Upto(i) == UNION {Range(ss[j]) : j \in 1 .. i}
             Good(i) == flatten[i] \in D /\ Range(flatten[i]) = Upto(i)
             Worse == {i \in 1 .. N : ~Good(i)}
  <2>7. CASE Worse # {}
    <3>1. Worse \in SUBSET Nat
      BY <1>0
    <3>2. PICK i \in Worse : \A k \in Worse : i <= k
      BY <2>7, <3>1, Least
    <3>3. i \in 1 .. N /\ ~Good(i)
      BY <3>2
    <3>4. i # 1
      <4>0. 1 \in 1 .. N
        BY <1>0, <1>2
      <4>1. flatten[1] = ss[1] /\ ss[1] \in D
        BY <1>0, <2>6, <4>0
      <4>2. Upto(1) = Range(ss[1])
        OBVIOUS
      <4>3. Good(1)
        BY <4>1, <4>2
      <4> QED
        BY <3>3, <4>3
    <3>5. i - 1 \in 1 .. N /\ Good(i - 1)
      <4>1. i - 1 \in 1 .. N /\ ~(i <= i - 1)
        BY <1>0, <3>3, <3>4
      <4> HIDE DEF Good
      <4> QED
        BY <3>2, <4>1
    <3>6. flatten[i] = flatten[i - 1] \o ss[i] /\ ss[i] \in D
      BY <1>0, <2>6, <3>3, <3>4
    <3>7. Upto(i) = Upto(i - 1) \cup Range(ss[i])
      <4>1. 1 .. i = (1 .. i - 1) \cup {i}
        BY <3>3
      <4> QED
        BY <4>1
    <3> DEFINE a == flatten[i - 1]
               b == ss[i]
    <3>8. a \in Seq(T) /\ b \in Seq(T) /\ Range(a) = Upto(i - 1)
      BY <3>5, <3>6
    <3> HIDE DEF a, b
    <3>9. a \o b \in Seq(T) /\ Range(a \o b) = Range(a) \cup Range(b)
      <4>1. /\ a \o b \in Seq(T) /\ Len(a \o b) = Len(a) + Len(b)
            /\ Len(a) \in Nat /\ Len(b) \in Nat
            /\ \A j \in 1 .. Len(a) + Len(b) :
                  (a \o b)[j] = IF j <= Len(a) THEN a[j] ELSE b[j - Len(a)]
        BY <3>8
      <4> DEFINE c == a \o b
      <4>2. c \in Seq(T) /\ a \in Seq(T) /\ b \in Seq(T)
        BY <3>8, <4>1
      <4> HIDE DEF c
      <4>0. /\ \A x : x \in Range(a) <=> \E h \in 1 .. Len(a) : x = a[h]
            /\ \A x : x \in Range(b) <=> \E h \in 1 .. Len(b) : x = b[h]
            /\ \A x : x \in Range(c) <=> \E h \in 1 .. Len(c) : x = c[h]
        BY <4>2, InRange
      <4>3. ASSUME NEW x \in Range(a) PROVE x \in Range(c)
        <5>1. PICK j \in 1 .. Len(a) : x = a[j]
          BY <4>0, Zenon
        <5>2. j \in 1 .. Len(c) /\ c[j] = a[j]
          BY <4>1 DEF c
        <5> QED
          BY <4>0, <5>1, <5>2
      <4>4. ASSUME NEW x \in Range(b) PROVE x \in Range(c)
        <5>1. PICK j \in 1 .. Len(b) : x = b[j]
          BY <4>0, Zenon
        <5> DEFINE h == j + Len(a)
        <5>2. h \in 1 .. Len(c) /\ ~(h <= Len(a)) /\ h - Len(a) = j
          BY <4>1 DEF c
        <5> HIDE DEF h
        <5>3. c[h] = b[j]
          BY <4>1, <5>2 DEF c
        <5> QED
          BY <4>0, <5>1, <5>2, <5>3
      <4>5. ASSUME NEW x \in Range(c) PROVE x \in Range(a) \cup Range(b)
        <5>1. PICK j \in 1 .. Len(c) : x = c[j]
          BY <4>0, Zenon
        <5>2. CASE j <= Len(a)
          <6>1. j \in 1 .. Len(a) /\ c[j] = a[j]
            BY <4>1, <5>2 DEF c
          <6> QED
            BY <4>0, <5>1, <6>1
        <5>3. CASE ~(j <= Len(a))
          <6>1. j - Len(a) \in 1 .. Len(b) /\ c[j] = b[j - Len(a)]
            BY <4>1, <5>3 DEF c
          <6> QED
            BY <4>0, <5>1, <6>1
        <5> QED
          BY <5>2, <5>3
      <4> QED
        BY <4>1, <4>3, <4>4, <4>5 DEF c
    <3>10. Good(i)
      BY <3>6, <3>7, <3>8, <3>9 DEF a, b
    <3> QED
      BY <3>3, <3>10
  <2>8. CASE Worse = {}
    <3>1. N \in 1 .. N
      BY <1>0, <1>2
    <3>2. Good(N)
      BY <2>8, <3>1
    <3> QED
      BY <2>5, <3>2
  <2> QED
    BY <2>7, <2>8
<1> QED
  BY <1>1, <1>2

-----------------------------------------------------------------------------
(* The shape of the tree.                                                  *)

Alive == allocated \cap Nodes

\* Every node but the root hangs below its parent, by a path of nodes that were
\* allocated.
Shape(depth) ==
    /\ depth \in [Nodes -> Nat]
    /\ Root \in Alive /\ parent[Root] = Null
    /\ \A n \in Alive \ {Root} :
          parent[n] \in Alive /\ depth[n] = depth[parent[n]] + 1
    /\ \A n \in Alive : depth[n] < Cardinality(Nodes \ fresh)

KidsOK == \A p \in Alive : Range(Contents[p]) = {n \in Alive : parent[n] = p}

\* A node that is not allocated yet has no child and no parent.
FreshOK ==
    /\ Alive \cap fresh = {}
    /\ \A n \in fresh : Contents[n] = <<>> /\ parent[n] = Null

TreeInv ==
    /\ root \in {Null, Root} /\ FreshOK /\ KidsOK
    /\ IF root = Null THEN Alive = {} ELSE \E depth : Shape(depth)
    /\ nodes = Cardinality(Alive)

\* What foreach sees of a node's children.
LEMMA KidsAre ==
    ASSUME ListInv
    PROVE  \A p \in Nodes : /\ Forward(list, p) = Contents[p]
                            /\ Contents[p] \in Seq(Nodes)
                            /\ Range(Contents[p]) \subseteq Nodes
                            /\ list.length[p] = Len(Contents[p])
                            /\ IsInjective(Contents[p])
<1> SUFFICES ASSUME NEW p \in Nodes
             PROVE  /\ Forward(list, p) = Contents[p]
                    /\ Contents[p] \in Seq(Nodes)
                    /\ Range(Contents[p]) \subseteq Nodes
                    /\ list.length[p] = Len(Contents[p])
                    /\ IsInjective(Contents[p])
  OBVIOUS
<1>1. Holds(list, Contents) /\ OwnersOK /\ p \in Lists
  BY TreeFacts DEF ListInv
<1>2. Forward(list, p) = Contents[p] /\ Contents[p] \in Seq(Items) /\ IsInjective(Contents[p])
  BY <1>1, HeldIsSeen
<1>3. \A i \in 1 .. Len(Contents[p]) : Contents[p][i] \in Nodes
  BY <1>1 DEF OwnersOK
<1>4. Contents[p] \in Seq(Nodes)
  <2> DEFINE q == Contents[p]
  <2> HIDE DEF q
  <2> SUFFICES q \in Seq(Nodes)
    BY DEF q
  <2>1. q \in Seq(Items) /\ \A i \in 1 .. Len(q) : q[i] \in Nodes
    BY <1>2, <1>3 DEF q
  <2> QED
    BY <2>1
<1>5. list.length[p] = Len(Contents[p])
  BY <1>1 DEF Holds, Ends
<1>6. Range(Contents[p]) \subseteq Nodes
  BY <1>2, <1>3 DEF Range
<1> QED
  BY <1>2, <1>4, <1>5, <1>6

\* The branch of a node: it leads down from the node, and nowhere else.
BranchOK(B, n, depth) ==
    /\ n \in B /\ B \subseteq Alive
    /\ \A c \in Alive : parent[c] \in B => c \in B
    /\ \A x \in B : x # n => parent[x] \in B
    /\ \A x \in B : depth[x] >= depth[n]

LEMMA BranchIs ==
    ASSUME ListInv, KidsOK, NEW depth, Shape(depth), NEW n \in Alive
    PROVE  BranchOK(Branch(list, n), n, depth)
<1> DEFINE N == Cardinality(Nodes)
<1>1. N \in Nat /\ IsFiniteSet(Nodes) /\ n \in Nodes /\ Null \notin Nodes
  BY ListAssumption, TreeAssumption, FS_Subset, FS_CardinalityType DEF Alive
<1>2. \A x \in Nodes : Range(Forward(list, x)) \subseteq Nodes
  BY KidsAre
<1>3. PICK F \in [SUBSET Nodes -> SUBSET Nodes], f \in [0 .. N -> SUBSET Nodes] :
          /\ \A S \in SUBSET Nodes :
                F[S] = UNION {{x} \cup Range(Forward(list, x)) : x \in S}
          /\ Iterated(f, F, {n}, N)
          /\ Branch(list, n) = f[N]
  BY <1>1, <1>2, BranchSteps
<1>4. \A x \in Alive : Range(Forward(list, x)) = {c \in Alive : parent[c] = x}
  BY KidsAre DEF KidsOK, Alive
<1>5. \A S \in SUBSET Alive : F[S] = S \cup {c \in Alive : parent[c] \in S}
  <2> SUFFICES ASSUME NEW S \in SUBSET Alive
               PROVE  F[S] = S \cup {c \in Alive : parent[c] \in S}
    OBVIOUS
  <2>1. F[S] = UNION {{x} \cup Range(Forward(list, x)) : x \in S}
    BY <1>3 DEF Alive
  <2>2. \A x \in S : Range(Forward(list, x)) = {c \in Alive : parent[c] = x}
    BY <1>4
  <2> QED
    BY <2>1, <2>2
<1>6. f[0] = {n} /\ \A k \in 1 .. N : f[k] = F[f[k - 1]]
  BY <1>1, <1>3 DEF Iterated
<1> DEFINE Below0(S) == /\ n \in S /\ S \subseteq Alive
                        /\ \A x \in S : x # n => parent[x] \in S
                        /\ \A x \in S : depth[x] >= depth[n]
           Bad == {k \in 0 .. N : ~Below0(f[k])}
<1> HIDE DEF N
<1>7. Below0(f[0])
  <2>1. depth[n] \in Nat
    BY <1>1 DEF Shape
  <2> QED
    BY <1>6, <2>1
<1>8. ASSUME NEW S, Below0(S)
      PROVE  Below0(F[S])
  <2>1. S \in SUBSET Alive
    BY <1>8
  <2>2. F[S] = S \cup {c \in Alive : parent[c] \in S}
    BY <1>5, <2>1
  <2>3. ASSUME NEW c \in Alive, parent[c] \in S
        PROVE  depth[c] >= depth[n]
    <3>1. c # Root
      BY <1>1, <2>1, <2>3 DEF Shape, Alive
    <3>2. depth[c] = depth[parent[c]] + 1 /\ depth[parent[c]] >= depth[n]
      BY <1>8, <2>3, <3>1 DEF Shape
    <3>3. depth[c] \in Nat /\ depth[parent[c]] \in Nat /\ depth[n] \in Nat
      BY <1>1, <2>1, <2>3 DEF Shape, Alive
    <3> QED
      BY <3>2, <3>3
  <2> QED
    BY <1>8, <2>2, <2>3
<1>9. Bad = {}
  <2>1. CASE Bad # {}
    <3>1. Bad \in SUBSET Nat
      BY <1>1
    <3> HIDE DEF Below0
    <3>2. PICK k \in Bad : \A j \in Bad : k <= j
      BY <2>1, <3>1, Least
    <3>3. k \in 0 .. N /\ ~Below0(f[k])
      BY <3>2
    <3>4. k # 0
      BY <1>7, <3>3
    <3>5. k - 1 \in 0 .. N /\ k \in 1 .. N /\ ~(k <= k - 1)
      BY <1>1, <3>3, <3>4
    <3>6. Below0(f[k - 1])
      BY <3>2, <3>5
    <3>7. f[k] = F[f[k - 1]]
      BY <1>6, <3>5
    <3> QED
      BY <1>8, <3>3, <3>6, <3>7
  <2> QED
    BY <2>1
<1>10. N \in 0 .. N
  BY <1>1
<1>11. Below0(f[N])
  <2> HIDE DEF Below0
  <2> QED
    BY <1>9, <1>10
<1>12. F[f[N]] = f[N]
  <2>1. \A S \in SUBSET Nodes : S \subseteq F[S]
    <3> SUFFICES ASSUME NEW S \in SUBSET Nodes PROVE S \subseteq F[S]
      OBVIOUS
    <3>1. F[S] = UNION {{x} \cup Range(Forward(list, x)) : x \in S}
      BY <1>3
    <3> QED
      BY <3>1
  <2> DEFINE a == {n}
  <2>2. /\ a \in SUBSET Nodes /\ a # {} /\ Iterated(f, F, a, Cardinality(Nodes))
        /\ f \in [0 .. Cardinality(Nodes) -> SUBSET Nodes]
    BY <1>1, <1>3 DEF N
  <2> HIDE DEF a
  <2>3. F[f[Cardinality(Nodes)]] = f[Cardinality(Nodes)]
    BY <1>1, <2>1, <2>2, GrowthEnds
  <2> QED
    BY <2>3 DEF N
<1>13. \A c \in Alive : parent[c] \in f[N] => c \in f[N]
  <2>1. f[N] \in SUBSET Alive
    BY <1>11
  <2>2. f[N] = f[N] \cup {c \in Alive : parent[c] \in f[N]}
    BY <1>5, <1>12, <2>1
  <2> QED
    BY <2>2
<1> QED
  BY <1>3, <1>11, <1>13 DEF BranchOK

\* A set of nodes that holds the root, and the children of its nodes, holds all.
LEMMA DownFromRoot ==
    ASSUME NEW depth, Shape(depth), NEW S, Root \in S,
           \A c \in Alive : parent[c] \in S \cap Alive => c \in S
    PROVE  Alive \subseteq S
<1> DEFINE Missing == {depth[n] : n \in Alive \ S}
<1>1. CASE Missing # {}
  <2>1. Missing \in SUBSET Nat
    BY DEF Shape, Alive
  <2>2. PICK k \in Missing : \A j \in Missing : k <= j
    BY <1>1, <2>1, Least
  <2>3. PICK n \in Alive \ S : depth[n] = k
    BY <2>2
  <2>4. parent[n] \in Alive /\ depth[n] = depth[parent[n]] + 1
    BY <2>3 DEF Shape
  <2>5. parent[n] \notin S
    BY <2>3, <2>4
  <2>6. depth[parent[n]] \in Missing
    BY <2>4, <2>5
  <2>7. depth[parent[n]] \in Nat /\ k <= depth[parent[n]]
    BY <2>1, <2>2, <2>6
  <2> QED
    BY <2>3, <2>4, <2>7
<1> QED
  BY <1>1

\* The whole tree is the branch of its root.
LEMMA TreeIsAlive ==
    ASSUME ListInv, KidsOK, NEW depth, Shape(depth)
    PROVE  Branch(list, Root) = Alive
<1>1. Root \in Alive
  BY DEF Shape
<1>2. BranchOK(Branch(list, Root), Root, depth)
  BY <1>1, BranchIs
<1> DEFINE B == Branch(list, Root)
<1> HIDE DEF B
<1>3. /\ Root \in B /\ B \subseteq Alive
      /\ \A c \in Alive : parent[c] \in B => c \in B
  BY <1>2 DEF BranchOK, B
<1>4. Alive \subseteq B
  BY <1>3, DownFromRoot
<1> QED
  BY <1>3, <1>4 DEF B

\* A list without repetitions has as many members as its length says.
LEMMA LengthIs ==
    ASSUME NEW T, NEW q \in Seq(T), IsInjective(q)
    PROVE  IsFiniteSet(Range(q)) /\ Cardinality(Range(q)) = Len(q)
<1>1. Len(q) \in Nat /\ q \in [1 .. Len(q) -> T]
  OBVIOUS
<1>2. q \in Bijection(1 .. Len(q), Range(q))
  BY <1>1 DEF Bijection, Injection, Surjection, IsInjective, Range
<1>3. ExistsBijection(1 .. Len(q), Range(q))
  BY <1>2 DEF ExistsBijection
<1>4. IsFiniteSet(1 .. Len(q)) /\ Cardinality(1 .. Len(q)) = Len(q)
  BY <1>1, CardUpTo, FS_Interval
<1> QED
  BY <1>3, <1>4, FS_Bijection

\* tree_count_children counts what is below a node.
LEMMA CountIs ==
    ASSUME ListInv, KidsOK, NEW depth, Shape(depth), NEW n \in Alive
    PROVE  CountChildren(list, n) + 1 = Cardinality(Branch(list, n))
<1> DEFINE B == Branch(list, n)
           Kids(T) == {c \in Alive : parent[c] \in T}
           g == [T \in SUBSET B |-> Cardinality(Kids(T))]
<1>1. BranchOK(B, n, depth)
  BY BranchIs
<1> HIDE DEF B
<1>3. IsFiniteSet(Alive) /\ IsFiniteSet(B) /\ B \subseteq Alive
  <2>1. IsFiniteSet(Nodes) /\ Alive \in SUBSET Nodes
    BY ListAssumption, TreeAssumption, FS_Subset DEF Alive
  <2>2. IsFiniteSet(Alive)
    BY <2>1, FS_Subset
  <2> QED
    BY <1>1, <2>2, FS_Subset DEF BranchOK
<1>4. \A T : IsFiniteSet(Kids(T)) /\ Cardinality(Kids(T)) \in Nat
  BY <1>3, FS_Subset, FS_CardinalityType
<1>5. g \in [SUBSET B -> Nat] /\ g[{}] = 0
  <2>1. Kids({}) = {}
    OBVIOUS
  <2> QED
    BY <1>4, <2>1, FS_EmptySet
<1>6. \A x \in B : Cardinality(Kids({x})) = list.length[x]
  <2> SUFFICES ASSUME NEW x \in B PROVE Cardinality(Kids({x})) = list.length[x]
    OBVIOUS
  <2>1. x \in Alive /\ x \in Nodes
    BY <1>3 DEF Alive
  <2>2. Range(Contents[x]) = Kids({x})
    BY <2>1 DEF KidsOK
  <2>3. /\ Contents[x] \in Seq(Nodes) /\ IsInjective(Contents[x])
        /\ list.length[x] = Len(Contents[x])
    BY <2>1, KidsAre
  <2> QED
    BY <2>2, <2>3, LengthIs
<1>7. \A T \in SUBSET B : \A x \in T : g[T] = list.length[x] + g[T \ {x}]
  <2> SUFFICES ASSUME NEW T \in SUBSET B, NEW x \in T
               PROVE  g[T] = list.length[x] + g[T \ {x}]
    OBVIOUS
  <2>1. /\ Kids(T) = Kids({x}) \cup Kids(T \ {x})
        /\ Kids({x}) \cap Kids(T \ {x}) = {}
    OBVIOUS
  <2>2. /\ g[T] = Cardinality(Kids(T)) /\ g[T \ {x}] = Cardinality(Kids(T \ {x}))
        /\ list.length[x] = Cardinality(Kids({x}))
    BY <1>6
  <2> HIDE DEF Kids, g
  <2>3. Cardinality(Kids({x}) \cup Kids(T \ {x})) =
           Cardinality(Kids({x})) + Cardinality(Kids(T \ {x}))
              - Cardinality(Kids({x}) \cap Kids(T \ {x}))
    BY <1>4, FS_Union
  <2>4. Cardinality(Kids(T)) = Cardinality(Kids({x})) + Cardinality(Kids(T \ {x})) - 0
    BY <2>1, <2>3, FS_EmptySet
  <2> QED
    BY <1>4, <2>2, <2>4
<1>8. CountChildren(list, n) = g[B]
  <2> HIDE DEF g
  <2> QED
    BY <1>3, <1>5, <1>7, SumIs DEF B
<1>9. Kids(B) = B \ {n}
  <2>1. \A c \in Alive : parent[c] \in B => c \in B /\ c # n
    <3> SUFFICES ASSUME NEW c \in Alive, parent[c] \in B PROVE c \in B /\ c # n
      OBVIOUS
    <3>1. c # Root
      BY <1>3, ListAssumption, TreeFacts DEF Shape, Alive
    <3>2. depth[c] = depth[parent[c]] + 1 /\ depth[parent[c]] >= depth[n]
      BY <1>1, <3>1 DEF Shape, BranchOK
    <3>3. depth[c] \in Nat /\ depth[parent[c]] \in Nat /\ depth[n] \in Nat
      BY <1>3 DEF Shape, Alive
    <3> QED
      BY <1>1, <3>2, <3>3 DEF BranchOK
  <2>2. \A c \in B : c # n => c \in Alive /\ parent[c] \in B
    BY <1>1 DEF BranchOK
  <2> QED
    BY <2>1, <2>2
<1>10. g[B] = Cardinality(B) - 1 /\ Cardinality(B) \in Nat
  <2>1. n \in B
    BY <1>1 DEF BranchOK
  <2>2. g[B] = Cardinality(B \ {n})
    BY <1>9
  <2> QED
    BY <1>3, <2>1, <2>2, FS_RemoveElement, FS_CardinalityType
<1> QED
  BY <1>8, <1>10 DEF B

-----------------------------------------------------------------------------
(* The search.                                                             *)

\* One round of the recursion of Preorder: the node, then what the recursion
\* below finds for each of its children.
Visit(m, v) ==
    [x \in Nodes |->
        <<x>> \o FlattenSeq([i \in 1 .. Len(Forward(m, x)) |-> v[Forward(m, x)[i]]])]

\* What it holds.
Visited(m, v, x) == {x} \cup UNION {Range(v[c]) : c \in Range(Forward(m, x))}

LEMMA VisitHolds ==
    ASSUME NEW m, \A x \in Nodes : Forward(m, x) \in Seq(Nodes),
           NEW v \in [Nodes -> Seq(Nodes)]
    PROVE  /\ Visit(m, v) \in [Nodes -> Seq(Nodes)]
           /\ \A x \in Nodes : Range(Visit(m, v)[x]) = Visited(m, v, x)
<1> SUFFICES ASSUME NEW x \in Nodes
             PROVE  Visit(m, v)[x] \in Seq(Nodes) /\ Range(Visit(m, v)[x]) = Visited(m, v, x)
  BY DEF Visit
<1> DEFINE q == Forward(m, x)
           ss == [i \in 1 .. Len(q) |-> v[q[i]]]
           t == FlattenSeq(ss)
           r == <<x>> \o t
<1>1. q \in Seq(Nodes) /\ Len(q) \in Nat
  OBVIOUS
<1>2. Visit(m, v)[x] = r
  BY DEF Visit
<1> HIDE DEF q
<1>3. \A i \in 1 .. Len(q) : q[i] \in Nodes /\ v[q[i]] \in Seq(Nodes)
  BY <1>1
<1>4. ss \in Seq(Seq(Nodes)) /\ Len(ss) = Len(q)
  BY <1>1, <1>3
<1>5. /\ t \in Seq(Nodes)
      /\ Range(t) = UNION {Range(ss[i]) : i \in 1 .. Len(q)}
  <2> HIDE DEF ss
  <2>1. Range(t) = UNION {Range(ss[i]) : i \in 1 .. Len(ss)} /\ t \in Seq(Nodes)
    BY <1>4, FlattenHolds
  <2> QED
    BY <1>4, <2>1
<1>6. UNION {Range(ss[i]) : i \in 1 .. Len(q)} = UNION {Range(v[c]) : c \in Range(q)}
  <2>1. \A y : y \in Range(q) <=> \E h \in 1 .. Len(q) : y = q[h]
    BY <1>1, InRange
  <2>2. \A i \in 1 .. Len(q) : ss[i] = v[q[i]]
    OBVIOUS
  <2> HIDE DEF ss
  <2>3. ASSUME NEW c \in Range(q)
        PROVE  \E i \in 1 .. Len(q) : Range(ss[i]) = Range(v[c])
    <3>1. PICK h \in 1 .. Len(q) : c = q[h]
      BY <2>1, Zenon
    <3> QED
      BY <2>2, <3>1
  <2>4. ASSUME NEW i \in 1 .. Len(q)
        PROVE  \E c \in Range(q) : Range(ss[i]) = Range(v[c])
    <3>1. q[i] \in Range(q) /\ ss[i] = v[q[i]]
      BY <2>1, <2>2, Zenon
    <3> QED
      BY <3>1
  <2> DEFINE R(i) == Range(ss[i])
             W(c) == Range(v[c])
  <2>5. {R(i) : i \in 1 .. Len(q)} = {W(c) : c \in Range(q)}
    <3>1. /\ \A i \in 1 .. Len(q) : \E c \in Range(q) : R(i) = W(c)
          /\ \A c \in Range(q) : \E i \in 1 .. Len(q) : W(c) = R(i)
      BY <2>3, <2>4
    <3> HIDE DEF R, W
    <3> QED
      BY <3>1
  <2> QED
    BY <2>5
<1> HIDE DEF t
<1>7. r \in Seq(Nodes) /\ Range(r) = {x} \cup Range(t)
  <2>0. t \in Seq(Nodes) /\ x \in Nodes
    BY <1>5
  <2>1. /\ r \in Seq(Nodes) /\ Len(r) = Len(t) + 1 /\ Len(t) \in Nat /\ r[1] = x
        /\ \A i \in 1 .. Len(t) : r[i + 1] = t[i]
    BY <2>0
  <2> HIDE DEF r
  <2>2. /\ \A y : y \in Range(r) <=> \E h \in 1 .. Len(r) : y = r[h]
        /\ \A y : y \in Range(t) <=> \E h \in 1 .. Len(t) : y = t[h]
    BY <1>5, <2>1, InRange
  <2>3. ASSUME NEW y \in Range(r) PROVE y \in {x} \cup Range(t)
    <3>1. PICK h \in 1 .. Len(r) : y = r[h]
      BY <2>2, Zenon
    <3>2. CASE h = 1
      BY <2>1, <3>1, <3>2
    <3>3. CASE h # 1
      <4> DEFINE j == h - 1
      <4>1. j \in 1 .. Len(t) /\ h = j + 1
        BY <2>1, <3>3
      <4> HIDE DEF j
      <4> QED
        BY <2>1, <2>2, <3>1, <4>1
    <3> QED
      BY <3>2, <3>3
  <2>4. ASSUME NEW y \in Range(t) PROVE y \in Range(r)
    <3>1. PICK h \in 1 .. Len(t) : y = t[h]
      BY <2>2, Zenon
    <3>2. h + 1 \in 1 .. Len(r)
      <4>1. h \in Nat /\ h >= 1 /\ h <= Len(t) /\ Len(t) \in Nat /\ Len(r) = Len(t) + 1
        BY <2>1
      <4> QED
        BY <4>1
    <3>3. r[h + 1] = y
      BY <2>1, <3>1
    <3> QED
      BY <2>2, <3>2, <3>3, Zenon
  <2>5. x \in Range(r)
    <3>1. 1 \in 1 .. Len(r)
      BY <2>1
    <3> QED
      BY <2>1, <2>2, <3>1
  <2> QED
    BY <2>1, <2>3, <2>4, <2>5
<1> QED
  BY <1>2, <1>5, <1>6, <1>7 DEF Visited, q

\* Preorder is the last of the rounds.
LEMMA PreorderSteps ==
    ASSUME ListInv
    PROVE  \E visit \in [0 .. Cardinality(Nodes) -> [Nodes -> Seq(Nodes)]] :
              /\ visit[0] = [x \in Nodes |-> <<x>>]
              /\ \A k \in 1 .. Cardinality(Nodes) : visit[k] = Visit(list, visit[k - 1])
              /\ \A n \in Nodes : Preorder(n) = visit[Cardinality(Nodes)][n]
<1> DEFINE N == Cardinality(Nodes)
           D == [Nodes -> Seq(Nodes)]
           a == [x \in Nodes |-> <<x>>]
           F == [v \in D |-> Visit(list, v)]
           Step(k, below) ==
              [x \in Nodes |->
                  IF k = 0 THEN <<x>>
                  ELSE <<x>> \o FlattenSeq([i \in 1 .. Len(Forward(list, x)) |->
                                               below[Forward(list, x)[i]]])]
           Eq(f) == f = [k \in 0 .. N |-> Step(k, f[k - 1])]
           visit == CHOOSE f : Eq(f)
<1>1. N \in Nat
  BY ListAssumption, TreeAssumption, FS_Subset, FS_CardinalityType
<1>2. \A x \in Nodes : Forward(list, x) \in Seq(Nodes)
  BY KidsAre
<1>3. \A n \in Nodes : Preorder(n) = visit[N][n]
  BY DEF Preorder
<1>4. \A k, v : Step(k, v) = IF k = 0 THEN a ELSE Visit(list, v)
  BY DEF Visit
<1> HIDE DEF visit, Step
<1>5. \A v \in D : Visit(list, v) \in D
  BY <1>2, VisitHolds
<1>6. a \in D /\ F \in [D -> D]
  <2>1. a \in D
    OBVIOUS
  <2> HIDE DEF D
  <2> QED
    BY <1>5, <2>1
<1>7. PICK f \in [0 .. N -> D] : Iterated(f, F, a, N)
  <2> HIDE DEF D, F, a, N
  <2> QED
    BY <1>1, <1>6, Iterates
<1>8. Eq(f)
  <2>1. ASSUME NEW k \in 0 .. N
        PROVE  f[k] = Step(k, f[k - 1])
    <3>1. f[k] = IF k = 0 THEN a ELSE F[f[k - 1]]
      BY <1>7, Zenon DEF Iterated
    <3>2. k # 0 => k - 1 \in 0 .. N
      BY <1>1
    <3>3. k # 0 => f[k - 1] \in D
      <4> HIDE DEF D
      <4> QED
        BY <3>2
    <3>4. k # 0 => F[f[k - 1]] = Visit(list, f[k - 1])
      <4> HIDE DEF D
      <4> QED
        BY <3>3
    <3> HIDE DEF D, F, a
    <3> QED
      BY <1>4, <3>1, <3>4, Zenon
  <2>2. f = [k \in 0 .. N |-> f[k]]
    OBVIOUS
  <2> HIDE DEF N
  <2> QED
    BY <2>1, <2>2, Zenon
<1>9. Eq(visit)
  <2> HIDE DEF Eq
  <2> QED
    BY <1>8 DEF visit
<1>10. \A k \in 0 .. N : visit[k] = Step(k, visit[k - 1])
  <2> HIDE DEF N
  <2> QED
    BY <1>9, Zenon
<1>11. visit = [k \in 0 .. N |-> visit[k]]
  <2> HIDE DEF N
  <2> QED
    BY <1>9, <1>10, Zenon
<1>12. visit[0] = a /\ \A k \in 1 .. N : visit[k] = Visit(list, visit[k - 1])
  <2> HIDE DEF a
  <2>1. 0 \in 0 .. N /\ \A k \in 1 .. N : k \in 0 .. N /\ k # 0
    BY <1>1
  <2> QED
    BY <1>4, <1>10, <2>1, Zenon
<1>13. \A k \in 0 .. N : visit[k] \in D
  <2> DEFINE Bad == {k \in 0 .. N : visit[k] \notin D}
  <2> HIDE DEF D
  <2>1. CASE Bad # {}
    <3>1. Bad \in SUBSET Nat
      BY <1>1
    <3>2. PICK k \in Bad : \A j \in Bad : k <= j
      BY <2>1, <3>1, Least
    <3>3. k \in 0 .. N /\ visit[k] \notin D
      BY <3>2
    <3>4. k # 0
      BY <1>6, <1>12, <3>3
    <3>5. k - 1 \in 0 .. N /\ k \in 1 .. N /\ ~(k <= k - 1)
      BY <1>1, <3>3, <3>4
    <3>6. visit[k - 1] \in D
      BY <3>2, <3>5
    <3> QED
      BY <1>5, <1>12, <3>3, <3>5, <3>6
  <2> QED
    BY <2>1
<1>14. visit \in [0 .. N -> D]
  <2> HIDE DEF D, N
  <2> QED
    BY <1>11, <1>13
<1> HIDE DEF N
<1> QED
  BY <1>3, <1>12, <1>14 DEF N

\* tree_node_find compares every node of the tree, and no other.
LEMMA PreorderIs ==
    ASSUME ListInv, KidsOK, NEW depth, Shape(depth)
    PROVE  Preorder(Root) \in Seq(Nodes) /\ Range(Preorder(Root)) = Alive
<1> DEFINE N == Cardinality(Nodes)
<1>1. N \in Nat /\ Null \notin Nodes /\ Alive \subseteq Nodes /\ Root \in Alive
  BY ListAssumption, TreeAssumption, FS_Subset, FS_CardinalityType DEF Alive, Shape
<1>2. PICK visit \in [0 .. N -> [Nodes -> Seq(Nodes)]] :
          /\ visit[0] = [x \in Nodes |-> <<x>>]
          /\ \A k \in 1 .. N : visit[k] = Visit(list, visit[k - 1])
          /\ \A n \in Nodes : Preorder(n) = visit[N][n]
  BY PreorderSteps
<1> HIDE DEF N
<1>3. \A x \in Nodes : Forward(list, x) \in Seq(Nodes)
  BY KidsAre
<1>4. \A x \in Alive : Range(Forward(list, x)) = {c \in Alive : parent[c] = x}
  BY KidsAre DEF KidsOK, Alive
<1>5. \A k \in 1 .. N : k - 1 \in 0 .. N /\ visit[k - 1] \in [Nodes -> Seq(Nodes)]
  <2>1. \A k \in 1 .. N : k - 1 \in 0 .. N
    BY <1>1
  <2> QED
    BY <2>1
<1>6. \A k \in 1 .. N : \A x \in Alive :
          Range(visit[k][x]) =
             {x} \cup UNION {Range(visit[k - 1][c]) : c \in {c \in Alive : parent[c] = x}}
  <2> SUFFICES ASSUME NEW k \in 1 .. N, NEW x \in Alive
               PROVE  Range(visit[k][x]) =
                  {x} \cup UNION {Range(visit[k - 1][c]) : c \in {c \in Alive : parent[c] = x}}
    OBVIOUS
  <2> DEFINE v == visit[k - 1]
  <2>1. v \in [Nodes -> Seq(Nodes)] /\ x \in Nodes
    BY <1>1, <1>5
  <2>2. visit[k] = Visit(list, v)
    BY <1>2
  <2> HIDE DEF v
  <2>3. Range(Visit(list, v)[x]) = Visited(list, v, x)
    BY <1>3, <2>1, VisitHolds
  <2>4. Range(Forward(list, x)) = {c \in Alive : parent[c] = x}
    BY <1>4
  <2> QED
    BY <2>2, <2>3, <2>4, Zenon DEF Visited, v
<1>7. ASSUME NEW x \in Nodes
      PROVE  Range(visit[0][x]) = {x}
  <2>1. visit[0][x] = <<x>>
    BY <1>2
  <2> QED
    BY <2>1 DEF Range
<1> DEFINE Seen(R, x, k) ==
              /\ x \in R /\ R \subseteq Alive
              /\ \A c \in Alive : parent[c] \in R /\ depth[parent[c]] < depth[x] + k
                                     => c \in R
           Good(k) == \A x \in Alive : Seen(Range(visit[k][x]), x, k)
           Bad == {k \in 0 .. N : ~Good(k)}
<1>8. Good(0)
  <2> SUFFICES ASSUME NEW x \in Alive PROVE Seen(Range(visit[0][x]), x, 0)
    OBVIOUS
  <2>1. Range(visit[0][x]) = {x} /\ depth[x] \in Nat
    BY <1>1, <1>7 DEF Shape
  <2> QED
    BY <2>1
<1>9. ASSUME NEW k \in 1 .. N, Good(k - 1)
      PROVE  Good(k)
  <2> SUFFICES ASSUME NEW x \in Alive PROVE Seen(Range(visit[k][x]), x, k)
    OBVIOUS
  <2> DEFINE R == Range(visit[k][x])
             Kids == {c \in Alive : parent[c] = x}
             Sub(c) == Range(visit[k - 1][c])
  <2>1. R = {x} \cup UNION {Sub(c) : c \in Kids}
    BY <1>6
  <2>2. \A c \in Kids : Seen(Sub(c), c, k - 1)
    BY <1>9
  <2> HIDE DEF R, Sub
  <2>3. x \in R /\ R \subseteq Alive /\ \A c \in Kids : c \in R
    BY <2>1, <2>2
  <2>4. ASSUME NEW c \in Alive, parent[c] \in R, depth[parent[c]] < depth[x] + k
        PROVE  c \in R
    <3>1. CASE parent[c] = x
      BY <2>3, <3>1
    <3>2. CASE parent[c] # x
      <4>1. PICK z \in Kids : parent[c] \in Sub(z)
        BY <2>1, <2>4, <3>2
      <4>2. z # Root
        BY <1>1 DEF Shape
      <4>3. depth[z] = depth[x] + 1
        BY <4>2 DEF Shape
      <4>4. depth[x] \in Nat /\ depth[parent[c]] \in Nat
        BY <1>1, <2>3, <2>4 DEF Shape
      <4>5. depth[parent[c]] < depth[z] + (k - 1)
        BY <2>4, <4>3, <4>4
      <4>6. c \in Sub(z)
        BY <2>2, <4>1, <4>5
      <4> QED
        BY <2>1, <4>6
    <3> QED
      BY <3>1, <3>2
  <2> QED
    BY <2>3, <2>4 DEF R
<1>10. CASE Bad # {}
  <2> HIDE DEF Good
  <2>1. Bad \in SUBSET Nat
    BY <1>1
  <2>2. PICK k \in Bad : \A j \in Bad : k <= j
    BY <1>10, <2>1, Least
  <2>3. k \in 0 .. N /\ ~Good(k)
    BY <2>2
  <2>4. k # 0
    BY <1>8, <2>3
  <2>5. k - 1 \in 0 .. N /\ k \in 1 .. N /\ ~(k <= k - 1)
    BY <1>1, <2>3, <2>4
  <2> QED
    BY <1>9, <2>2, <2>3, <2>5
<1>11. CASE Bad = {}
  <2>1. N \in 0 .. N
    BY <1>1
  <2>2. Good(N)
    <3> HIDE DEF Good
    <3> QED
      BY <1>11, <2>1
  <2> DEFINE S == Range(visit[N][Root])
  <2>3. Seen(S, Root, N)
    BY <1>1, <2>2
  <2>4. \A n \in Alive : depth[n] \in Nat /\ depth[n] < N
    <3>1. IsFiniteSet(Nodes) /\ Nodes \ fresh \in SUBSET Nodes
      BY ListAssumption, TreeAssumption, FS_Subset
    <3>2. Cardinality(Nodes \ fresh) <= N /\ Cardinality(Nodes \ fresh) \in Nat
      BY <3>1, FS_Subset, FS_CardinalityType DEF N
    <3> SUFFICES ASSUME NEW n \in Alive PROVE depth[n] \in Nat /\ depth[n] < N
      OBVIOUS
    <3>3. depth[n] \in Nat /\ depth[n] < Cardinality(Nodes \ fresh)
      BY <1>1 DEF Shape
    <3> QED
      BY <1>1, <3>2, <3>3
  <2> HIDE DEF S
  <2>5. \A c \in Alive : parent[c] \in S \cap Alive => c \in S
    <3> SUFFICES ASSUME NEW c \in Alive, parent[c] \in S \cap Alive PROVE c \in S
      OBVIOUS
    <3>1. depth[parent[c]] < N /\ depth[parent[c]] \in Nat /\ depth[Root] \in Nat
      BY <1>1, <2>4
    <3>2. depth[parent[c]] < depth[Root] + N
      BY <1>1, <3>1
    <3> QED
      BY <2>3, <3>2
  <2>6. Alive \subseteq S
    BY <2>3, <2>5, DownFromRoot
  <2>7. visit[N] \in [Nodes -> Seq(Nodes)] /\ Preorder(Root) = visit[N][Root] /\ Root \in Nodes
    BY <1>1, <1>2, <2>1
  <2>8. visit[N][Root] \in Seq(Nodes)
    BY <2>7
  <2> QED
    BY <2>3, <2>6, <2>7, <2>8 DEF S
<1> QED
  BY <1>10, <1>11

\* The search answers a wanted node of the tree if there is one.
LEMMA FindIs ==
    ASSUME ListInv, KidsOK, NEW depth, Shape(depth), NEW wanted
    PROVE  LET r == TreeNodeFind(Root, wanted)
           IN  r \in Alive \cap wanted \/ (r = Null /\ Alive \cap wanted = {})
<1> DEFINE order == Preorder(Root)
           hits == {i \in DOMAIN order : order[i] \in wanted}
           r == TreeNodeFind(Root, wanted)
<1>1. order \in Seq(Nodes) /\ Range(order) = Alive
  BY PreorderIs
<1>2. r = IF hits = {} THEN Null ELSE order[Min(hits)]
  BY DEF TreeNodeFind
<1> HIDE DEF order, r
<1>3. DOMAIN order = 1 .. Len(order) /\ Len(order) \in Nat
  BY <1>1
<1>4. \A y : y \in Alive <=> \E h \in 1 .. Len(order) : y = order[h]
  <2>1. \A y : y \in Range(order) <=> \E h \in 1 .. Len(order) : y = order[h]
    BY <1>1, InRange
  <2> QED
    BY <1>1, <2>1
<1>5. CASE hits = {}
  <2>1. Alive \cap wanted = {}
    <3> SUFFICES ASSUME NEW y \in Alive, y \in wanted PROVE FALSE
      OBVIOUS
    <3>1. PICK h \in 1 .. Len(order) : y = order[h]
      BY <1>4, Zenon
    <3> QED
      BY <1>3, <1>5, <3>1
  <2> QED
    BY <1>2, <1>5, <2>1 DEF r
<1>6. CASE hits # {}
  <2>1. hits \in SUBSET Nat
    BY <1>3
  <2>2. \E h \in hits : \A k \in hits : h <= k
    <3> HIDE DEF hits
    <3> QED
      BY <1>6, <2>1, Least
  <2>3. Min(hits) \in hits
    <3> HIDE DEF hits
    <3> QED
      BY <2>2 DEF Min
  <2> DEFINE h == Min(hits)
  <2>4. h \in 1 .. Len(order) /\ order[h] \in wanted
    BY <1>3, <2>3
  <2>5. order[h] \in Alive
    BY <1>4, <2>4
  <2> QED
    BY <1>2, <1>6, <2>4, <2>5 DEF r
<1> QED
  BY <1>5, <1>6

-----------------------------------------------------------------------------
(* The steps of the tree.                                                  *)

LEMMA WithRange ==
    ASSUME NEW T, NEW q \in Seq(T), NEW k \in 1 .. Len(q) + 1, NEW x \in T
    PROVE  Range(With(q, k, x)) = Range(q) \cup {x}
<1> DEFINE p == With(q, k, x)
<1>1. /\ p \in Seq(T) /\ Len(p) = Len(q) + 1 /\ Len(q) \in Nat
      /\ \A i \in 1 .. Len(q) + 1 :
            p[i] = IF i < k THEN q[i] ELSE IF i = k THEN x ELSE q[i - 1]
  BY DEF With
<1> HIDE DEF p
<1>2. /\ \A y : y \in Range(p) <=> \E h \in 1 .. Len(p) : y = p[h]
      /\ \A y : y \in Range(q) <=> \E h \in 1 .. Len(q) : y = q[h]
  BY <1>1, InRange
<1>3. ASSUME NEW y \in Range(p) PROVE y \in Range(q) \cup {x}
  <2>1. PICK h \in 1 .. Len(p) : y = p[h]
    BY <1>2, Zenon
  <2>2. CASE h < k
    <3>1. h \in 1 .. Len(q) /\ p[h] = q[h]
      BY <1>1, <2>2
    <3> QED
      BY <1>2, <2>1, <3>1
  <2>3. CASE h = k
    BY <1>1, <2>1, <2>3
  <2>4. CASE h > k
    <3>1. h - 1 \in 1 .. Len(q) /\ p[h] = q[h - 1]
      BY <1>1, <2>4
    <3> QED
      BY <1>2, <2>1, <3>1
  <2> QED
    BY <1>1, <2>2, <2>3, <2>4
<1>4. ASSUME NEW y \in Range(q) PROVE y \in Range(p)
  <2>1. PICK h \in 1 .. Len(q) : y = q[h]
    BY <1>2, Zenon
  <2>2. CASE h < k
    <3>1. h \in 1 .. Len(p) /\ p[h] = q[h]
      BY <1>1, <2>2
    <3> QED
      BY <1>2, <2>1, <3>1
  <2>3. CASE ~(h < k)
    <3> DEFINE j == h + 1
    <3>1. j \in 1 .. Len(p) /\ ~(j < k) /\ j # k /\ j - 1 = h
      BY <1>1, <2>3
    <3> HIDE DEF j
    <3>2. p[j] = q[h]
      BY <1>1, <3>1
    <3> QED
      BY <1>2, <2>1, <3>1, <3>2
  <2> QED
    BY <2>2, <2>3
<1>5. x \in Range(p)
  <2>1. k \in 1 .. Len(p) /\ p[k] = x
    BY <1>1
  <2> QED
    BY <1>2, <2>1
<1> QED
  BY <1>3, <1>4, <1>5 DEF p

LEMMA WithoutRange ==
    ASSUME NEW T, NEW q \in Seq(T), NEW k \in 1 .. Len(q), IsInjective(q)
    PROVE  Range(Without(q, k)) = Range(q) \ {q[k]}
<1> DEFINE p == Without(q, k)
<1>1. /\ p \in Seq(T) /\ Len(p) = Len(q) - 1 /\ Len(q) \in Nat
      /\ \A i \in 1 .. Len(q) - 1 : p[i] = IF i < k THEN q[i] ELSE q[i + 1]
  BY DEF Without
<1> HIDE DEF p
<1>2. /\ \A y : y \in Range(p) <=> \E h \in 1 .. Len(p) : y = p[h]
      /\ \A y : y \in Range(q) <=> \E h \in 1 .. Len(q) : y = q[h]
  BY <1>1, InRange
<1>3. \A i, j \in 1 .. Len(q) : q[i] = q[j] => i = j
  BY <1>1 DEF IsInjective
<1>4. ASSUME NEW y \in Range(p) PROVE y \in Range(q) \ {q[k]}
  <2>1. PICK h \in 1 .. Len(p) : y = p[h]
    BY <1>2, Zenon
  <2> DEFINE j == IF h < k THEN h ELSE h + 1
  <2>2. j \in 1 .. Len(q) /\ p[h] = q[j] /\ j # k
    BY <1>1
  <2> HIDE DEF j
  <2>3. q[j] # q[k]
    BY <1>3, <2>2
  <2> QED
    BY <1>2, <2>1, <2>2, <2>3
<1>5. ASSUME NEW y \in Range(q), y # q[k] PROVE y \in Range(p)
  <2>1. PICK h \in 1 .. Len(q) : y = q[h]
    BY <1>2, Zenon
  <2>2. h # k
    BY <1>5, <2>1
  <2>3. CASE h < k
    <3>1. h \in 1 .. Len(p) /\ p[h] = q[h]
      BY <1>1, <2>3
    <3> QED
      BY <1>2, <2>1, <3>1
  <2>4. CASE ~(h < k)
    <3> DEFINE j == h - 1
    <3>1. j \in 1 .. Len(p) /\ ~(j < k) /\ j + 1 = h
      BY <1>1, <2>2, <2>4
    <3> HIDE DEF j
    <3>2. p[j] = q[h]
      BY <1>1, <3>1
    <3> QED
      BY <1>2, <2>1, <3>1, <3>2
  <2> QED
    BY <2>3, <2>4
<1> QED
  BY <1>4, <1>5 DEF p

LEMMA FiniteNodes ==
    /\ IsFiniteSet(Nodes) /\ Null \notin Nodes /\ Root \in Nodes
    /\ \A S \in SUBSET Nodes : IsFiniteSet(S) /\ Cardinality(S) \in Nat
<1>1. IsFiniteSet(Nodes)
  BY ListAssumption, TreeAssumption, FS_Subset
<1> QED
  BY <1>1, ListAssumption, TreeAssumption, FS_Subset, FS_CardinalityType

LEMMA SetRootKeeps ==
    ASSUME ListInv, TreeInv, TreeSetRoot
    PROVE  TreeInv'
<1>1. /\ root = Null /\ Root \in fresh /\ root' = Root /\ nodes' = 1
      /\ allocated' = allocated \cup {Root} /\ fresh' = fresh \ {Root}
      /\ list' = list /\ parent' = parent
  BY DEF TreeSetRoot
<1>2. Contents' = Contents
  BY <1>1 DEF Contents, Forward, Walk
<1>3. Alive = {} /\ FreshOK /\ fresh \subseteq Nodes
  BY <1>1 DEF TreeInv, ListInv, TreeTypeOK
<1>4. Alive' = {Root}
  BY <1>1, <1>3, FiniteNodes DEF Alive
<1>5. FreshOK'
  BY <1>1, <1>2, <1>3, <1>4 DEF FreshOK
<1>6. KidsOK'
  <2>1. Contents[Root] = <<>> /\ parent[Root] = Null
    BY <1>1, <1>3 DEF FreshOK
  <2>2. Range(Contents[Root]) = {}
    BY <2>1 DEF Range
  <2> QED
    BY <1>1, <1>2, <1>4, <2>1, <2>2, FiniteNodes DEF KidsOK
<1>7. \E depth : Shape(depth)'
  <2> DEFINE depth == [n \in Nodes |-> 0]
  <2>1. Cardinality(Nodes \ fresh') > 0
    <3>1. Nodes \ fresh' \in SUBSET Nodes /\ Nodes \ fresh' # {}
      BY <1>1, FiniteNodes
    <3>2. Cardinality(Nodes \ fresh') # 0
      BY <3>1, FiniteNodes, FS_EmptySet
    <3> QED
      BY <3>1, <3>2, FiniteNodes
  <2>2. Shape(depth)'
    BY <1>1, <1>3, <1>4, <2>1, FiniteNodes DEF Shape, FreshOK
  <2> QED
    BY <2>2
<1>8. nodes' = Cardinality(Alive')
  BY <1>1, <1>4, FS_Singleton
<1>9. root' # Null
  BY <1>1, FiniteNodes
<1> QED
  BY <1>1, <1>5, <1>6, <1>7, <1>8, <1>9 DEF TreeInv

LEMMA InsertChildKeeps ==
    ASSUME ListInv, TreeInv, NEW p \in Nodes, NEW n \in Nodes, TreeNodeInsertChild(p, n)
    PROVE  TreeInv'
<1>1. /\ root # Null /\ p \in Alive /\ n \in fresh
      /\ parent' = [parent EXCEPT ![n] = p] /\ nodes' = nodes + 1
      /\ allocated' = allocated \cup {n} /\ fresh' = fresh \ {n} /\ root' = root
  BY DEF TreeNodeInsertChild, Alive
<1>2. FreshOK /\ KidsOK /\ nodes = Cardinality(Alive) /\ root = Root
  BY <1>1 DEF TreeInv
<1>3. PICK depth : Shape(depth)
  BY <1>1 DEF TreeInv
<1>4. PICK k : PutStep(p, k, n)
  BY InsertChildMoves
<1>5. Contents \in [Lists -> Seq(Items)] /\ parent \in [Nodes -> Nodes \cup {Null}]
  BY DEF ListInv, Holds, TreeTypeOK
<1>6. /\ Contents'[p] = With(Contents[p], k, n) /\ k \in 1 .. Len(Contents[p]) + 1
      /\ \A j \in Nodes : j # p => Contents'[j] = Contents[j]
  BY <1>4, <1>5, TreeFacts DEF PutStep
<1>7. Alive' = Alive \cup {n} /\ n \notin Alive /\ n # p /\ Alive \subseteq Nodes
  BY <1>1, <1>2 DEF Alive, FreshOK
<1>8. parent'[n] = p /\ \A x \in Alive : parent'[x] = parent[x]
  BY <1>1, <1>5, <1>7
<1>9. FreshOK'
  <2>1. ASSUME NEW x \in fresh'
        PROVE  Contents'[x] = <<>> /\ parent'[x] = Null
    <3>1. x \in fresh /\ x # n /\ x # p /\ x \in Nodes
      BY <1>1, <1>2 DEF FreshOK, ListInv, TreeTypeOK
    <3> QED
      BY <1>1, <1>2, <1>5, <1>6, <3>1 DEF FreshOK
  <2> QED
    BY <1>1, <1>2, <1>7, <2>1 DEF FreshOK
<1>10. KidsOK'
  <2> SUFFICES ASSUME NEW x \in Alive'
               PROVE  Range(Contents'[x]) = {c \in Alive' : parent'[c] = x}
    BY DEF KidsOK
  <2>1. \A c \in Alive : parent[c] # n
    BY <1>3, <1>7, FiniteNodes DEF Shape
  <2>2. CASE x = n
    <3>1. Contents'[n] = <<>>
      BY <1>1, <1>2, <1>6, <1>7 DEF FreshOK
    <3>2. Range(Contents'[n]) = {}
      BY <3>1 DEF Range
    <3> QED
      BY <1>7, <1>8, <2>1, <2>2, <3>2
  <2>3. CASE x = p
    <3>1. Contents[p] \in Seq(Nodes)
      BY KidsAre
    <3>2. Range(Contents'[p]) = Range(Contents[p]) \cup {n}
      BY <1>6, <3>1, WithRange
    <3>3. Range(Contents[p]) = {c \in Alive : parent[c] = p}
      BY <1>1, <1>2 DEF KidsOK
    <3> QED
      BY <1>7, <1>8, <2>3, <3>2, <3>3
  <2>4. CASE x # n /\ x # p
    <3>1. x \in Alive /\ Range(Contents'[x]) = {c \in Alive : parent[c] = x}
      BY <1>2, <1>6, <1>7, <2>4 DEF KidsOK
    <3> QED
      BY <1>7, <1>8, <2>4, <3>1
  <2> QED
    BY <2>2, <2>3, <2>4
<1>11. \E d : Shape(d)'
  <2> DEFINE d == [depth EXCEPT ![n] = depth[p] + 1]
  <2>1. depth \in [Nodes -> Nat]
    BY <1>3 DEF Shape
  <2>2. /\ d \in [Nodes -> Nat] /\ d[n] = d[p] + 1
        /\ \A x \in Alive : d[x] = depth[x]
    BY <1>7, <2>1
  <2>3. /\ Cardinality(Nodes \ fresh') = Cardinality(Nodes \ fresh) + 1
        /\ Cardinality(Nodes \ fresh) \in Nat
    <3>1. Nodes \ fresh' = (Nodes \ fresh) \cup {n} /\ n \notin Nodes \ fresh
      BY <1>1
    <3>2. IsFiniteSet(Nodes \ fresh) /\ Cardinality(Nodes \ fresh) \in Nat
      BY FiniteNodes
    <3> QED
      BY <3>1, <3>2, FS_AddElement
  <2>4. ASSUME NEW x \in Alive' PROVE d[x] < Cardinality(Nodes \ fresh')
    <3>1. \A y \in Alive : depth[y] \in Nat /\ depth[y] < Cardinality(Nodes \ fresh)
      BY <1>3, <1>7, <2>1 DEF Shape
    <3>2. CASE x = n
      <4>1. d[n] = depth[p] + 1 /\ depth[p] \in Nat /\ depth[p] < Cardinality(Nodes \ fresh)
        BY <1>1, <2>2, <3>1
      <4> QED
        BY <2>3, <3>2, <4>1
    <3>3. CASE x # n
      <4>1. d[x] \in Nat /\ d[x] < Cardinality(Nodes \ fresh)
        BY <1>7, <2>2, <3>1, <3>3
      <4> QED
        BY <2>3, <4>1
    <3> QED
      BY <3>2, <3>3
  <2>5. Root \in Alive' /\ parent'[Root] = Null
    BY <1>3, <1>7, <1>8 DEF Shape
  <2>6. ASSUME NEW x \in Alive' \ {Root}
        PROVE  parent'[x] \in Alive' /\ d[x] = d[parent'[x]] + 1
    <3>1. CASE x = n
      BY <1>1, <1>7, <1>8, <2>2, <3>1
    <3>2. CASE x # n
      <4>1. parent[x] \in Alive /\ depth[x] = depth[parent[x]] + 1 /\ x \in Alive
        BY <1>3, <1>7, <3>2 DEF Shape
      <4> HIDE DEF d
      <4> QED
        BY <1>7, <1>8, <2>2, <4>1
    <3> QED
      BY <3>1, <3>2
  <2> HIDE DEF d
  <2>7. Shape(d)'
    BY <2>2, <2>4, <2>5, <2>6 DEF Shape
  <2> QED
    BY <2>7
<1>12. nodes' = Cardinality(Alive')
  <2>1. IsFiniteSet(Alive)
    BY <1>7, FiniteNodes
  <2> QED
    BY <1>1, <1>2, <1>7, <2>1, FS_AddElement
<1> QED
  BY <1>1, <1>2, <1>9, <1>10, <1>11, <1>12 DEF TreeInv

LEMMA RemoveKeeps ==
    ASSUME ListInv, TreeInv, NEW n \in Nodes, TreeNodeRemove(n)
    PROVE  TreeInv'
<1> DEFINE B == Branch(list, n)
           p == parent[n]
<1>1. /\ n \in Alive /\ p # Null /\ nodes' = nodes - (CountChildren(list, n) + 1)
      /\ allocated' = allocated \ B
      /\ root' = root /\ parent' = parent /\ fresh' = fresh
  BY DEF TreeNodeRemove, Alive
<1>2. FreshOK /\ KidsOK /\ nodes = Cardinality(Alive) /\ root = Root /\ root # Null
  BY <1>1 DEF TreeInv
<1>3. PICK depth : Shape(depth)
  BY <1>2 DEF TreeInv
<1>4. BranchOK(B, n, depth) /\ CountChildren(list, n) + 1 = Cardinality(B)
  BY <1>1, <1>2, <1>3, BranchIs, CountIs
<1>5. PICK k : TakeStep(p, k) /\ Contents[p][k] = n
  BY RemoveMoves
<1> HIDE DEF B
<1>6. n # Root /\ p \in Alive /\ p \in Nodes
  BY <1>1, <1>3 DEF Shape, Alive
<1> HIDE DEF p
<1>7. Contents \in [Lists -> Seq(Items)]
  BY DEF ListInv, Holds
<1>8. /\ Contents'[p] = Without(Contents[p], k) /\ k \in 1 .. Len(Contents[p])
      /\ \A j \in Nodes : j # p => Contents'[j] = Contents[j]
  BY <1>5, <1>6, <1>7, TreeFacts DEF TakeStep
<1>9. Alive' = Alive \ B /\ Alive \subseteq Nodes
  BY <1>1 DEF Alive
<1>10. /\ n \in B /\ B \subseteq Alive
       /\ \A c \in Alive : parent[c] \in B => c \in B
       /\ \A x \in B : x # n => parent[x] \in B
  BY <1>4 DEF BranchOK
<1>11. FreshOK'
  <2>1. p \notin fresh /\ fresh \subseteq Nodes
    BY <1>2, <1>6 DEF FreshOK, ListInv, TreeTypeOK
  <2> QED
    BY <1>1, <1>2, <1>8, <1>9, <2>1 DEF FreshOK
<1>12. KidsOK'
  <2> SUFFICES ASSUME NEW x \in Alive \ B
               PROVE  Range(Contents'[x]) = {c \in Alive \ B : parent[c] = x}
    BY <1>1, <1>9 DEF KidsOK
  <2>1. Range(Contents[x]) = {c \in Alive : parent[c] = x}
    BY <1>2 DEF KidsOK
  <2>2. CASE x = p
    <3>1. Contents[p] \in Seq(Nodes) /\ IsInjective(Contents[p])
      BY <1>6, KidsAre
    <3>2. Range(Contents'[p]) = Range(Contents[p]) \ {n}
      BY <1>5, <1>8, <3>1, WithoutRange
    <3> QED
      BY <1>10, <2>1, <2>2, <3>2
  <2>3. CASE x # p
    <3>1. Contents'[x] = Contents[x]
      BY <1>8, <1>9, <2>3
    <3> QED
      BY <1>10, <2>1, <2>3, <3>1 DEF p
  <2> QED
    BY <2>2, <2>3
<1>13. Shape(depth)'
  <2>1. Root \notin B
    BY <1>3, <1>6, <1>9, <1>10, FiniteNodes DEF Shape
  <2>2. \A x \in Alive \ B : x # Root => parent[x] \in Alive \ B
    BY <1>3, <1>10 DEF Shape
  <2> QED
    BY <1>1, <1>3, <1>9, <2>1, <2>2 DEF Shape
<1>14. nodes' = Cardinality(Alive')
  <2>1. IsFiniteSet(Alive) /\ Cardinality(Alive) \in Nat /\ Alive \cap B = B
    BY <1>9, <1>10, FiniteNodes
  <2>2. Cardinality(Alive \ B) = Cardinality(Alive) - Cardinality(Alive \cap B)
    BY <2>1, FS_Difference
  <2> QED
    BY <1>1, <1>2, <1>4, <1>9, <2>1, <2>2
<1>15. \E d : Shape(d)'
  BY <1>13
<1> QED
  BY <1>1, <1>2, <1>11, <1>12, <1>14, <1>15 DEF TreeInv

LEMMA KeptKeeps ==
    ASSUME TreeInv, TreeKept, fresh \subseteq Nodes
    PROVE  TreeInv'
<1>1. Alive' = Alive /\ UNCHANGED <<root, nodes, parent, fresh>> /\ Alive \subseteq Nodes
  BY DEF TreeKept, treeVars, Alive
<1>2. FreshOK' /\ KidsOK'
  BY <1>1 DEF TreeInv, FreshOK, KidsOK, TreeKept
<1>3. ASSUME NEW depth, Shape(depth) PROVE Shape(depth)'
  BY <1>1, <1>3 DEF Shape
<1> QED
  BY <1>1, <1>2, <1>3 DEF TreeInv

LEMMA TreeInvariant == Spec => [](ListInv /\ TreeInv)
<1>1. Init => ListInv /\ TreeInv
  <2> SUFFICES ASSUME Init PROVE ListInv /\ TreeInv
    OBVIOUS
  <2>1. ListInv /\ Contents = [l \in Lists |-> <<>>]
    BY InitLists
  <2>2. /\ root = Null /\ nodes = 0 /\ parent = [n \in Nodes |-> Null]
        /\ fresh = Nodes /\ Alive = {}
    BY DEF Init, Alive
  <2>3. FreshOK /\ KidsOK
    BY <2>1, <2>2, TreeFacts DEF FreshOK, KidsOK
  <2> QED
    BY <2>1, <2>2, <2>3, FS_EmptySet DEF TreeInv
<1>2. ListInv /\ TreeInv /\ [TreeStep \/ StackStep]_vars => (ListInv /\ TreeInv)'
  <2> SUFFICES ASSUME ListInv, TreeInv, [TreeStep \/ StackStep]_vars PROVE TreeInv'
    BY StepMoves
  <2>1. fresh \subseteq Nodes
    BY DEF ListInv, TreeTypeOK
  <2>2. CASE StackStep
    BY <2>1, <2>2, StackMoves, KeptKeeps
  <2>3. CASE UNCHANGED vars
    <3>1. TreeKept
      BY <2>3 DEF TreeKept, vars, treeVars, Contents, Forward, Walk
    <3> QED
      BY <2>1, <3>1, KeptKeeps
  <2> QED
    BY <2>2, <2>3, SetRootKeeps, InsertChildKeeps, RemoveKeeps DEF TreeStep
<1> QED
  BY <1>1, <1>2, PTL DEF Spec

\* The count that tree_node_parent_remove keeps from the lengths of the lists is
\* the number of nodes that a walk from the root meets; these are the nodes that
\* are not freed, and tree_find_parent finds of each what its link says: for
\* every number of nodes and every order of insertions and removals.
THEOREM TreeCountsNodes == DevSpec => []NodesCounted
<1>1. ListInv /\ TreeInv => NodesCounted
  <2> SUFFICES ASSUME ListInv, TreeInv PROVE NodesCounted
    OBVIOUS
  <2>1. /\ KidsOK /\ FreshOK /\ root \in {Null, Root} /\ nodes = Cardinality(Alive)
        /\ Alive \in SUBSET Nodes
    BY DEF TreeInv, Alive
  <2>2. TypeOK
    <3>1. ListTypeOK
      BY DEF ListInv, Holds, ListTypeOK, ListStates
    <3>2. nodes \in Nat
      BY <2>1, FiniteNodes
    <3> QED
      BY <2>1, <3>1, <3>2 DEF TypeOK, ListInv, TreeTypeOK
  <2>3. \A p \in Alive : Range(Forward(list, p)) = {n \in Alive : parent[n] = p}
    BY <2>1, KidsAre DEF KidsOK
  <2>4. CASE root = Null
    <3>1. Alive = {}
      BY <2>4 DEF TreeInv
    <3> QED
      BY <2>1, <2>2, <2>4, <3>1 DEF NodesCounted, ChildrenKnowParents, InTree, Alive
  <2>5. CASE root # Null
    <3>1. PICK depth : Shape(depth)
      BY <2>5 DEF TreeInv
    <3>2. root = Root /\ Branch(list, Root) = Alive
      BY <2>1, <2>5, <3>1, TreeIsAlive
    <3>3. ASSUME NEW x \in Alive
          PROVE  TreeFindParent(x) = parent[x]
      <4> DEFINE wanted == {p \in Nodes : ListFind(list, p, x) # Null}
                 r == TreeNodeFind(Root, wanted)
      <4>1. TreeFindParent(x) = r
        BY <2>5, <3>2 DEF TreeFindParent
      <4>2. Alive \cap wanted = {p \in Alive : parent[x] = p}
        <5>1. \A p \in Alive : ListFind(list, p, x) # Null <=> parent[x] = p
          BY <2>1, <2>3, FiniteNodes DEF ListFind
        <5> QED
          BY <2>1, <5>1
      <4> HIDE DEF wanted
      <4>3. r \in Alive \cap wanted \/ (r = Null /\ Alive \cap wanted = {})
        BY <2>1, <3>1, FindIs
      <4> HIDE DEF r
      <4>4. parent[x] \in Alive \/ parent[x] = Null
        BY <3>1 DEF Shape
      <4> QED
        BY <4>1, <4>2, <4>3, <4>4
    <3>4. ChildrenKnowParents
      BY <2>3, <3>3 DEF ChildrenKnowParents, Alive
    <3>5. InTree = Alive
      BY <2>5, <3>2 DEF InTree
    <3> QED
      BY <2>1, <2>2, <3>4, <3>5 DEF NodesCounted, Alive
  <2> QED
    BY <2>4, <2>5
<1> QED
  BY <1>1, ManagerUsesTree, TreeInvariant, PTL

-----------------------------------------------------------------------------
(* The devices in the tree.                                                *)

\* Tree nodes stand for different devices, those that callers inserted, and
\* hang where callers put them.
ValuesOK ==
    /\ \A n \in Alive : value[n] \in Devs
    /\ \A m, n \in Alive : value[m] = value[n] => m = n
    /\ DOMAIN under = {value[n] : n \in Alive}
    /\ root # Null => value[Root] = dev_root /\ under[dev_root] = Null
    /\ \A n \in Alive \ {Root} : under[value[n]] = value[parent[n]]

\* What device_manager_insert_kernel has still to insert is not in the tree.
PendingOK ==
    /\ root = Null => inserted = 0
    /\ \A k \in 1 .. Len(Statics) : k > inserted => Statics[k][1] \notin DOMAIN under

DevInv == DevTypeOK /\ ValuesOK /\ PendingOK

\* The search by address finds the device, the one by name a device of the name.
LEMMA SearchIs ==
    ASSUME ListInv, TreeInv, ValuesOK, root # Null, NEW wanted
    PROVE  \/ /\ TreeFind(wanted) \in Alive /\ value[TreeFind(wanted)] \in wanted
              /\ value[TreeFind(wanted)] \in DOMAIN under
           \/ TreeFind(wanted) = Null /\ wanted \cap DOMAIN under = {}
<1> DEFINE W == {n \in Nodes : value[n] \in wanted}
           r == TreeNodeFind(Root, W)
<1>1. root = Root /\ KidsOK
  BY DEF TreeInv
<1>2. TreeFind(wanted) = r
  BY <1>1 DEF TreeFind
<1>3. PICK depth : Shape(depth)
  BY DEF TreeInv
<1>4. Alive \cap W = {n \in Alive : value[n] \in wanted}
  BY DEF Alive
<1> HIDE DEF W
<1>5. r \in Alive \cap W \/ (r = Null /\ Alive \cap W = {})
  BY <1>1, <1>3, FindIs
<1> HIDE DEF r
<1> QED
  BY <1>2, <1>4, <1>5 DEF ValuesOK

LEMMA AddressSearchIs ==
    ASSUME ListInv, TreeInv, ValuesOK, root # Null, NEW d
    PROVE  \/ /\ DeviceSearchTreeNode(d) \in Alive
              /\ value[DeviceSearchTreeNode(d)] = d /\ d \in DOMAIN under
           \/ DeviceSearchTreeNode(d) = Null /\ d \notin DOMAIN under
BY SearchIs DEF DeviceSearchTreeNode

LEMMA NameSearchIs ==
    ASSUME ListInv, TreeInv, ValuesOK, DOMAIN under \subseteq Devs, root # Null, NEW nm
    PROVE  LET m     == DeviceSearchNode(nm)
               Named == {e \in DOMAIN under : name[e] = nm}
           IN  (m \in Alive /\ value[m] \in Named) \/ (m = Null /\ Named = {})
<1> DEFINE wanted == {d \in Devs : name[d] = nm}
<1>1. DeviceSearchNode(nm) = TreeFind(wanted)
  BY DEF DeviceSearchNode
<1>2. wanted \cap DOMAIN under = {e \in DOMAIN under : name[e] = nm}
  OBVIOUS
<1> HIDE DEF wanted
<1> QED
  BY <1>1, <1>2, SearchIs

\* What was put below a device is what its branch holds.
LEMMA BelowIs ==
    ASSUME ListInv, TreeInv, ValuesOK, root # Null, NEW n \in Alive
    PROVE  Below(value[n]) = {value[x] : x \in Branch(list, n)}
<1> DEFINE d == value[n]
           B == Branch(list, n)
           V == {value[x] : x \in B}
           N == Cardinality(Devs)
           Grow(S) == S \cup {e \in DOMAIN under : under[e] \in S}
           F == [S \in SUBSET Devs |-> Grow(S)]
           Eq(f) == f = [k \in 0 .. N |-> IF k = 0 THEN {d} ELSE Grow(f[k - 1])]
           reach == CHOOSE f : Eq(f)
<1>1. PICK depth : Shape(depth)
  BY DEF TreeInv
<1>2. KidsOK
  BY DEF TreeInv
<1>3. BranchOK(B, n, depth)
  BY <1>1, <1>2, BranchIs
<1> HIDE DEF B
<1>4. IsFiniteSet(Devs) /\ N \in Nat /\ Null \notin Devs /\ d \in Devs
  BY DevicesAssumption, FS_CardinalityType DEF ValuesOK
<1>5. DOMAIN under \subseteq Devs
  BY DEF ValuesOK
<1>6. \A S \in SUBSET Devs : Grow(S) \in SUBSET Devs /\ S \subseteq Grow(S)
  BY <1>5
<1>7. Below(d) = reach[N]
  BY DEF Below, reach, Grow
<1> HIDE DEF Grow, reach, d
<1>8. F \in [SUBSET Devs -> SUBSET Devs] /\ {d} \in SUBSET Devs
  BY <1>4, <1>6
<1>9. PICK f \in [0 .. N -> SUBSET Devs] : Iterated(f, F, {d}, N)
  <2> DEFINE D == SUBSET Devs
             a == {d}
  <2>1. a \in D /\ F \in [D -> D]
    BY <1>8
  <2> HIDE DEF F, N, D, a
  <2>2. \E f \in [0 .. N -> D] : Iterated(f, F, a, N)
    BY <1>4, <2>1, Iterates
  <2> QED
    BY <2>2 DEF D, a
<1> HIDE DEF N
<1>10. \A k \in 0 .. N : f[k] = IF k = 0 THEN {d} ELSE Grow(f[k - 1])
  <2> SUFFICES ASSUME NEW k \in 0 .. N
               PROVE  f[k] = IF k = 0 THEN {d} ELSE Grow(f[k - 1])
    OBVIOUS
  <2>1. f[k] = IF k = 0 THEN {d} ELSE F[f[k - 1]]
    BY <1>9, Zenon DEF Iterated
  <2>2. k # 0 => k - 1 \in 0 .. N
    BY <1>4
  <2>3. k # 0 => F[f[k - 1]] = Grow(f[k - 1])
    BY <2>2
  <2> QED
    BY <2>1, <2>3
<1>11. Eq(f)
  <2>1. f = [k \in 0 .. N |-> f[k]]
    OBVIOUS
  <2> QED
    BY <1>10, <2>1, Zenon
<1>12. Eq(reach)
  <2> HIDE DEF Eq
  <2> QED
    BY <1>11 DEF reach
<1>13. \A k \in 0 .. N : reach[k] = IF k = 0 THEN {d} ELSE Grow(reach[k - 1])
  BY <1>12, Zenon
<1>14. \A k \in 0 .. N : reach[k] = f[k]
  <2> DEFINE Bad == {k \in 0 .. N : reach[k] # f[k]}
  <2>1. CASE Bad # {}
    <3>1. Bad \in SUBSET Nat
      BY <1>4
    <3>2. PICK k \in Bad : \A j \in Bad : k <= j
      BY <2>1, <3>1, Least
    <3>3. k \in 0 .. N /\ reach[k] # f[k]
      BY <3>2
    <3>4. k # 0
      BY <1>10, <1>13, <3>3
    <3>5. k - 1 \in 0 .. N /\ ~(k <= k - 1)
      BY <1>4, <3>3, <3>4
    <3>6. reach[k - 1] = f[k - 1]
      BY <3>2, <3>5
    <3> QED
      BY <1>10, <1>13, <3>3, <3>4, <3>6
  <2> QED
    BY <2>1
<1>15. N \in 0 .. N
  BY <1>4
<1>16. Below(d) = f[N]
  BY <1>7, <1>14, <1>15
<1>17. Grow(f[N]) = f[N] /\ f[N] \in SUBSET Devs
  <2> DEFINE a == {d}
  <2>1. /\ a \in SUBSET Devs /\ a # {} /\ Iterated(f, F, a, Cardinality(Devs))
        /\ f \in [0 .. Cardinality(Devs) -> SUBSET Devs]
    BY <1>8, <1>9 DEF N
  <2>2. \A S \in SUBSET Devs : S \subseteq F[S]
    BY <1>6
  <2> HIDE DEF a, F
  <2>3. F[f[Cardinality(Devs)]] = f[Cardinality(Devs)]
    BY <1>4, <1>8, <2>1, <2>2, GrowthEnds
  <2>4. f[N] \in SUBSET Devs
    BY <1>15
  <2> QED
    BY <2>3, <2>4 DEF N, F
<1>18. /\ n \in B /\ B \subseteq Alive /\ Alive \subseteq Nodes
       /\ \A c \in Alive : parent[c] \in B => c \in B
       /\ \A x \in B : x # n => parent[x] \in B
       /\ \A x \in B : depth[x] >= depth[n]
  BY <1>3 DEF BranchOK, Alive
<1>19. \A k \in 0 .. N : f[k] \subseteq V
  <2> DEFINE Bad == {k \in 0 .. N : ~(f[k] \subseteq V)}
  <2>1. CASE Bad # {}
    <3>1. Bad \in SUBSET Nat
      BY <1>4
    <3>2. PICK k \in Bad : \A j \in Bad : k <= j
      BY <2>1, <3>1, Least
    <3>3. k \in 0 .. N /\ ~(f[k] \subseteq V)
      BY <3>2
    <3>4. k # 0
      <4>1. {d} \subseteq V
        BY <1>18 DEF d
      <4> QED
        BY <1>10, <3>3, <4>1
    <3>5. k - 1 \in 0 .. N /\ ~(k <= k - 1)
      BY <1>4, <3>3, <3>4
    <3>6. f[k - 1] \subseteq V
      BY <3>2, <3>5
    <3>7. f[k] = Grow(f[k - 1])
      BY <1>10, <3>3, <3>4
    <3>8. PICK e \in DOMAIN under : under[e] \in f[k - 1] /\ e \notin V
      BY <3>3, <3>6, <3>7 DEF Grow
    <3>9. PICK c \in Alive : e = value[c]
      BY <3>8 DEF ValuesOK
    <3>10. PICK x \in B : under[e] = value[x]
      BY <3>6, <3>8
    <3>11. x \in Alive /\ value[x] \in Devs
      BY <1>18, <3>10 DEF ValuesOK
    <3>12. c # Root
      BY <1>4, <3>9, <3>10, <3>11 DEF ValuesOK
    <3>13. under[e] = value[parent[c]] /\ parent[c] \in Alive
      BY <1>1, <3>9, <3>12 DEF ValuesOK, Shape
    <3>14. parent[c] = x
      BY <3>10, <3>11, <3>13 DEF ValuesOK
    <3>15. c \in B
      BY <1>18, <3>9, <3>10, <3>14
    <3> QED
      BY <3>8, <3>9, <3>15
  <2> QED
    BY <2>1
<1>20. V \subseteq f[N]
  <2> DEFINE Missing == {depth[x] : x \in {x \in B : value[x] \notin f[N]}}
  <2>1. CASE Missing # {}
    <3>1. Missing \in SUBSET Nat
      BY <1>1, <1>18 DEF Shape
    <3>2. PICK k \in Missing : \A j \in Missing : k <= j
      BY <2>1, <3>1, Least
    <3>3. PICK x \in B : value[x] \notin f[N] /\ depth[x] = k
      BY <3>2
    <3>4. x # n
      <4>1. \A j \in 0 .. N : d \in f[j]
        <5> DEFINE Bad == {j \in 0 .. N : d \notin f[j]}
        <5>1. CASE Bad # {}
          <6>1. Bad \in SUBSET Nat
            BY <1>4
          <6>2. PICK j \in Bad : \A h \in Bad : j <= h
            BY <5>1, <6>1, Least
          <6>3. j \in 0 .. N /\ d \notin f[j]
            BY <6>2
          <6>4. j # 0
            BY <1>10, <6>3
          <6>5. j - 1 \in 0 .. N /\ ~(j <= j - 1)
            BY <1>4, <6>3, <6>4
          <6>6. d \in f[j - 1] /\ f[j] = Grow(f[j - 1]) /\ f[j - 1] \in SUBSET Devs
            BY <1>10, <6>2, <6>3, <6>4, <6>5
          <6> QED
            BY <1>6, <6>3, <6>6
        <5> QED
          BY <5>1
      <4> QED
        BY <1>15, <3>3, <4>1 DEF d
    <3>5. parent[x] \in B
      BY <1>18, <3>3, <3>4
    <3>6. x \in Alive /\ x # Root /\ parent[x] \in Alive
      BY <1>1, <1>18, <3>3, <3>5, FiniteNodes DEF Shape
    <3>7. depth[x] = depth[parent[x]] + 1 /\ depth[parent[x]] \in Nat
      BY <1>1, <1>18, <3>6 DEF Shape
    <3>8. depth[parent[x]] \notin Missing
      <4> HIDE DEF Missing
      <4> QED
        BY <3>1, <3>2, <3>3, <3>7
    <3>9. value[parent[x]] \in f[N]
      BY <3>5, <3>8
    <3>10. value[x] \in DOMAIN under /\ under[value[x]] = value[parent[x]]
      BY <3>6 DEF ValuesOK
    <3>11. value[x] \in Grow(f[N])
      BY <3>9, <3>10 DEF Grow
    <3> QED
      BY <1>17, <3>3, <3>11
  <2>2. CASE Missing = {}
    BY <2>2
  <2> QED
    BY <2>1, <2>2
<1>21. f[N] = V
  BY <1>15, <1>19, <1>20
<1> QED
  BY <1>16, <1>21 DEF B, d

LEMMA SameValues ==
    ASSUME ValuesOK, Alive' = Alive, UNCHANGED <<root, parent, value, under>>
    PROVE  ValuesOK'
BY DEF ValuesOK

\* device_manager_insert, for a device that is not in the tree.
LEMMA InsertValues ==
    ASSUME ListInv, TreeInv, DevTypeOK, ValuesOK, root # Null,
           NEW d \in Devs, NEW p \in Devs, d \notin DOMAIN under, Insert(d, p)
    PROVE  /\ ValuesOK' /\ root' = root
           /\ value' \in [Nodes -> Devs \cup {Null}]
           /\ DOMAIN under' \subseteq DOMAIN under \cup {d}
           /\ Range(under') \subseteq Devs \cup {Null}
<1> DEFINE at == DeviceSearchNode(name[p])
<1>1. value \in [Nodes -> Devs \cup {Null}] /\ Range(under) \subseteq Devs \cup {Null}
  BY DEF DevTypeOK
<1>3. \/ UNCHANGED <<vars, value, under>>
      \/ \E n \in Nodes : /\ TreeNodeInsertChild(at, n)
                          /\ value' = [value EXCEPT ![n] = d]
                          /\ under' = [e \in DOMAIN under \cup {d} |->
                                          IF e = d THEN value[at] ELSE under[e]]
  BY DEF Insert
<1> HIDE DEF at
<1>4. CASE UNCHANGED <<vars, value, under>>
  <2>1. Alive' = Alive /\ UNCHANGED <<root, parent, value, under>>
    BY <1>4 DEF vars, treeVars, Alive
  <2> QED
    BY <1>1, <2>1, SameValues
<1>5. ASSUME NEW n \in Nodes, TreeNodeInsertChild(at, n),
             value' = [value EXCEPT ![n] = d],
             under' = [e \in DOMAIN under \cup {d} |->
                          IF e = d THEN value[at] ELSE under[e]]
      PROVE  /\ ValuesOK' /\ root' = root
             /\ value' \in [Nodes -> Devs \cup {Null}]
             /\ DOMAIN under' \subseteq DOMAIN under \cup {d}
             /\ Range(under') \subseteq Devs \cup {Null}
  <2>1. /\ at \in Alive /\ n \in fresh /\ parent' = [parent EXCEPT ![n] = at]
        /\ allocated' = allocated \cup {n} /\ root' = root
    BY <1>5 DEF TreeNodeInsertChild, Alive
  <2>2. FreshOK /\ parent \in [Nodes -> Nodes \cup {Null}]
    BY DEF TreeInv, ListInv, TreeTypeOK
  <2>3. PICK depth : Shape(depth)
    BY DEF TreeInv
  <2>4. Alive' = Alive \cup {n} /\ n \notin Alive /\ Alive \subseteq Nodes
    BY <2>1, <2>2 DEF Alive, FreshOK
  <2>5. /\ parent'[n] = at /\ \A x \in Alive : parent'[x] = parent[x]
        /\ value'[n] = d /\ \A x \in Alive : value'[x] = value[x]
    BY <1>1, <1>5, <2>1, <2>2, <2>4
  <2>6. /\ DOMAIN under' = DOMAIN under \cup {d} /\ under'[d] = value[at]
        /\ \A e \in DOMAIN under : e # d /\ under'[e] = under[e]
    BY <1>5
  <2>7. value[at] \in Devs
    BY <2>1 DEF ValuesOK
  <2>8. \A x \in Alive : value[x] \in DOMAIN under /\ value[x] \in Devs
    BY DEF ValuesOK
  <2>9. \A x \in Alive' : value'[x] \in Devs
    BY <2>4, <2>5, <2>8
  <2>10. \A x, y \in Alive' : value'[x] = value'[y] => x = y
    BY <2>4, <2>5, <2>6, <2>8 DEF ValuesOK
  <2>11. DOMAIN under' = {value'[x] : x \in Alive'}
    BY <2>4, <2>5, <2>6 DEF ValuesOK
  <2>12. Root \in Alive
    BY <2>3 DEF Shape
  <2>13. value'[Root] = dev_root /\ under'[dev_root] = Null
    BY <2>5, <2>6, <2>8, <2>12 DEF ValuesOK
  <2>14. ASSUME NEW x \in Alive', x # Root
         PROVE  under'[value'[x]] = value'[parent'[x]]
    <3>1. CASE x = n
      BY <2>1, <2>5, <2>6, <3>1
    <3>2. CASE x # n
      <4>1. x \in Alive /\ parent[x] \in Alive
        BY <2>3, <2>4, <2>14, <3>2 DEF Shape
      <4>2. under[value[x]] = value[parent[x]]
        BY <2>14, <4>1 DEF ValuesOK
      <4> QED
        BY <2>5, <2>6, <2>8, <4>1, <4>2
    <3> QED
      BY <3>1, <3>2
  <2>15. ValuesOK'
    BY <2>9, <2>10, <2>11, <2>13, <2>14 DEF ValuesOK
  <2>16. Range(under') \subseteq Devs \cup {Null}
    BY <1>1, <2>6, <2>7 DEF Range
  <2>17. value' \in [Nodes -> Devs \cup {Null}]
    BY <1>1, <1>5
  <2> QED
    BY <2>1, <2>6, <2>15, <2>16, <2>17
<1> QED
  BY <1>3, <1>4, <1>5

\* device_manager_remove: the branch goes, with its devices.
LEMMA RemoveValues ==
    ASSUME ListInv, TreeInv, DevTypeOK, ValuesOK,
           NEW d \in Devs, DeviceManagerRemove(d)
    PROVE  /\ ValuesOK' /\ root' = root
           /\ DOMAIN under' \subseteq DOMAIN under
           /\ Range(under') \subseteq Devs \cup {Null}
<1> DEFINE n == DeviceSearchTreeNode(d)
           B == Branch(list, n)
<1>1. /\ root # Null /\ d \in DOMAIN under \ {dev_root} /\ TreeNodeRemove(n)
      /\ under' = [e \in DOMAIN under \ Below(d) |-> under[e]] /\ value' = value
  BY DEF DeviceManagerRemove, Started
<1>2. n \in Alive /\ value[n] = d
  BY <1>1, AddressSearchIs
<1> HIDE DEF n
<1>3. /\ root' = root /\ parent' = parent /\ Alive' = Alive \ B
  BY <1>1 DEF TreeNodeRemove, Alive
<1>4. Below(d) = {value[x] : x \in B}
  BY <1>1, <1>2, BelowIs
<1>5. PICK depth : Shape(depth)
  BY <1>1 DEF TreeInv
<1>6. KidsOK
  BY DEF TreeInv
<1>7. BranchOK(B, n, depth)
  BY <1>2, <1>5, <1>6, BranchIs
<1> HIDE DEF B
<1>8. /\ n \in B /\ B \subseteq Alive /\ Alive \subseteq Nodes
      /\ \A c \in Alive : parent[c] \in B => c \in B
      /\ \A x \in B : x # n => parent[x] \in B
  BY <1>7 DEF BranchOK, Alive
<1>9. DOMAIN under' = {value[x] : x \in Alive \ B}
  <2>1. DOMAIN under' = DOMAIN under \ {value[x] : x \in B}
    BY <1>1, <1>4
  <2> QED
    BY <1>8, <2>1 DEF ValuesOK
<1>10. \A e \in DOMAIN under' : under'[e] = under[e] /\ e \in DOMAIN under
  BY <1>1
<1>11. Root \in Alive \ B
  <2>1. n # Root
    BY <1>1, <1>2 DEF ValuesOK
  <2> QED
    BY <1>5, <1>8, <2>1, FiniteNodes DEF Shape
<1>12. value[Root] = dev_root /\ under'[dev_root] = Null
  BY <1>1, <1>9, <1>10, <1>11 DEF ValuesOK
<1>13. \A x \in Alive \ B : x # Root => under'[value[x]] = value[parent[x]]
  BY <1>9, <1>10 DEF ValuesOK
<1>14. ValuesOK'
  BY <1>1, <1>3, <1>9, <1>12, <1>13 DEF ValuesOK
<1>15. Range(under') \subseteq Devs \cup {Null}
  BY <1>10 DEF Range, DevTypeOK
<1> QED
  BY <1>3, <1>10, <1>14, <1>15

LEMMA DevInitInv == DevInit => DevInv
<1> SUFFICES ASSUME DevInit PROVE DevInv
  OBVIOUS
<1>1. /\ root = Null /\ Alive = {}
      /\ value = [n \in Nodes |-> Null] /\ inserted = 0
      /\ status = [d \in Devs |-> "UNSET"] /\ under = [d \in {} |-> Null]
  BY DEF DevInit, Init, Alive
<1>2. DOMAIN under = {} /\ Range(under) = {}
  BY <1>1 DEF Range
<1>3. Len(Statics) \in Nat
  BY DevicesAssumption
<1> QED
  BY <1>1, <1>2, <1>3 DEF DevInv, DevTypeOK, ValuesOK, PendingOK, Statuses

LEMMA DevStepInv ==
    ASSUME ListInv, TreeInv, DevInv, [DevNext]_devAll
    PROVE  DevInv'
<1>1. DevTypeOK /\ ValuesOK /\ PendingOK
  BY DEF DevInv
<1>2. Len(Statics) \in Nat /\ inserted \in 0 .. Len(Statics)
  BY <1>1, DevicesAssumption DEF DevTypeOK
<1>3. /\ value \in [Nodes -> Devs \cup {Null}] /\ status \in [Devs -> Statuses]
      /\ DOMAIN under \subseteq Devs /\ Range(under) \subseteq Devs \cup {Null}
  BY <1>1 DEF DevTypeOK
<1>4. CASE DeviceManagerStart
  <2>1. /\ root = Null /\ root' = Root /\ parent' = parent /\ inserted = 0
        /\ allocated' = allocated \cup {Root} /\ Root \in fresh
        /\ value' = [value EXCEPT ![Root] = dev_root]
        /\ under' = [d \in {dev_root} |-> Null]
        /\ UNCHANGED <<inserted, status>>
    BY <1>4 DEF DeviceManagerStart, TreeSetRoot
  <2>2. Alive' = {Root} /\ dev_root \in Devs /\ Root # Null
    BY <2>1, FiniteNodes, DevicesAssumption DEF TreeInv, Alive
  <2>3. /\ DOMAIN under' = {dev_root} /\ under'[dev_root] = Null
        /\ Range(under') = {Null}
    BY <2>1 DEF Range
  <2>4. value'[Root] = dev_root /\ value' \in [Nodes -> Devs \cup {Null}]
    BY <1>3, <2>1, <2>2, FiniteNodes
  <2>5. ValuesOK'
    BY <2>1, <2>2, <2>3, <2>4 DEF ValuesOK
  <2>6. PendingOK'
    BY <2>1, <2>2, <2>3, DevicesAssumption DEF PendingOK
  <2>7. DevTypeOK'
    BY <1>2, <1>3, <2>1, <2>2, <2>3, <2>4 DEF DevTypeOK
  <2> QED
    BY <2>5, <2>6, <2>7 DEF DevInv
<1>5. CASE DeviceManagerInsertKernel
  <2> DEFINE k == inserted + 1
             d == Statics[k][1]
             p == Statics[k][2]
  <2>1. /\ root # Null /\ inserted < Len(Statics) /\ Insert(d, p)
        /\ inserted' = k /\ UNCHANGED status
    BY <1>5 DEF DeviceManagerInsertKernel
  <2>2. k \in 1 .. Len(Statics) /\ k > inserted
    BY <1>2, <2>1
  <2> HIDE DEF k
  <2>3. d \in Devs /\ p \in Devs /\ d \notin DOMAIN under
    BY <1>1, <2>2, DevicesAssumption DEF PendingOK
  <2>4. /\ ValuesOK' /\ root' = root
        /\ value' \in [Nodes -> Devs \cup {Null}]
        /\ DOMAIN under' \subseteq DOMAIN under \cup {d}
        /\ Range(under') \subseteq Devs \cup {Null}
    <3> HIDE DEF d, p
    <3> QED
      BY <1>1, <2>1, <2>3, InsertValues
  <2>5. PendingOK'
    <3>1. ASSUME NEW j \in 1 .. Len(Statics), j > k
          PROVE  Statics[j][1] \notin DOMAIN under'
      <4>1. j > inserted /\ j # k
        BY <1>2, <2>2, <3>1 DEF k
      <4>2. Statics[j][1] # d
        BY <2>2, <4>1, DevicesAssumption
      <4> QED
        BY <1>1, <2>4, <4>1, <4>2 DEF PendingOK
    <3> QED
      BY <2>1, <2>4, <3>1 DEF PendingOK
  <2>6. DevTypeOK'
    <3>1. inserted' \in 0 .. Len(Statics)
      BY <1>2, <2>1, <2>2
    <3> QED
      BY <1>3, <2>1, <2>3, <2>4, <3>1 DEF DevTypeOK
  <2> QED
    BY <2>4, <2>5, <2>6 DEF DevInv
<1>6. ASSUME NEW d \in Devs, NEW p \in Devs, DeviceManagerInsert(d, p)
      PROVE  DevInv'
  <2>1. /\ root # Null /\ inserted = Len(Statics) /\ d \notin DOMAIN under
        /\ Insert(d, p) /\ UNCHANGED <<inserted, status>>
    BY <1>6 DEF DeviceManagerInsert, Started
  <2>2. /\ ValuesOK' /\ root' = root
        /\ value' \in [Nodes -> Devs \cup {Null}]
        /\ DOMAIN under' \subseteq DOMAIN under \cup {d}
        /\ Range(under') \subseteq Devs \cup {Null}
    BY <1>1, <2>1, InsertValues
  <2>3. PendingOK'
    BY <1>2, <2>1, <2>2 DEF PendingOK
  <2>4. DevTypeOK'
    BY <1>2, <1>3, <2>1, <2>2 DEF DevTypeOK
  <2> QED
    BY <2>2, <2>3, <2>4 DEF DevInv
<1>7. ASSUME NEW d \in Devs, DeviceManagerRemove(d)
      PROVE  DevInv'
  <2>1. /\ root # Null /\ inserted = Len(Statics)
        /\ UNCHANGED <<value, inserted, status>>
    BY <1>7 DEF DeviceManagerRemove, Started
  <2>2. /\ ValuesOK' /\ root' = root /\ DOMAIN under' \subseteq DOMAIN under
        /\ Range(under') \subseteq Devs \cup {Null}
    BY <1>1, <1>7, RemoveValues
  <2>3. PendingOK'
    BY <1>2, <2>1, <2>2 DEF PendingOK
  <2>4. DevTypeOK'
    BY <1>2, <1>3, <2>1, <2>2 DEF DevTypeOK
  <2> QED
    BY <2>2, <2>3, <2>4 DEF DevInv
<1>8. ASSUME Alive' = Alive, UNCHANGED <<root, parent, value, inserted, under>>,
             status' \in [Devs -> Statuses]
      PROVE  DevInv'
  <2>1. ValuesOK'
    BY <1>1, <1>8, SameValues
  <2> QED
    BY <1>1, <1>8, <2>1 DEF DevInv, DevTypeOK, PendingOK
<1>9. ASSUME NEW d \in Devs, DeviceStart(d) \/ DeviceStop(d)
      PROVE  DevInv'
  <2>1. /\ UNCHANGED <<vars, value, inserted, under>>
        /\ \E v \in Statuses : status' = [status EXCEPT ![d] = v]
    BY <1>9 DEF DeviceStart, DeviceStop, Statuses
  <2>2. Alive' = Alive /\ UNCHANGED <<root, parent, value, inserted, under>>
    BY <2>1 DEF vars, treeVars, Alive
  <2>3. status' \in [Devs -> Statuses]
    BY <1>3, <2>1
  <2> QED
    BY <1>8, <2>2, <2>3
<1>10. CASE StackStep /\ UNCHANGED devVars
  <2>1. TreeKept
    BY <1>10, StackMoves
  <2>2. Alive' = Alive /\ UNCHANGED <<root, parent, value, inserted, under, status>>
    BY <1>10, <2>1 DEF TreeKept, treeVars, devVars, Alive
  <2> QED
    BY <1>3, <1>8, <2>2
<1>11. CASE UNCHANGED devAll
  <2>1. Alive' = Alive /\ UNCHANGED <<root, parent, value, inserted, under, status>>
    BY <1>11 DEF devAll, vars, treeVars, devVars, Alive
  <2> QED
    BY <1>3, <1>8, <2>1
<1> QED
  BY <1>4, <1>5, <1>6, <1>7, <1>9, <1>10, <1>11 DEF DevNext

\* A device that was put into the tree, and neither removed nor placed below one
\* that was, is found by device_search_tree_node, below the node of the device
\* that device_manager_insert found; no other device is.  device_search_node
\* finds such a device of the name it is given exactly if there is one.  For
\* every set of devices and of tree nodes, and all names, equal ones included.
THEOREM SearchFindsDevices == DevSpec => []DevicesFound
<1>1. DevSpec => [](ListInv /\ TreeInv)
  BY ManagerUsesTree, TreeInvariant, PTL
<1>2. ListInv /\ TreeInv /\ DevInv /\ [DevNext]_devAll => DevInv'
  BY DevStepInv
<1>3. ListInv /\ TreeInv /\ DevInv => DevicesFound
  <2> SUFFICES ASSUME ListInv, TreeInv, DevInv PROVE DevicesFound
    OBVIOUS
  <2>1. DevTypeOK /\ ValuesOK /\ DOMAIN under \subseteq Devs
    BY DEF DevInv, DevTypeOK
  <2>2. ASSUME root # Null, NEW d \in Devs
        PROVE  LET n     == DeviceSearchTreeNode(d)
                   m     == DeviceSearchNode(name[d])
                   Named == {e \in DOMAIN under : name[e] = name[d]}
               IN  /\ d \in DOMAIN under <=> n # Null
                   /\ n # Null => value[n] = d
                   /\ Named # {} <=> m # Null
                   /\ m # Null => value[m] \in Named
                   /\ d \in DOMAIN under \ {dev_root} => value[parent[n]] = under[d]
    <3> DEFINE n == DeviceSearchTreeNode(d)
               m == DeviceSearchNode(name[d])
               Named == {e \in DOMAIN under : name[e] = name[d]}
    <3>1. \/ n \in Alive /\ value[n] = d /\ d \in DOMAIN under
          \/ n = Null /\ d \notin DOMAIN under
      BY <2>1, <2>2, AddressSearchIs
    <3>2. (m \in Alive /\ value[m] \in Named) \/ (m = Null /\ Named = {})
      BY <2>1, <2>2, NameSearchIs
    <3> HIDE DEF n, m, Named
    <3>3. (n \in Alive => n # Null) /\ (m \in Alive => m # Null)
      BY FiniteNodes DEF Alive
    <3>4. n \in Alive /\ d # dev_root /\ value[n] = d => value[parent[n]] = under[d]
      BY <2>1, <2>2 DEF ValuesOK
    <3>5. d \in DOMAIN under <=> n # Null
      BY <3>1, <3>3
    <3>6. n # Null => value[n] = d
      BY <3>1
    <3>7. (Named # {} <=> m # Null) /\ (m # Null => value[m] \in Named)
      BY <3>2, <3>3
    <3>8. d \in DOMAIN under \ {dev_root} => value[parent[n]] = under[d]
      BY <3>1, <3>4
    <3> QED
      BY <3>5, <3>6, <3>7, <3>8 DEF n, m, Named
  <2> QED
    BY <2>1, <2>2 DEF DevicesFound
<1> QED
  BY <1>1, <1>2, <1>3, DevInitInv, PTL DEF DevSpec

=============================================================================
