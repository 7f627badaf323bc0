----------------------------- MODULE VfsProofs ------------------------------
(***************************************************************************)
(* Theorems about the virtual file system and the file systems under it,   *)
(* for every set of names, every contents of the file systems and every    *)
(* path.                                                                   *)
(***************************************************************************)
EXTENDS FileSystems, FiniteSetTheorems, TLAPS

-----------------------------------------------------------------------------
(* Numbers and sequences.                                                  *)

\* A set of numbers that is not empty has a least element.
LEMMA Least ==
    ASSUME NEW T \in SUBSET Nat, T # {}
    PROVE  \E n \in T : \A k \in T : n <= k
<1>1. \E n \in T : \A k \in T : ~(<<k, n>> \in OpToRel(<, Nat))
  BY WFMin, NatLessThanWellFounded
<1>2. \A n, k \in Nat : k < n => <<k, n>> \in OpToRel(<, Nat)
  BY Zenon DEF OpToRel
<1>3. \E n \in T : \A k \in T : ~(k < n)
  BY <1>1, <1>2, Zenon
<1> QED
  BY <1>3

\* One below a bound has a largest.
LEMMA Largest ==
    ASSUME NEW n \in Nat, NEW T \in SUBSET (0 .. n), T # {}
    PROVE  Max(T) \in T /\ \A k \in T : k <= Max(T)
<1> DEFINE U == {n - k : k \in T}
<1>1. U \in SUBSET Nat /\ U # {}
  <2>1. \A k \in T : n - k \in Nat
    OBVIOUS
  <2> QED
    BY <2>1
<1>2. PICK u \in U : \A v \in U : u <= v
  BY <1>1, Least
<1>3. PICK x \in T : u = n - x
  BY <1>2
<1>4. \A k \in T : x >= k
  BY <1>2, <1>3
<1>5. \E m \in T : \A k \in T : m >= k
  BY <1>4
<1>6. Max(T) \in T /\ \A k \in T : Max(T) >= k
  BY <1>5 DEF Max
<1> QED
  BY <1>6

LEMMA MaxIs ==
    ASSUME NEW T \in SUBSET Nat, NEW m \in T, \A k \in T : k <= m
    PROVE  Max(T) = m
<1>1. \A k \in T : m >= k
  OBVIOUS
<1>2. Max(T) \in T /\ \A k \in T : Max(T) >= k
  BY <1>1 DEF Max
<1>3. Max(T) \in Nat /\ m \in Nat /\ Max(T) <= m /\ Max(T) >= m
  BY <1>2
<1> HIDE DEF Max
<1> QED
  BY <1>3

\* Two functions that start alike and go on alike are alike.
LEMMA SameSteps ==
    ASSUME NEW a \in Nat, NEW b \in Nat, NEW f, NEW g,
           f[a] = g[a],
           \A k \in a .. b : k # a /\ f[k - 1] = g[k - 1] => f[k] = g[k]
    PROVE  \A k \in a .. b : f[k] = g[k]
<1> DEFINE Bad == {k \in a .. b : f[k] # g[k]}
<1>1. CASE Bad # {}
  <2>1. Bad \in SUBSET Nat
    OBVIOUS
  <2>2. PICK k \in Bad : \A j \in Bad : k <= j
    BY <1>1, <2>1, Least
  <2>3. k # a /\ k \in a .. b /\ k - 1 \in a .. b /\ k - 1 \notin Bad
    BY <2>2
  <2> QED
    BY <2>2, <2>3
<1> QED
  BY <1>1

\* f and g, from 0 to b, start alike and go on alike.
Alike(f, g, b) ==
    /\ f[0] = g[0]
    /\ \A k \in 0 .. b : k # 0 /\ f[k - 1] = g[k - 1] => f[k] = g[k]

LEMMA SameFrom0 ==
    ASSUME NEW b \in Nat, NEW f, NEW g, Alike(f, g, b)
    PROVE  f[b] = g[b]
<1>1. 0 \in Nat /\ b \in 0 .. b
  OBVIOUS
<1> QED
  BY <1>1, SameSteps DEF Alike

LEMMA SeqsEqual ==
    ASSUME NEW S, NEW p \in Seq(S), NEW q \in Seq(S), Len(p) = Len(q),
           \A k \in 1 .. Len(p) : p[k] = q[k]
    PROVE  p = q
OBVIOUS

\* The first k elements.
LEMMA Prefix ==
    ASSUME NEW S, NEW p \in Seq(S), NEW k \in 0 .. Len(p)
    PROVE  /\ SubSeq(p, 1, k) \in Seq(S) /\ Len(SubSeq(p, 1, k)) = k
           /\ \A j \in 1 .. k : SubSeq(p, 1, k)[j] = p[j]
OBVIOUS

LEMMA PrefixOfPrefix ==
    ASSUME NEW S, NEW p \in Seq(S), NEW k \in 0 .. Len(p), NEW j \in 0 .. k
    PROVE  SubSeq(SubSeq(p, 1, k), 1, j) = SubSeq(p, 1, j)
<1> DEFINE q == SubSeq(p, 1, k)
<1>0. Len(p) \in Nat
  OBVIOUS
<1>1. q \in Seq(S) /\ Len(q) = k /\ \A i \in 1 .. k : q[i] = p[i]
  BY Prefix
<1>2. j \in 0 .. Len(p) /\ j \in 0 .. Len(q)
  BY <1>0, <1>1
<1> HIDE DEF q
<1>3. /\ SubSeq(q, 1, j) \in Seq(S) /\ Len(SubSeq(q, 1, j)) = j
      /\ \A i \in 1 .. j : SubSeq(q, 1, j)[i] = q[i]
  BY <1>1, <1>2, Prefix
<1>4. /\ SubSeq(p, 1, j) \in Seq(S) /\ Len(SubSeq(p, 1, j)) = j
      /\ \A i \in 1 .. j : SubSeq(p, 1, j)[i] = p[i]
  BY <1>2, Prefix
<1>5. \A i \in 1 .. j : i \in 1 .. k
  BY <1>0
<1>6. SubSeq(q, 1, j) = SubSeq(p, 1, j)
  BY <1>1, <1>3, <1>4, <1>5, SeqsEqual
<1> QED
  BY <1>6 DEF q

LEMMA FrontOfPrefix ==
    ASSUME NEW S, NEW p \in Seq(S), NEW k \in 1 .. Len(p)
    PROVE  Front(SubSeq(p, 1, k)) = SubSeq(p, 1, k - 1) /\ SubSeq(p, 1, k) # <<>>
<1>1. Len(p) \in Nat /\ k \in 0 .. Len(p) /\ k - 1 \in 0 .. k
  OBVIOUS
<1>2. Len(SubSeq(p, 1, k)) = k
  BY <1>1, Prefix
<1> QED
  BY <1>1, <1>2, PrefixOfPrefix DEF Front

-----------------------------------------------------------------------------
(* get_mount_point.                                                        *)

\* Every entry of the mount tree has the one above it.
TreeOK ==
    /\ <<>> \in DOMAIN file
    /\ \A q \in DOMAIN file :
          /\ q \in Seq(Pieces) /\ file[q] \in FsNodes \cup {Null}
          /\ q # <<>> => Front(q) \in DOMAIN file

RootOK == vfs_root_node = file[<<>>]

\* The depths of the mounts among the first k entries on a path.
MountedTo(path, k) ==
    {j \in 0 .. k : /\ SubSeq(path, 1, j) \in DOMAIN file
                    /\ file[SubSeq(path, 1, j)] # Null}

\* What the loop of get_mount_point knows after k rounds.
After(path, k) ==
    LET mounted == MountedTo(path, k)
    IN [depth |-> IF mounted = {} THEN 0 ELSE Max(mounted),
        last |-> IF mounted = {} THEN Null ELSE file[SubSeq(path, 1, Max(mounted))],
        found |-> SubSeq(path, 1, k) \in DOMAIN file]

LEMMA MountedAtRoot ==
    ASSUME TreeOK, NEW path \in Seq(Pieces)
    PROVE  MountedTo(path, 0) = IF file[<<>>] = Null THEN {} ELSE {0}
<1>1. SubSeq(path, 1, 0) = <<>> /\ <<>> \in DOMAIN file
  BY DEF TreeOK
<1>2. \A j : j \in 0 .. 0 <=> j = 0
  OBVIOUS
<1>3. \A j : j \in MountedTo(path, 0) <=> j = 0 /\ file[<<>>] # Null
  BY <1>1, <1>2 DEF MountedTo
<1> QED
  BY <1>3

LEMMA NothingMounted ==
    ASSUME TreeOK, RootOK, NEW path \in Seq(Pieces)
    PROVE  After(path, 0) = [depth |-> 0, last |-> vfs_root_node, found |-> TRUE]
<1>1. SubSeq(path, 1, 0) = <<>>
  OBVIOUS
<1>2. CASE file[<<>>] = Null
  <2>1. MountedTo(path, 0) = {}
    BY <1>2, MountedAtRoot
  <2> QED
    BY <1>1, <1>2, <2>1 DEF After, TreeOK, RootOK
<1>3. CASE file[<<>>] # Null
  <2>1. MountedTo(path, 0) = {0}
    BY <1>3, MountedAtRoot
  <2>2. Max({0}) = 0
    BY MaxIs
  <2> QED
    BY <1>1, <1>3, <2>1, <2>2 DEF After, TreeOK, RootOK
<1> QED
  BY <1>2, <1>3

LEMMA RoundOfWalk ==
    ASSUME TreeOK, NEW path \in Seq(Pieces), NEW k \in 1 .. Len(path)
    PROVE  Walked(After(path, k - 1), path, k) = After(path, k)
<1> DEFINE at == SubSeq(path, 1, k)
           so == After(path, k - 1)
<1>1. Len(path) \in Nat /\ k - 1 \in 0 .. k /\ k \in Nat /\ k - 1 \in Nat
  OBVIOUS
<1>2. so.found <=> SubSeq(path, 1, k - 1) \in DOMAIN file
  BY DEF After
<1>3. at \in DOMAIN file => SubSeq(path, 1, k - 1) \in DOMAIN file
  BY FrontOfPrefix DEF TreeOK
<1>4. so = [depth |-> so.depth, last |-> so.last, found |-> so.found]
  BY DEF After
<1>5. CASE at \notin DOMAIN file
  <2>1. MountedTo(path, k) = MountedTo(path, k - 1)
    BY <1>1, <1>5 DEF MountedTo
  <2>2. Walked(so, path, k) = [so EXCEPT !.found = FALSE]
    BY <1>5 DEF Walked
  <2>3. After(path, k) = [depth |-> so.depth, last |-> so.last, found |-> FALSE]
    <3>1. /\ so.depth = IF MountedTo(path, k - 1) = {} THEN 0
                        ELSE Max(MountedTo(path, k - 1))
          /\ so.last = IF MountedTo(path, k - 1) = {} THEN Null
                       ELSE file[SubSeq(path, 1, Max(MountedTo(path, k - 1)))]
      BY DEF After
    <3>2. (at \in DOMAIN file) = FALSE
      BY <1>5
    <3> HIDE DEF so, at
    <3>3. After(path, k) =
            [depth |-> IF MountedTo(path, k - 1) = {} THEN 0
                       ELSE Max(MountedTo(path, k - 1)),
             last |-> IF MountedTo(path, k - 1) = {} THEN Null
                      ELSE file[SubSeq(path, 1, Max(MountedTo(path, k - 1)))],
             found |-> FALSE]
      BY <2>1, <3>2, Zenon DEF After, at
    <3> QED
      BY <3>1, <3>3, Zenon
  <2> HIDE DEF so
  <2> QED
    BY <1>4, <2>2, <2>3 DEF so
<1>6. CASE at \in DOMAIN file /\ file[at] = Null
  <2>1. MountedTo(path, k) = MountedTo(path, k - 1)
    BY <1>1, <1>6 DEF MountedTo
  <2>2. Walked(so, path, k) = so
    BY <1>2, <1>3, <1>6 DEF Walked
  <2> QED
    BY <1>3, <1>6, <2>1, <2>2 DEF After
<1>7. CASE at \in DOMAIN file /\ file[at] # Null
  <2>1. k \in MountedTo(path, k) /\ MountedTo(path, k) \in SUBSET Nat
        /\ \A j \in MountedTo(path, k) : j <= k
    BY <1>1, <1>7 DEF MountedTo
  <2>2. Max(MountedTo(path, k)) = k
    BY <2>1, MaxIs
  <2>3. Walked(so, path, k) = [so EXCEPT !.depth = k, !.last = file[at]]
    BY <1>2, <1>3, <1>7 DEF Walked
  <2>4. so.found = TRUE
    BY <1>3, <1>7 DEF After
  <2>5. After(path, k) = [depth |-> k, last |-> file[at], found |-> TRUE]
    BY <1>7, <2>1, <2>2 DEF After
  <2> HIDE DEF so, at
  <2> QED
    BY <1>4, <2>3, <2>4, <2>5 DEF so
<1> QED
  BY <1>5, <1>6, <1>7

\* get_mount_point finds the deepest mount on the path.
LEMMA MountPointFound ==
    ASSUME TreeOK, RootOK, NEW path \in Seq(Pieces)
    PROVE  GetMountPoint(path) = After(path, Len(path))
<1> DEFINE n == Len(path)
           first == [depth |-> 0, last |-> vfs_root_node, found |-> TRUE]
           Eq(f) == f = [k \in 0 .. n |-> IF k = 0 THEN first
                                          ELSE Walked(f[k - 1], path, k)]
           w == [k \in 0 .. n |-> After(path, k)]
           walk == CHOOSE f : Eq(f)
<1>1. n \in Nat
  OBVIOUS
<1>2. Eq(w)
  <2>1. \A k \in 0 .. n : After(path, k) = IF k = 0 THEN first
                                           ELSE Walked(w[k - 1], path, k)
    <3> SUFFICES ASSUME NEW k \in 0 .. n
                 PROVE  After(path, k) = IF k = 0 THEN first
                                         ELSE Walked(w[k - 1], path, k)
      OBVIOUS
    <3>1. CASE k = 0
      BY <3>1, NothingMounted
    <3>2. CASE k # 0
      <4>1. k \in 1 .. n /\ k - 1 \in 0 .. n
        BY <1>1, <3>2
      <4>2. w[k - 1] = After(path, k - 1)
        BY <4>1
      <4> QED
        BY <3>2, <4>1, <4>2, RoundOfWalk
    <3> QED
      BY <3>1, <3>2
  <2> QED
    BY <2>1
<1>3. Eq(walk)
  <2> HIDE DEF Eq
  <2> QED
    BY <1>2
<1>4. Alike(walk, w, n)
  <2> HIDE DEF walk, w
  <2>1. walk[0] = w[0]
    BY <1>1, <1>2, <1>3
  <2>2. ASSUME NEW k \in 0 .. n, k # 0, walk[k - 1] = w[k - 1]
        PROVE  walk[k] = w[k]
    <3>1. walk[k] = Walked(walk[k - 1], path, k) /\ w[k] = Walked(w[k - 1], path, k)
      BY <1>2, <1>3, <2>2
    <3> QED
      BY <2>2, <3>1
  <2> QED
    BY <2>1, <2>2 DEF Alike
<1>5. GetMountPoint(path) = walk[n]
  BY DEF GetMountPoint
<1>6. w[n] = After(path, n)
  BY <1>1
<1> HIDE DEF walk, w, n
<1>7. walk[n] = w[n]
  BY <1>1, <1>4, SameFrom0
<1> QED
  BY <1>5, <1>6, <1>7 DEF n

\* kopen returns what the deepest mount on the path makes of the rest.
LEMMA KopenIs ==
    ASSUME TreeOK, RootOK, NEW path \in Seq(Pieces), Null \notin FsNodes
    PROVE  Kopen(path) = Resolved(path)
<1> DEFINE n == Len(path)
           mounted == MountedTo(path, n)
<1>1. n \in Nat /\ mounted \in SUBSET (0 .. n)
  BY DEF MountedTo
<1>2. Resolved(path) = IF mounted = {} THEN Junk
                       ELSE FindFrom(path, Max(mounted),
                                     file[SubSeq(path, 1, Max(mounted))])
  BY DEF Resolved, MountedTo
<1>3. mounted # {} => /\ Max(mounted) \in mounted
                      /\ file[SubSeq(path, 1, Max(mounted))] # Null
  <2>1. mounted # {} => Max(mounted) \in mounted
    BY <1>1, Largest
  <2> HIDE DEF mounted
  <2> QED
    BY <2>1 DEF mounted, MountedTo
<1>4. CASE path # <<>>
  <2>1. /\ GetMountPoint(path).last =
              IF mounted = {} THEN Null ELSE file[SubSeq(path, 1, Max(mounted))]
        /\ mounted # {} => GetMountPoint(path).depth = Max(mounted)
    BY MountPointFound DEF After
  <2> HIDE DEF mounted
  <2> QED
    BY <1>2, <1>3, <1>4, <2>1 DEF Kopen
<1>5. CASE path = <<>>
  <2>1. n = 0 /\ SubSeq(path, 1, 0) = <<>>
    BY <1>5
  <2>2. CASE file[<<>>] = Null
    <3>1. mounted = {}
      BY <2>1, <2>2, MountedAtRoot
    <3> QED
      BY <1>2, <1>5, <2>2, <3>1 DEF Kopen, RootOK
  <2>3. CASE file[<<>>] # Null
    <3>1. mounted = {0}
      BY <2>1, <2>3, MountedAtRoot
    <3>2. Max({0}) = 0
      BY MaxIs
    <3>3. FindFrom(path, 0, file[<<>>]) = file[<<>>]
      <4> DEFINE F(f) == f = [k \in 0 .. 0 |-> IF k = 0 THEN file[<<>>]
                                    ELSE FinddirVfs(f[k - 1], path[k])]
                 g == [k \in 0 .. 0 |-> file[<<>>]]
                 h == CHOOSE f : F(f)
      <4>1. F(g)
        OBVIOUS
      <4>2. F(h)
        <5> HIDE DEF F
        <5> QED
          BY <4>1
      <4>3. FindFrom(path, 0, file[<<>>]) = h[0]
        BY <2>1 DEF FindFrom, Found
      <4> HIDE DEF h
      <4> QED
        BY <4>2, <4>3
    <3>4. Resolved(path) = file[<<>>]
      BY <1>2, <2>1, <3>1, <3>2, <3>3
    <3> QED
      BY <1>5, <2>3, <3>4 DEF Kopen, RootOK
  <2> QED
    BY <2>2, <2>3
<1> QED
  BY <1>4, <1>5

-----------------------------------------------------------------------------
(* Counting.                                                               *)

\* How many members of A lie from i to j.
Count(A, i, j) == Cardinality(A \cap (i .. j))

LEMMA CountType ==
    ASSUME NEW A, NEW i \in Nat, NEW j \in Nat
    PROVE  IsFiniteSet(A \cap (i .. j)) /\ Count(A, i, j) \in Nat
<1>1. IsFiniteSet(i .. j)
  BY FS_Interval
<1>2. IsFiniteSet(A \cap (i .. j))
  BY <1>1, FS_Intersection
<1> QED
  BY <1>2, FS_CardinalityType DEF Count

LEMMA CountNone ==
    ASSUME NEW A, NEW i \in Nat, NEW j \in Nat, j < i
    PROVE  Count(A, i, j) = 0
<1>1. A \cap (i .. j) = {}
  OBVIOUS
<1> QED
  BY <1>1, FS_EmptySet DEF Count

LEMMA CountStep ==
    ASSUME NEW A, NEW i \in Nat, NEW j \in Nat, j # 0, i <= j
    PROVE  Count(A, i, j) = Count(A, i, j - 1) + IF j \in A THEN 1 ELSE 0
<1> DEFINE B == A \cap (i .. (j - 1))
<1>1. j - 1 \in Nat
  OBVIOUS
<1>2. IsFiniteSet(B) /\ Cardinality(B) \in Nat
  BY <1>1, CountType DEF Count
<1>3. j \notin B
  OBVIOUS
<1>4. CASE j \in A
  <2>1. A \cap (i .. j) = B \cup {j}
    BY <1>4
  <2> HIDE DEF B
  <2>2. Cardinality(B \cup {j}) = Cardinality(B) + 1
    BY <1>2, <1>3, FS_AddElement
  <2> QED
    BY <1>4, <2>1, <2>2 DEF Count, B
<1>5. CASE j \notin A
  <2>1. A \cap (i .. j) = B
    BY <1>5
  <2>2. Count(A, i, j) = Cardinality(B) /\ Count(A, i, j - 1) = Cardinality(B)
    BY <2>1, Zenon DEF Count
  <2> QED
    BY <1>2, <1>5, <2>2
<1> QED
  BY <1>4, <1>5

\* Splitting off the first.
LEMMA CountAbove ==
    ASSUME NEW A, NEW i \in Nat, NEW j \in Nat, i <= j, i \in A
    PROVE  Count(A, i, j) = Count(A, i + 1, j) + 1
<1> DEFINE B == A \cap ((i + 1) .. j)
<1>1. i + 1 \in Nat
  OBVIOUS
<1>2. IsFiniteSet(B) /\ Cardinality(B) \in Nat
  BY <1>1, CountType DEF Count
<1>3. i \notin B /\ A \cap (i .. j) = B \cup {i}
  OBVIOUS
<1> HIDE DEF B
<1>4. Cardinality(B \cup {i}) = Cardinality(B) + 1
  BY <1>2, <1>3, FS_AddElement
<1> QED
  BY <1>3, <1>4 DEF Count, B

\* The elements of a finite set of positive numbers have the ranks 1, 2, ...
LEMMA RankExists ==
    ASSUME NEW n \in Nat, NEW T \in SUBSET (1 .. n), NEW k \in 1 .. Cardinality(T),
           Cardinality(T) \in Nat
    PROVE  \E i \in T : Count(T, 1, i) = k
<1> DEFINE Reached == {i \in 0 .. n : k <= Count(T, 1, i)}
<1>1. Count(T, 1, n) = Cardinality(T)
  <2>1. T \cap (1 .. n) = T
    OBVIOUS
  <2> QED
    BY <2>1 DEF Count
<1>2. Reached \in SUBSET Nat /\ n \in Reached
  BY <1>1
<1>3. PICK i \in Reached : \A j \in Reached : i <= j
  BY <1>2, Least
<1>4. Count(T, 1, 0) = 0
  BY CountNone
<1>5. i \in Nat /\ i # 0 /\ 1 <= i /\ i - 1 \in 0 .. n /\ i - 1 \in Nat
  BY <1>3, <1>4
<1>6. Count(T, 1, i) = Count(T, 1, i - 1) + IF i \in T THEN 1 ELSE 0
  BY <1>5, CountStep
<1>7. Count(T, 1, i) \in Nat /\ Count(T, 1, i - 1) \in Nat
  BY <1>5, CountType
<1>8. ~(k <= Count(T, 1, i - 1))
  BY <1>3, <1>5
<1>9. k <= Count(T, 1, i)
  BY <1>3
<1> HIDE DEF Reached
<1>10. i \in T /\ Count(T, 1, i) = k
  BY <1>6, <1>7, <1>8, <1>9
<1> QED
  BY <1>10

LEMMA RankGrows ==
    ASSUME NEW T \in SUBSET Nat, NEW i \in T, NEW j \in T, i < j
    PROVE  Count(T, 1, i) < Count(T, 1, j)
<1> DEFINE A == T \cap (1 .. i)
           B == T \cap (1 .. j)
<1>1. IsFiniteSet(A) /\ IsFiniteSet(B) /\ Cardinality(A) \in Nat /\ Cardinality(B) \in Nat
  BY CountType DEF Count
<1>2. A \in SUBSET B /\ j \in B /\ j \notin A
  OBVIOUS
<1> HIDE DEF A, B
<1>3. Cardinality(A) <= Cardinality(B) /\ Cardinality(A) # Cardinality(B)
  BY <1>1, <1>2, FS_Subset
<1> QED
  BY <1>1, <1>3 DEF Count, A, B

LEMMA RankUnique ==
    ASSUME NEW T \in SUBSET Nat, NEW i \in T, NEW j \in T,
           Count(T, 1, i) = Count(T, 1, j)
    PROVE  i = j
<1>1. i \in Nat /\ j \in Nat /\ Count(T, 1, i) \in Nat /\ Count(T, 1, j) \in Nat
  BY CountType
<1>2. CASE i < j
  BY <1>1, <1>2, RankGrows
<1>3. CASE j < i
  BY <1>1, <1>3, RankGrows
<1> QED
  BY <1>1, <1>2, <1>3

-----------------------------------------------------------------------------
(* canonicalize_path.                                                      *)

\* The member of rank k.
Nth(T, k) == CHOOSE i \in T : Count(T, 1, i) = k

LEMMA NthIs ==
    ASSUME NEW T \in SUBSET Nat, NEW i \in T
    PROVE  Nth(T, Count(T, 1, i)) = i
<1> DEFINE j == Nth(T, Count(T, 1, i))
<1>1. j \in T /\ Count(T, 1, j) = Count(T, 1, i)
  BY DEF Nth
<1> HIDE DEF j
<1>2. j = i
  BY <1>1, RankUnique
<1> QED
  BY <1>2 DEF j

LEMMA NthExists ==
    ASSUME NEW n \in Nat, NEW T \in SUBSET (1 .. n), NEW k \in 1 .. Cardinality(T),
           Cardinality(T) \in Nat
    PROVE  Nth(T, k) \in T /\ Count(T, 1, Nth(T, k)) = k
<1>1. \E i \in T : Count(T, 1, i) = k
  BY RankExists
<1> QED
  BY <1>1 DEF Nth

LEMMA SizeType ==
    ASSUME NEW n \in Nat, NEW T \in SUBSET (1 .. n)
    PROVE  IsFiniteSet(T) /\ Cardinality(T) \in Nat /\ Count(T, 1, n) = Cardinality(T)
<1>1. T \cap (1 .. n) = T
  OBVIOUS
<1> QED
  BY <1>1, CountType DEF Count

LEMMA PickedIs ==
    ASSUME NEW pieces, NEW T
    PROVE  Picked(pieces, T) = [k \in 1 .. Cardinality(T) |-> pieces[Nth(T, k)]]
BY DEF Picked, Nth, Count

LEMMA PickedType ==
    ASSUME NEW pieces, NEW n \in Nat, NEW T \in SUBSET (1 .. n), NEW S,
           \A i \in T : pieces[i] \in S
    PROVE  Picked(pieces, T) \in Seq(S) /\ Len(Picked(pieces, T)) = Cardinality(T)
<1> DEFINE c == Cardinality(T)
           s == [k \in 1 .. c |-> pieces[Nth(T, k)]]
<1>1. c \in Nat
  BY SizeType
<1>2. \A k \in 1 .. c : pieces[Nth(T, k)] \in S
  BY <1>1, NthExists
<1> HIDE DEF c
<1>3. s \in Seq(S) /\ Len(s) = c
  BY <1>1, <1>2
<1> QED
  BY <1>3, PickedIs DEF c

\* A name behind all others comes last.
LEMMA PickedAppend ==
    ASSUME NEW pieces, NEW m \in Nat, m # 0, NEW T \in SUBSET (1 .. (m - 1)), NEW S,
           \A i \in T : pieces[i] \in S, pieces[m] \in S
    PROVE  Picked(pieces, T \cup {m}) = Append(Picked(pieces, T), pieces[m])
<1> DEFINE c == Cardinality(T)
           U == T \cup {m}
           p == Picked(pieces, T)
           q == Picked(pieces, U)
<1>1. /\ m - 1 \in Nat /\ T \in SUBSET Nat /\ U \in SUBSET Nat /\ m \notin T
      /\ U \in SUBSET (1 .. m) /\ m \in U
  OBVIOUS
<1>2. c \in Nat /\ IsFiniteSet(T)
  BY <1>1, SizeType
<1>3. Cardinality(U) = c + 1
  BY <1>1, <1>2, FS_AddElement
<1>4. p \in Seq(S) /\ Len(p) = c
  BY <1>1, PickedType
<1>5. \A i \in U : pieces[i] \in S
  OBVIOUS
<1>6. q \in Seq(S) /\ Len(q) = c + 1
  BY <1>1, <1>3, <1>5, PickedType
<1>7. ASSUME NEW k \in 1 .. c PROVE q[k] = p[k]
  <2> DEFINE i == Nth(T, k)
  <2>1. i \in T /\ Count(T, 1, i) = k
    BY <1>1, <1>2, NthExists
  <2> HIDE DEF i
  <2>2. U \cap (1 .. i) = T \cap (1 .. i)
    <3>1. i \in Nat /\ i < m
      BY <1>1, <2>1
    <3>2. m \notin 1 .. i
      BY <3>1
    <3> QED
      BY <3>2, Zenon
  <2> HIDE DEF U
  <2>3. Count(U, 1, i) = k /\ i \in U
    BY <2>1, <2>2 DEF Count, U
  <2>4. Nth(U, k) = i
    BY <1>1, <2>3, NthIs
  <2>5. q = [x \in 1 .. (c + 1) |-> pieces[Nth(U, x)]]
    BY <1>3, PickedIs
  <2>6. p = [x \in 1 .. c |-> pieces[Nth(T, x)]]
    BY PickedIs
  <2>7. k \in 1 .. (c + 1)
    BY <1>2
  <2> HIDE DEF p, q, c
  <2> QED
    BY <2>4, <2>5, <2>6, <2>7 DEF i
<1>8. q[c + 1] = pieces[m]
  <2> HIDE DEF U
  <2>1. Count(U, 1, m) = c + 1
    BY <1>1, <1>3, SizeType
  <2>2. Nth(U, c + 1) = m
    BY <1>1, <2>1, NthIs
  <2>3. q = [x \in 1 .. (c + 1) |-> pieces[Nth(U, x)]]
    BY <1>3, PickedIs
  <2>4. c + 1 \in 1 .. (c + 1)
    BY <1>2
  <2> HIDE DEF q, c
  <2> QED
    BY <2>2, <2>3, <2>4
<1> DEFINE a == Append(p, pieces[m])
<1> HIDE DEF p, q, c, U
<1>9. /\ a \in Seq(S) /\ Len(a) = c + 1 /\ a[c + 1] = pieces[m]
      /\ \A k \in 1 .. c : a[k] = p[k]
  BY <1>2, <1>4
<1> HIDE DEF a
<1>10. \A k \in 1 .. (c + 1) : q[k] = a[k]
  BY <1>2, <1>7, <1>8, <1>9
<1>11. q = a
  BY <1>6, <1>9, <1>10, SeqsEqual
<1> QED
  BY <1>11 DEF a, p, q, U

\* T is a set of names among the first n pieces, and m is the last of them.
LastName(pieces, T, n, m) ==
    /\ n \in Nat /\ T \in SUBSET (1 .. n) /\ m \in T
    /\ \A i \in T : pieces[i] \in Names /\ i <= m

LEMMA PickedFront ==
    ASSUME NEW pieces, NEW n, NEW T, NEW m, LastName(pieces, T, n, m)
    PROVE  /\ Picked(pieces, T) # <<>>
           /\ Front(Picked(pieces, T)) = Picked(pieces, T \ {m})
<1> USE DEF LastName
<1> DEFINE R == T \ {m}
           p == Picked(pieces, R)
<1>1. m \in Nat /\ m # 0 /\ R \in SUBSET (1 .. (m - 1)) /\ R \cup {m} = T
  OBVIOUS
<1>2. /\ \A i \in R : pieces[i] \in Names
      /\ pieces[m] \in Names
  OBVIOUS
<1> HIDE DEF R
<1>3. m - 1 \in Nat
  BY <1>1
<1>4. Picked(pieces, T) = Append(p, pieces[m])
  BY <1>1, <1>2, PickedAppend
<1>5. p \in Seq(Names)
  BY <1>2, <1>1, <1>3, PickedType
<1> HIDE DEF p
<1>6. ASSUME NEW e \in Names PROVE Append(p, e) # <<>> /\ Front(Append(p, e)) = p
  BY <1>5 DEF Front
<1> QED
  BY <1>2, <1>4, <1>6 DEF p, R

\* Where a path goes up, and where it goes down.
UpsOf(pieces) == {k \in Nat : pieces[k] = ".."}
DownsOf(pieces) == {k \in Nat : pieces[k] \in Names}

LEMMA CountsOf ==
    ASSUME NEW pieces, NEW i \in Nat, NEW j \in Nat
    PROVE  /\ Ups(pieces, i, j) = Count(UpsOf(pieces), i, j)
           /\ Downs(pieces, i, j) = Count(DownsOf(pieces), i, j)
<1>1. {k \in i .. j : pieces[k] = ".."} = UpsOf(pieces) \cap (i .. j)
  BY DEF UpsOf
<1>2. {k \in i .. j : pieces[k] \in Names} = DownsOf(pieces) \cap (i .. j)
  BY DEF DownsOf
<1> QED
  BY <1>1, <1>2 DEF Ups, Downs, Count

LEMMA UpsDownsType ==
    ASSUME NEW pieces, NEW i \in Nat, NEW j \in Nat
    PROVE  /\ Ups(pieces, i, j) \in Nat /\ Downs(pieces, i, j) \in Nat
           /\ j < i => Ups(pieces, i, j) = 0 /\ Downs(pieces, i, j) = 0
<1>1. \A A : Count(A, i, j) \in Nat /\ (j < i => Count(A, i, j) = 0)
  BY CountType, CountNone
<1> QED
  BY <1>1, CountsOf

LEMMA UpsDownsStep ==
    ASSUME NEW pieces, NEW i \in Nat, NEW j \in Nat, j # 0, i <= j
    PROVE  /\ Ups(pieces, i, j) = Ups(pieces, i, j - 1) + IF pieces[j] = ".." THEN 1 ELSE 0
           /\ Downs(pieces, i, j) =
                Downs(pieces, i, j - 1) + IF pieces[j] \in Names THEN 1 ELSE 0
<1>1. j - 1 \in Nat
  OBVIOUS
<1>2. (j \in UpsOf(pieces) <=> pieces[j] = "..") /\ (j \in DownsOf(pieces) <=> pieces[j] \in Names)
  BY DEF UpsOf, DownsOf
<1>3. /\ Count(UpsOf(pieces), i, j) =
           Count(UpsOf(pieces), i, j - 1) + IF j \in UpsOf(pieces) THEN 1 ELSE 0
      /\ Count(DownsOf(pieces), i, j) =
           Count(DownsOf(pieces), i, j - 1) + IF j \in DownsOf(pieces) THEN 1 ELSE 0
  BY CountStep
<1> QED
  BY <1>1, <1>2, <1>3, CountsOf

LEMMA StaysType ==
    ASSUME NEW pieces, NEW n \in Nat
    PROVE  /\ Stays(pieces, n) \in SUBSET (1 .. n)
           /\ \A i \in Stays(pieces, n) : pieces[i] \in Names
BY DEF Stays

LEMMA PickedNone ==
    ASSUME NEW pieces
    PROVE  Picked(pieces, {}) = <<>> /\ Picked(pieces, Stays(pieces, 0)) = <<>>
<1>1. Cardinality({}) = 0
  BY FS_EmptySet
<1>2. Picked(pieces, {}) = <<>>
  BY <1>1 DEF Picked
<1>3. Stays(pieces, 0) = {}
  BY StaysType
<1> QED
  BY <1>2, <1>3

\* What one more piece does to the names that stay.
LEMMA StaysStep ==
    ASSUME NEW pieces, NEW n \in Nat, n # 0, NEW i \in 1 .. n
    PROVE  i \in Stays(pieces, n) <=>
             \/ i = n /\ pieces[n] \in Names
             \/ i # n /\ i \in Stays(pieces, n - 1)
                /\ Ups(pieces, i + 1, n) <= Downs(pieces, i + 1, n)
<1>1. i \in Stays(pieces, n) <=>
        /\ pieces[i] \in Names
        /\ \A j \in i + 1 .. n : Ups(pieces, i + 1, j) <= Downs(pieces, i + 1, j)
  BY DEF Stays
<1>2. CASE i = n
  <2>1. i + 1 .. n = {}
    BY <1>2
  <2> QED
    BY <1>1, <1>2, <2>1
<1>3. CASE i # n
  <2>1. i \in Stays(pieces, n - 1) <=>
          /\ pieces[i] \in Names
          /\ \A j \in i + 1 .. (n - 1) : Ups(pieces, i + 1, j) <= Downs(pieces, i + 1, j)
    <3>1. i \in 1 .. (n - 1)
      BY <1>3
    <3> QED
      BY <3>1 DEF Stays
  <2>2. \A j : j \in i + 1 .. n <=> j \in i + 1 .. (n - 1) \/ j = n
    BY <1>3
  <2> QED
    BY <1>1, <1>3, <2>1, <2>2
<1> QED
  BY <1>2, <1>3

\* A name among the first n pieces that stays was never above zero.
LEMMA StaysBalance ==
    ASSUME NEW pieces, NEW n \in Nat, NEW i \in Stays(pieces, n)
    PROVE  Ups(pieces, i + 1, n) <= Downs(pieces, i + 1, n)
<1>1. i \in 1 .. n /\ i + 1 \in Nat
  BY StaysType
<1>2. CASE i = n
  BY <1>1, <1>2, UpsDownsType
<1>3. CASE i # n
  <2>1. n \in i + 1 .. n
    BY <1>1, <1>3
  <2> QED
    BY <2>1 DEF Stays
<1> QED
  BY <1>2, <1>3

LEMMA StaysByName ==
    ASSUME NEW pieces, NEW n \in Nat, n # 0, pieces[n] \in Names, ".." \notin Names
    PROVE  Stays(pieces, n) = Stays(pieces, n - 1) \cup {n}
<1>1. n - 1 \in Nat /\ n \in 1 .. n
  OBVIOUS
<1>2. ASSUME NEW i \in Stays(pieces, n - 1)
      PROVE  Ups(pieces, i + 1, n) <= Downs(pieces, i + 1, n)
  <2>1. i \in 1 .. (n - 1) /\ i + 1 \in Nat /\ i + 1 <= n
    BY <1>1, StaysType
  <2>2. Ups(pieces, i + 1, n - 1) <= Downs(pieces, i + 1, n - 1)
    BY <1>1, StaysBalance
  <2>3. Ups(pieces, i + 1, n - 1) \in Nat /\ Downs(pieces, i + 1, n - 1) \in Nat
    BY <1>1, <2>1, UpsDownsType
  <2>4. /\ Ups(pieces, i + 1, n) =
             Ups(pieces, i + 1, n - 1) + IF pieces[n] = ".." THEN 1 ELSE 0
        /\ Downs(pieces, i + 1, n) =
             Downs(pieces, i + 1, n - 1) + IF pieces[n] \in Names THEN 1 ELSE 0
    BY <2>1, UpsDownsStep
  <2> QED
    BY <2>2, <2>3, <2>4
<1>3. Stays(pieces, n) \in SUBSET (1 .. n) /\ Stays(pieces, n - 1) \in SUBSET (1 .. (n - 1))
  BY <1>1, StaysType
<1>4. \A i \in 1 .. n : i \in Stays(pieces, n) <=> i = n \/ i \in Stays(pieces, n - 1)
  BY <1>1, <1>2, StaysStep
<1> QED
  BY <1>1, <1>3, <1>4

LEMMA StaysByNothing ==
    ASSUME NEW pieces, NEW n \in Nat, n # 0, pieces[n] \notin Names, pieces[n] # ".."
    PROVE  Stays(pieces, n) = Stays(pieces, n - 1)
<1>1. n - 1 \in Nat
  OBVIOUS
<1>2. ASSUME NEW i \in Stays(pieces, n - 1)
      PROVE  Ups(pieces, i + 1, n) <= Downs(pieces, i + 1, n)
  <2>1. i \in 1 .. (n - 1) /\ i + 1 \in Nat /\ i + 1 <= n
    BY <1>1, StaysType
  <2>2. Ups(pieces, i + 1, n - 1) <= Downs(pieces, i + 1, n - 1)
    BY <1>1, StaysBalance
  <2>3. Ups(pieces, i + 1, n - 1) \in Nat /\ Downs(pieces, i + 1, n - 1) \in Nat
    BY <1>1, <2>1, UpsDownsType
  <2>4. /\ Ups(pieces, i + 1, n) =
             Ups(pieces, i + 1, n - 1) + IF pieces[n] = ".." THEN 1 ELSE 0
        /\ Downs(pieces, i + 1, n) =
             Downs(pieces, i + 1, n - 1) + IF pieces[n] \in Names THEN 1 ELSE 0
    BY <2>1, UpsDownsStep
  <2> QED
    BY <2>2, <2>3, <2>4
<1>3. Stays(pieces, n) \in SUBSET (1 .. n) /\ Stays(pieces, n - 1) \in SUBSET (1 .. (n - 1))
  BY <1>1, StaysType
<1>4. \A i \in 1 .. n : i \in Stays(pieces, n) <=> i # n /\ i \in Stays(pieces, n - 1)
  BY <1>1, <1>2, StaysStep
<1>5. n \notin Stays(pieces, n - 1)
  BY <1>3
<1> QED
  BY <1>1, <1>3, <1>4, <1>5

\* Behind a name that stays there are as many names left as stay.
Even(pieces, n) ==
    \A i \in Stays(pieces, n) :
        Downs(pieces, i + 1, n) = Ups(pieces, i + 1, n) + Count(Stays(pieces, n), i + 1, n)

LEMMA StaysByUp ==
    ASSUME NEW pieces, NEW n \in Nat, n # 0, pieces[n] = "..", ".." \notin Names,
           Even(pieces, n - 1)
    PROVE  \A i : i \in Stays(pieces, n) <=>
              i \in Stays(pieces, n - 1) /\ \E j \in Stays(pieces, n - 1) : i < j
<1> DEFINE T == Stays(pieces, n - 1)
<1>1. n - 1 \in Nat
  OBVIOUS
<1>2. Stays(pieces, n) \in SUBSET (1 .. n) /\ T \in SUBSET (1 .. (n - 1))
  BY <1>1, StaysType
<1>3. n \notin Stays(pieces, n) /\ n \notin T
  BY <1>2, StaysType
<1>4. \A i \in Stays(pieces, n) : i \in T
  BY <1>2, <1>3, StaysStep
<1>5. ASSUME NEW i \in T
      PROVE  i \in Stays(pieces, n) <=> \E j \in T : i < j
  <2> DEFINE A == T \cap ((i + 1) .. (n - 1))
             u == Ups(pieces, i + 1, n - 1)
             d == Downs(pieces, i + 1, n - 1)
  <2>1. i \in 1 .. n /\ i # n /\ i + 1 \in Nat /\ i + 1 <= n
    BY <1>1, <1>2
  <2>2. /\ u \in Nat /\ d \in Nat
        /\ Ups(pieces, i + 1, n) = u + 1 /\ Downs(pieces, i + 1, n) = d + 0
    BY <1>1, <2>1, UpsDownsStep, UpsDownsType
  <2>3. d = u + Cardinality(A)
    BY DEF Even, Count
  <2>4. IsFiniteSet(A) /\ Cardinality(A) \in Nat
    BY <1>1, <2>1, CountType DEF Count
  <2>5. i \in Stays(pieces, n) <=> Ups(pieces, i + 1, n) <= Downs(pieces, i + 1, n)
    BY <2>1, StaysStep
  <2>6. A # {} <=> \E j \in T : i < j
    BY <1>2, <2>1
  <2> HIDE DEF A, T, u, d
  <2>7. Cardinality(A) = 0 <=> A = {}
    BY <2>4, FS_EmptySet
  <2>8. i \in Stays(pieces, n) <=> Cardinality(A) # 0
    BY <2>2, <2>3, <2>4, <2>5
  <2> QED
    BY <2>6, <2>7, <2>8
<1> QED
  BY <1>4, <1>5

LEMMA EvenStep ==
    ASSUME NEW pieces, NEW n \in Nat, n # 0, ".." \notin Names, Even(pieces, n - 1)
    PROVE  Even(pieces, n)
<1> DEFINE T == Stays(pieces, n - 1)
           U == Stays(pieces, n)
<1>1. n - 1 \in Nat
  OBVIOUS
<1>2. U \in SUBSET (1 .. n) /\ T \in SUBSET (1 .. (n - 1))
  BY <1>1, StaysType
<1> SUFFICES ASSUME NEW i \in U
             PROVE  Downs(pieces, i + 1, n) = Ups(pieces, i + 1, n) + Count(U, i + 1, n)
  BY DEF Even
<1> DEFINE u == Ups(pieces, i + 1, n - 1)
           d == Downs(pieces, i + 1, n - 1)
<1>3. i \in 1 .. n /\ i + 1 \in Nat
  BY <1>2
<1>4. CASE i = n
  <2>1. n < i + 1
    BY <1>4
  <2> QED
    BY <1>3, <2>1, UpsDownsType, CountNone
<1>5. CASE i # n
  <2>1. i + 1 <= n /\ i \in T
    BY <1>3, <1>5, StaysStep
  <2>2. /\ u \in Nat /\ d \in Nat
        /\ Ups(pieces, i + 1, n) = u + IF pieces[n] = ".." THEN 1 ELSE 0
        /\ Downs(pieces, i + 1, n) = d + IF pieces[n] \in Names THEN 1 ELSE 0
    BY <1>1, <1>3, <2>1, UpsDownsStep, UpsDownsType
  <2>3. d = u + Count(T, i + 1, n - 1) /\ Count(T, i + 1, n - 1) \in Nat
    BY <1>1, <1>3, <2>1, CountType DEF Even
  <2>4. /\ Count(U, i + 1, n) = Count(U, i + 1, n - 1) + IF n \in U THEN 1 ELSE 0
        /\ Count(U, i + 1, n - 1) \in Nat
    <3> HIDE DEF U
    <3>1. Count(U, i + 1, n - 1) \in Nat
      BY <1>1, <1>3, CountType
    <3> QED
      BY <1>3, <2>1, <3>1, CountStep
  <2>5. CASE pieces[n] \in Names
    <3>1. U = T \cup {n}
      BY <2>5, StaysByName
    <3>2. U \cap ((i + 1) .. (n - 1)) = T \cap ((i + 1) .. (n - 1)) /\ n \in U
      BY <3>1
    <3>3. Count(U, i + 1, n - 1) = Count(T, i + 1, n - 1)
      BY <3>2, Zenon DEF Count
    <3> HIDE DEF u, d, T, U
    <3> QED
      BY <2>2, <2>3, <2>4, <2>5, <3>2, <3>3
  <2>6. CASE pieces[n] \notin Names /\ pieces[n] # ".."
    <3>1. U = T /\ n \notin T
      BY <1>2, <2>6, StaysByNothing
    <3> HIDE DEF u, d, T, U
    <3> QED
      BY <2>2, <2>3, <2>4, <2>6, <3>1
  <2>7. CASE pieces[n] = ".."
    <3>1. \A x : x \in U <=> x \in T /\ \E j \in T : x < j
      BY <2>7, StaysByUp
    <3>2. n \notin U
      BY <1>2, <3>1
    <3> DEFINE m == Max(T)
               A == T \cap ((i + 1) .. (n - 1))
    <3> HIDE DEF T, U
    <3>3. m \in T /\ \A k \in T : k <= m
      <4>1. T \in SUBSET (0 .. (n - 1)) /\ T # {}
        BY <1>2, <2>1
      <4> QED
        BY <1>1, <4>1, Largest
    <3> HIDE DEF m
    <3>4. U \cap ((i + 1) .. (n - 1)) = A \ {m}
      BY <1>2, <3>1, <3>3
    <3>5. m \in A
      BY <1>2, <2>1, <3>1, <3>3
    <3>6. IsFiniteSet(A)
      BY <1>1, <1>3, CountType
    <3>7. Count(U, i + 1, n - 1) = Cardinality(A) - 1
      <4>1. Count(U, i + 1, n - 1) = Cardinality(A \ {m})
        BY <3>4, Zenon DEF Count
      <4> HIDE DEF A
      <4> QED
        BY <3>5, <3>6, <4>1, FS_RemoveElement
    <3>8. Cardinality(A) = Count(T, i + 1, n - 1)
      BY DEF Count
    <3> HIDE DEF A, u, d
    <3> QED
      BY <2>2, <2>3, <2>4, <2>7, <3>2, <3>7, <3>8
  <2> QED
    BY <2>5, <2>6, <2>7
<1> QED
  BY <1>4, <1>5

LEMMA AlwaysEven ==
    ASSUME NEW pieces, ".." \notin Names
    PROVE  \A n \in Nat : Even(pieces, n)
<1> DEFINE Bad == {n \in Nat : ~Even(pieces, n)}
<1>1. Even(pieces, 0)
  <2>1. Stays(pieces, 0) = {}
    BY StaysType
  <2> QED
    BY <2>1 DEF Even
<1>2. CASE Bad # {}
  <2>1. PICK n \in Bad : \A k \in Bad : n <= k
    BY <1>2, Least
  <2>2. n \in Nat /\ n # 0 /\ n - 1 \in Nat /\ n - 1 \notin Bad
    BY <1>1, <2>1
  <2> QED
    BY <2>1, <2>2, EvenStep
<1> QED
  BY <1>2

\* The pieces that canonicalize_path skips.
Skipped == {"", "."}

LEMMA PieceKinds ==
    /\ ".." \notin Names
    /\ \A x \in Skipped : x \notin Names /\ x # ".."
    /\ \A x \in Pieces : x \in Names \/ x \in Skipped \/ x = ".."
<1>1. Names \cap {"", ".", ".."} = {}
  BY VfsAssumption, Zenon
<1> QED
  BY <1>1, Zenon DEF Skipped, Pieces

LEMMA PushedCases ==
    ASSUME NEW stack, NEW piece
    PROVE  /\ piece \in Names => Pushed(stack, piece) = Append(stack, piece)
           /\ piece \in Skipped => Pushed(stack, piece) = stack
           /\ piece = ".." => Pushed(stack, piece) =
                                IF stack = <<>> THEN stack ELSE Front(stack)
<1>1. piece \in Names => piece # ".." /\ piece \notin {"", "."}
  BY VfsAssumption, Zenon
<1>2. piece \in Skipped => piece # ".." /\ piece \in {"", "."}
  BY Zenon DEF Skipped
<1>3. piece = ".." => piece \notin {"", "."}
  BY Zenon
<1> QED
  BY <1>1, <1>2, <1>3, Zenon DEF Pushed

\* One piece of canonicalize_path's loop.
LEMMA PushedIs ==
    ASSUME NEW pieces \in Seq(Pieces), NEW n \in 1 .. Len(pieces)
    PROVE  Pushed(Picked(pieces, Stays(pieces, n - 1)), pieces[n]) =
              Picked(pieces, Stays(pieces, n))
<1> DEFINE T == Stays(pieces, n - 1)
<1>1. n \in Nat /\ n # 0 /\ n - 1 \in Nat
  OBVIOUS
<1>2. T \in SUBSET (1 .. (n - 1)) /\ \A i \in T : pieces[i] \in Names
  BY <1>1, StaysType
<1>3. pieces[n] \in Pieces /\ ".." \notin Names
  BY PieceKinds
<1>4. CASE pieces[n] \in Names
  <2>1. Stays(pieces, n) = T \cup {n}
    BY <1>1, <1>3, <1>4, StaysByName
  <2>2. Picked(pieces, T \cup {n}) = Append(Picked(pieces, T), pieces[n])
    BY <1>1, <1>2, <1>4, PickedAppend
  <2> HIDE DEF T
  <2> QED
    BY <1>4, <2>1, <2>2, PushedCases DEF T
<1>5. CASE pieces[n] \in Skipped
  <2>1. pieces[n] # ".." /\ pieces[n] \notin Names
    BY <1>5, PieceKinds
  <2>2. Stays(pieces, n) = T
    BY <1>1, <2>1, StaysByNothing
  <2> HIDE DEF T
  <2> QED
    BY <1>5, <2>2, PushedCases DEF T
<1>6. CASE pieces[n] = ".."
  <2>1. Even(pieces, n - 1)
    BY <1>1, <1>3, AlwaysEven
  <2>2. \A i : i \in Stays(pieces, n) <=> i \in T /\ \E j \in T : i < j
    BY <1>1, <1>3, <1>6, <2>1, StaysByUp
  <2> HIDE DEF T
  <2>3. CASE T = {}
    <3>1. Stays(pieces, n) = {}
      BY <2>2, <2>3
    <3>2. Picked(pieces, {}) = <<>>
      BY PickedNone
    <3> QED
      BY <1>6, <2>3, <3>1, <3>2, PushedCases DEF T
  <2>4. CASE T # {}
    <3> DEFINE m == Max(T)
    <3>1. m \in T /\ \A k \in T : k <= m
      <4>1. T \in SUBSET (0 .. (n - 1))
        BY <1>2
      <4> QED
        BY <1>1, <2>4, <4>1, Largest
    <3> HIDE DEF m
    <3>2. Stays(pieces, n) = T \ {m}
      <4>1. \A i \in T : (\E j \in T : i < j) <=> i # m
        BY <1>1, <1>2, <3>1
      <4> QED
        BY <2>2, <4>1, Zenon
    <3>3. Picked(pieces, T) # <<>> /\ Front(Picked(pieces, T)) = Picked(pieces, T \ {m})
      <4>1. LastName(pieces, T, n - 1, m)
        BY <1>1, <1>2, <3>1 DEF LastName
      <4> QED
        BY <4>1, PickedFront
    <3> QED
      BY <1>6, <3>2, <3>3, PushedCases DEF T
  <2> QED
    BY <2>3, <2>4
<1> QED
  BY <1>3, <1>4, <1>5, <1>6, PieceKinds

\* canonicalize_path keeps the names that no later ".." takes back.
LEMMA CanonicalIs ==
    ASSUME NEW path \in Path
    PROVE  CanonicalizePath(path) = Kept(path.pieces) /\ Kept(path.pieces) \in Seq(Names)
<1> DEFINE pieces == path.pieces
           n == Len(pieces)
           Eq(f) == f = [k \in 0 .. n |-> IF k = 0 THEN <<>>
                                          ELSE Pushed(f[k - 1], pieces[k])]
           w == [k \in 0 .. n |-> Picked(pieces, Stays(pieces, k))]
           stack == CHOOSE f : Eq(f)
<1>0. pieces \in Seq(Pieces)
  BY DEF Path
<1>1. n \in Nat
  BY <1>0
<1>2. Eq(w)
  <2>1. ASSUME NEW k \in 0 .. n
        PROVE  Picked(pieces, Stays(pieces, k)) = IF k = 0 THEN <<>>
                                                  ELSE Pushed(w[k - 1], pieces[k])
    <3> HIDE DEF pieces
    <3>1. CASE k = 0
      BY <3>1, PickedNone
    <3>2. CASE k # 0
      <4>1. k \in 1 .. n /\ k - 1 \in 0 .. n
        BY <1>1, <3>2
      <4>2. w[k - 1] = Picked(pieces, Stays(pieces, k - 1))
        BY <4>1
      <4> HIDE DEF w
      <4> QED
        BY <1>0, <3>2, <4>1, <4>2, PushedIs
    <3> QED
      BY <3>1, <3>2
  <2> QED
    BY <2>1
<1>3. Eq(stack)
  <2> HIDE DEF Eq
  <2> QED
    BY <1>2
<1>4. Alike(stack, w, n)
  <2> HIDE DEF stack, w, n, pieces
  <2>1. stack[0] = w[0]
    BY <1>1, <1>2, <1>3
  <2>2. ASSUME NEW k \in 0 .. n, k # 0, stack[k - 1] = w[k - 1]
        PROVE  stack[k] = w[k]
    <3>1. stack[k] = Pushed(stack[k - 1], pieces[k]) /\ w[k] = Pushed(w[k - 1], pieces[k])
      BY <1>2, <1>3, <2>2
    <3> QED
      BY <2>2, <3>1
  <2> QED
    BY <2>1, <2>2 DEF Alike
<1>5. CanonicalizePath(path) = stack[n]
  BY DEF CanonicalizePath
<1>6. w[n] = Kept(pieces)
  BY <1>1 DEF Kept
<1>7. Kept(pieces) \in Seq(Names)
  <2> HIDE DEF pieces
  <2> QED
    BY <1>1, StaysType, PickedType DEF Kept
<1> HIDE DEF stack, w, n
<1>8. stack[n] = w[n]
  BY <1>1, <1>4, SameFrom0
<1> QED
  BY <1>5, <1>6, <1>7, <1>8

-----------------------------------------------------------------------------
(* kopen's search.                                                         *)

\* The loop is a function on the elements of the path: it can be extended by
\* one element at a time.
LEMMA FoundIs ==
    ASSUME NEW path \in Seq(Pieces), NEW depth \in 0 .. Len(path), NEW node
    PROVE  Found(path, depth, node) =
             [k \in depth .. Len(path) |->
                 IF k = depth THEN node
                 ELSE FinddirVfs(Found(path, depth, node)[k - 1], path[k])]
<1> DEFINE Eq(f, n) == f = [k \in depth .. n |->
                               IF k = depth THEN node ELSE FinddirVfs(f[k - 1], path[k])]
           Bad == {n \in depth .. Len(path) : ~\E f : Eq(f, n)}
           find == CHOOSE f : Eq(f, Len(path))
<1>1. depth \in Nat /\ Len(path) \in Nat /\ Len(path) \in depth .. Len(path)
  OBVIOUS
<1>2. CASE Bad # {}
  <2>1. Bad \in SUBSET Nat
    BY <1>1
  <2>2. PICK n \in Bad : \A k \in Bad : n <= k
    BY <1>2, <2>1, Least
  <2>3. n # depth
    <3> DEFINE g == [k \in depth .. depth |-> node]
    <3>1. Eq(g, depth)
      BY <1>1
    <3> HIDE DEF Eq
    <3> QED
      BY <2>2, <3>1
  <2>4. n \in depth .. Len(path) /\ n - 1 \in depth .. Len(path) /\ n - 1 \notin Bad
    <3>1. n \in depth .. Len(path)
      BY <2>2
    <3> HIDE DEF Bad
    <3>2. n - 1 \in depth .. Len(path) /\ ~(n <= n - 1)
      BY <1>1, <2>3, <3>1
    <3> QED
      BY <2>2, <3>1, <3>2
  <2>5. \E g : Eq(g, n - 1)
    BY <2>4
  <2>6. PICK g : g = [k \in depth .. (n - 1) |->
                        IF k = depth THEN node ELSE FinddirVfs(g[k - 1], path[k])]
    BY <2>5
  <2> DEFINE h == [k \in depth .. n |-> IF k = n THEN FinddirVfs(g[n - 1], path[n]) ELSE g[k]]
  <2>7. \A k \in depth .. n :
           h[k] = IF k = depth THEN node ELSE FinddirVfs(h[k - 1], path[k])
    <3>1. \A k \in depth .. (n - 1) :
             g[k] = IF k = depth THEN node ELSE FinddirVfs(g[k - 1], path[k])
      BY <2>6
    <3>2. h[n] = FinddirVfs(g[n - 1], path[n])
      BY <1>1, <2>4
    <3>3. \A k \in depth .. (n - 1) : h[k] = g[k]
      BY <1>1, <2>4
    <3> HIDE DEF h
    <3>4. ASSUME NEW k \in depth .. n
          PROVE  h[k] = IF k = depth THEN node ELSE FinddirVfs(h[k - 1], path[k])
      <4>1. CASE k = n
        <5>1. n - 1 \in depth .. (n - 1)
          BY <1>1, <2>4
        <5> QED
          BY <2>3, <3>2, <3>3, <4>1, <5>1
      <4>2. CASE k # n
        <5>1. k \in depth .. (n - 1) /\ (k # depth => k - 1 \in depth .. (n - 1))
          BY <1>1, <2>4, <4>2
        <5> QED
          BY <3>1, <3>3, <5>1
      <4> QED
        BY <4>1, <4>2
    <3> QED
      BY <3>4
  <2>8. h = [k \in depth .. n |-> h[k]]
    OBVIOUS
  <2> HIDE DEF h
  <2>9. Eq(h, n)
    BY <2>7, <2>8
  <2> HIDE DEF Eq
  <2> QED
    BY <2>2, <2>9
<1>3. CASE Bad = {}
  <2>1. \E f : Eq(f, Len(path))
    BY <1>1, <1>3
  <2>2. Eq(find, Len(path))
    <3> HIDE DEF Eq
    <3> QED
      BY <2>1
  <2>3. Found(path, depth, node) = find
    BY DEF Found
  <2> HIDE DEF find
  <2> QED
    BY <2>2, <2>3
<1> QED
  BY <1>2, <1>3

LEMMA FinddirType ==
    ASSUME NEW node, NEW name
    PROVE  FinddirVfs(node, name) \in FsNodes \cup {Null}
<1>1. \A d \in DOMAIN Contents : Contents[d] \in FsNodes
  BY VfsAssumption, Zenon
<1> QED
  BY <1>1 DEF FinddirVfs

LEMMA FindFromType ==
    ASSUME NEW path \in Seq(Pieces), NEW depth \in 0 .. Len(path), NEW node \in FsNodes
    PROVE  FindFrom(path, depth, node) \in FsNodes \cup {Null}
<1> DEFINE n == Len(path)
           find == Found(path, depth, node)
<1>1. n \in Nat /\ n \in depth .. n
  OBVIOUS
<1>2. find = [k \in depth .. n |-> IF k = depth THEN node
                                   ELSE FinddirVfs(find[k - 1], path[k])]
  BY FoundIs
<1> HIDE DEF find, n
<1>3. find[n] = IF n = depth THEN node ELSE FinddirVfs(find[n - 1], path[n])
  BY <1>1, <1>2
<1>4. find[n] \in FsNodes \cup {Null}
  BY <1>3, FinddirType
<1> QED
  BY <1>4 DEF FindFrom, find, n

LEMMA FindNowhere ==
    ASSUME NEW path \in Seq(Pieces), NEW depth \in 0 .. Len(path), NEW node,
           depth = Len(path)
    PROVE  FindFrom(path, depth, node) = node
<1> DEFINE find == Found(path, depth, node)
<1>1. \A k \in depth .. Len(path) :
         find[k] = IF k = depth THEN node ELSE FinddirVfs(find[k - 1], path[k])
  BY FoundIs
<1>2. depth \in depth .. Len(path)
  OBVIOUS
<1>3. FindFrom(path, depth, node) = find[depth]
  BY DEF FindFrom
<1> HIDE DEF find
<1> QED
  BY <1>1, <1>2, <1>3

LEMMA ResolvedType ==
    ASSUME TreeOK, NEW path \in Seq(Pieces)
    PROVE  Resolved(path) \in FsNodes \cup {Null, Junk}
<1> DEFINE n == Len(path)
           mounted == MountedTo(path, n)
<1>1. n \in Nat /\ mounted \in SUBSET (0 .. n)
  BY DEF MountedTo
<1>2. Resolved(path) = IF mounted = {} THEN Junk
                       ELSE FindFrom(path, Max(mounted),
                                     file[SubSeq(path, 1, Max(mounted))])
  BY DEF Resolved, MountedTo
<1>3. CASE mounted # {}
  <2>1. Max(mounted) \in mounted
    BY <1>1, <1>3, Largest
  <2>2. /\ Max(mounted) \in 0 .. Len(path)
        /\ file[SubSeq(path, 1, Max(mounted))] \in FsNodes
    <3> DEFINE m == Max(mounted)
    <3>1. m \in MountedTo(path, n)
      BY <2>1
    <3> HIDE DEF m, mounted
    <3> QED
      BY <3>1 DEF MountedTo, TreeOK, m
  <2>3. FindFrom(path, Max(mounted), file[SubSeq(path, 1, Max(mounted))])
           \in FsNodes \cup {Null}
    <3> HIDE DEF mounted
    <3> QED
      BY <2>2, FindFromType
  <2> HIDE DEF mounted
  <2> QED
    BY <1>2, <1>3, <2>3
<1>4. CASE mounted = {}
  BY <1>2, <1>4
<1> QED
  BY <1>3, <1>4

-----------------------------------------------------------------------------
(* vfs_mount.                                                              *)

NoName == ""

\* What is mounted at an entry, if there is one.
Mounted(q) == IF q \in DOMAIN file THEN file[q] ELSE Null

LEMMA MountPiecesIs ==
    ASSUME NEW path \in Path, path.pieces # <<>>, path.pieces[1] # NoName
    PROVE  MountPieces(path) \in Seq(Pieces) /\ MountPieces(path) # <<>>
<1> DEFINE p == path.pieces
<1>1. MountPieces(path) = IF Last(p) = NoName THEN Front(p) ELSE p
  BY Zenon DEF MountPieces, NoName
<1>2. p \in Seq(Pieces)
  BY DEF Path
<1> HIDE DEF p
<1>3. p # <<>> /\ p[1] # NoName
  BY DEF p
<1>4. CASE Last(p) = NoName
  <2>1. Len(p) \in Nat /\ Len(p) # 0 /\ Len(p) # 1
    BY <1>2, <1>3, <1>4 DEF Last
  <2>2. Len(p) - 1 \in 0 .. Len(p)
    BY <2>1
  <2>3. Front(p) \in Seq(Pieces) /\ Len(Front(p)) = Len(p) - 1
    BY <1>2, <2>2, Prefix DEF Front
  <2> QED
    BY <1>1, <1>4, <2>1, <2>3
<1>5. CASE Last(p) # NoName
  BY <1>1, <1>2, <1>3, <1>5
<1> QED
  BY <1>4, <1>5

\* The walk leaves a tree, in which the same is mounted as before.
LEMMA GrownIs ==
    ASSUME TreeOK, NEW at \in Seq(Pieces)
    PROVE  /\ DOMAIN Grown(at) = DOMAIN file \cup Prefixes(at)
           /\ at \in DOMAIN Grown(at)
           /\ \A q \in DOMAIN Grown(at) :
                 /\ q \in Seq(Pieces) /\ Grown(at)[q] = Mounted(q)
                 /\ Mounted(q) \in FsNodes \cup {Null}
                 /\ q # <<>> => Front(q) \in DOMAIN Grown(at)
<1> DEFINE D == DOMAIN file \cup Prefixes(at)
<1>1. Grown(at) = [q \in D |-> Mounted(q)]
  BY DEF Grown, Mounted
<1>2. Len(at) \in Nat
  OBVIOUS
<1>3. ASSUME NEW q \in Prefixes(at)
      PROVE  q \in Seq(Pieces) /\ (q # <<>> => Front(q) \in Prefixes(at))
  <2>1. PICK l \in 0 .. Len(at) : q = SubSeq(at, 1, l)
    BY DEF Prefixes
  <2>2. q \in Seq(Pieces) /\ Len(q) = l
    BY <2>1, Prefix
  <2>3. CASE l = 0
    BY <2>2, <2>3
  <2>4. CASE l # 0
    <3>1. l \in 1 .. Len(at) /\ l - 1 \in 0 .. Len(at)
      BY <1>2, <2>4
    <3>2. Front(q) = SubSeq(at, 1, l - 1)
      BY <2>1, <3>1, FrontOfPrefix
    <3> QED
      BY <2>2, <3>1, <3>2 DEF Prefixes
  <2> QED
    BY <2>3, <2>4
<1>4. at \in Prefixes(at)
  <2>1. Len(at) \in 0 .. Len(at)
    BY <1>2
  <2>2. at = SubSeq(at, 1, Len(at))
    <3>1. /\ SubSeq(at, 1, Len(at)) \in Seq(Pieces) /\ Len(SubSeq(at, 1, Len(at))) = Len(at)
          /\ \A j \in 1 .. Len(at) : SubSeq(at, 1, Len(at))[j] = at[j]
      BY <2>1, Prefix
    <3> QED
      BY <3>1, SeqsEqual
  <2> QED
    BY <2>1, <2>2 DEF Prefixes
<1>5. ASSUME NEW q \in D
      PROVE  /\ q \in Seq(Pieces) /\ Mounted(q) \in FsNodes \cup {Null}
             /\ q # <<>> => Front(q) \in D
  BY <1>3 DEF TreeOK, Mounted
<1> HIDE DEF D
<1>6. DOMAIN Grown(at) = D /\ \A q \in D : Grown(at)[q] = Mounted(q)
  BY <1>1
<1>7. at \in D
  BY <1>4 DEF D
<1> QED
  BY <1>5, <1>6, <1>7 DEF D

\* What a mount does: ret is what it returns, at where it mounts.
MountDone(path, node, at, ret) ==
    /\ last' = Call("mount", path, node, ret)
    /\ TreeOK' /\ RootOK'
    /\ \A q : q # at \/ ret # 0 => Mounted(q)' = Mounted(q)
    /\ ret = 0 => Mounted(at) = Null /\ Mounted(at)' = node
    /\ ret # 0 => ~path.absolute \/ Mounted(at) # Null

LEMMA RootMounted ==
    ASSUME TreeOK, RootOK, NEW path, NEW node \in FsNodes, MountRoot(path, node)
    PROVE  \E ret \in {0, 3} : MountDone(path, node, <<>>, ret)
<1>1. CASE file[<<>>] # Null
  <2>1. file' = file /\ vfs_root_node' = vfs_root_node /\ last' = Call("mount", path, node, 3)
    BY <1>1 DEF MountRoot
  <2>2. MountDone(path, node, <<>>, 3)
    BY <1>1, <2>1 DEF MountDone, TreeOK, RootOK, Mounted
  <2> QED
    BY <2>2
<1>2. CASE file[<<>>] = Null
  <2>1. /\ file' = [file EXCEPT ![<<>>] = node] /\ vfs_root_node' = node
        /\ last' = Call("mount", path, node, 0)
    BY <1>2 DEF MountRoot
  <2>2. <<>> \in DOMAIN file
    BY DEF TreeOK
  <2>3. /\ DOMAIN file' = DOMAIN file /\ file'[<<>>] = node
        /\ \A q \in DOMAIN file : q # <<>> => file'[q] = file[q]
    BY <2>1, <2>2
  <2>4. TreeOK'
    BY <2>3 DEF TreeOK
  <2>5. RootOK'
    BY <2>1, <2>3 DEF RootOK
  <2>6. Mounted(<<>>) = Null /\ Mounted(<<>>)' = node
    BY <1>2, <2>2, <2>3 DEF Mounted
  <2>7. \A q : q # <<>> => Mounted(q)' = Mounted(q)
    BY <2>3 DEF Mounted
  <2>8. MountDone(path, node, <<>>, 0)
    BY <2>1, <2>4, <2>5, <2>6, <2>7 DEF MountDone
  <2> QED
    BY <2>8
<1> QED
  BY <1>1, <1>2

LEMMA BelowMounted ==
    ASSUME TreeOK, RootOK, NEW path \in Path, path.pieces # <<>>, NEW node \in FsNodes,
           path.pieces[1] # NoName, MountBelow(path, node)
    PROVE  \E ret \in {0, 3} : MountDone(path, node, MountPieces(path), ret)
<1> DEFINE at == MountPieces(path)
           G == Grown(at)
<1>1. at \in Seq(Pieces) /\ at # <<>>
  BY MountPiecesIs
<1>2. /\ DOMAIN G = DOMAIN file \cup Prefixes(at) /\ at \in DOMAIN G
      /\ \A q \in DOMAIN G :
            /\ q \in Seq(Pieces) /\ G[q] = Mounted(q)
            /\ Mounted(q) \in FsNodes \cup {Null}
            /\ q # <<>> => Front(q) \in DOMAIN G
  BY <1>1, GrownIs
<1>3. <<>> \in DOMAIN file /\ Mounted(<<>>) = file[<<>>]
  BY DEF TreeOK, Mounted
<1>4. \A q : q \notin DOMAIN G => Mounted(q) = Null
  BY <1>2 DEF Mounted
<1>5. \/ /\ G[at] # Null /\ file' = G /\ last' = Call("mount", path, node, 3)
      \/ /\ G[at] = Null /\ file' = [G EXCEPT ![at] = node]
         /\ last' = Call("mount", path, node, 0)
  BY DEF MountBelow
<1>6. vfs_root_node' = vfs_root_node
  BY DEF MountBelow
<1> HIDE DEF at, G
<1>7. CASE G[at] # Null /\ file' = G /\ last' = Call("mount", path, node, 3)
  <2>1. TreeOK'
    BY <1>2, <1>3, <1>7 DEF TreeOK
  <2>2. \A q : Mounted(q)' = Mounted(q)
    BY <1>2, <1>4, <1>7 DEF Mounted
  <2>3. RootOK'
    BY <1>2, <1>3, <1>6, <1>7 DEF RootOK
  <2>4. MountDone(path, node, at, 3)
    BY <1>2, <1>7, <2>1, <2>2, <2>3 DEF MountDone
  <2> QED
    BY <2>4 DEF at
<1>8. CASE /\ G[at] = Null /\ file' = [G EXCEPT ![at] = node]
           /\ last' = Call("mount", path, node, 0)
  <2>1. /\ DOMAIN file' = DOMAIN G /\ file'[at] = node
        /\ \A q \in DOMAIN G : q # at => file'[q] = G[q]
    BY <1>2, <1>8
  <2>2. TreeOK'
    BY <1>2, <1>3, <2>1 DEF TreeOK
  <2>3. \A q : q # at => Mounted(q)' = Mounted(q)
    BY <1>2, <1>4, <2>1 DEF Mounted
  <2>4. Mounted(at) = Null /\ Mounted(at)' = node
    BY <1>2, <1>8, <2>1 DEF Mounted
  <2>5. RootOK'
    BY <1>1, <1>2, <1>3, <1>6, <2>1 DEF RootOK
  <2>6. MountDone(path, node, at, 0)
    BY <1>8, <2>2, <2>3, <2>4, <2>5 DEF MountDone
  <2> QED
    BY <2>6 DEF at
<1> QED
  BY <1>5, <1>7, <1>8

LEMMA MountIs ==
    ASSUME TreeOK, RootOK, NEW path \in Path, path.pieces # <<>>, NEW node \in FsNodes,
           VfsMount(path, node)
    PROVE  \E ret \in {0, 2, 3} : MountDone(path, node, MountedAt(path), ret)
<1>1. \/ /\ ~path.absolute /\ last' = Call("mount", path, node, 2)
         /\ file' = file /\ vfs_root_node' = vfs_root_node
      \/ path.pieces[1] = NoName /\ MountRoot(path, node)
      \/ path.pieces[1] # NoName /\ MountBelow(path, node)
  BY Zenon DEF VfsMount, NoName
<1>2. /\ path.pieces[1] = NoName => MountedAt(path) = <<>>
      /\ path.pieces[1] # NoName => MountedAt(path) = MountPieces(path)
  BY Zenon DEF MountedAt, NoName
<1>3. CASE /\ ~path.absolute /\ last' = Call("mount", path, node, 2)
           /\ file' = file /\ vfs_root_node' = vfs_root_node
  <2>1. MountDone(path, node, MountedAt(path), 2)
    BY <1>3 DEF MountDone, TreeOK, RootOK, Mounted
  <2> QED
    BY <2>1
<1>4. CASE path.pieces[1] = NoName /\ MountRoot(path, node)
  BY <1>2, <1>4, RootMounted
<1>5. CASE path.pieces[1] # NoName /\ MountBelow(path, node)
  BY <1>2, <1>5, BelowMounted
<1> QED
  BY <1>1, <1>3, <1>4, <1>5

-----------------------------------------------------------------------------
(* The theorems about the VFS.                                             *)

LastOK ==
    last \in [call : {"none", "mount", "open", "create"},
              path : Path, node : FsNodes \cup {Null, Junk}, ret : -1 .. 3]

VfsInv == TreeOK /\ RootOK /\ LastOK /\ KopenResolves

LEMMA TypeParts == TypeOK <=> TreeOK /\ vfs_root_node \in FsNodes \cup {Null} /\ LastOK
BY Zenon DEF TypeOK, TreeOK, LastOK

LEMMA NodesApart ==
    /\ {Null, Junk} \cap FsNodes = {} /\ Null # Junk
    /\ Mountable \subseteq FsNodes /\ Dirs \subseteq FsNodes
BY VfsAssumption, Zenon

LEMMA PathsOK ==
    /\ \A path \in MountPaths : path \in Path /\ path.pieces # <<>>
    /\ \A path \in OpenPaths : path \in Path
BY VfsAssumption, Zenon

LEMMA NamesArePieces ==
    ASSUME NEW p \in Seq(Names)
    PROVE  p \in Seq(Pieces)
<1>1. Names \subseteq Pieces
  BY Zenon DEF Pieces
<1> QED
  BY <1>1

LEMMA KopenAll ==
    TreeOK /\ RootOK => \A path \in Seq(Pieces) : Kopen(path) = Resolved(path)
<1>1. Null \notin FsNodes
  BY NodesApart
<1> QED
  BY <1>1, KopenIs

\* What kopen makes of a path, from any caller.
LEMMA OpenedIs ==
    ASSUME TreeOK, RootOK, NEW path \in Path
    PROVE  /\ Kopen(CanonicalizePath(path)) = Meaning(path.pieces)
           /\ Meaning(path.pieces) \in FsNodes \cup {Null, Junk}
<1>1. /\ CanonicalizePath(path) = Kept(path.pieces)
      /\ Kept(path.pieces) \in Seq(Pieces)
  BY CanonicalIs, NamesArePieces
<1> QED
  BY <1>1, KopenAll, ResolvedType DEF Meaning

LEMMA CallType ==
    ASSUME NEW name \in {"none", "mount", "open", "create"}, NEW path \in Path,
           NEW node \in FsNodes \cup {Null, Junk}, NEW ret \in -1 .. 3
    PROVE  Call(name, path, node, ret) \in
             [call : {"none", "mount", "open", "create"},
              path : Path, node : FsNodes \cup {Null, Junk}, ret : -1 .. 3]
BY DEF Call

LEMMA MountKeepsInv ==
    ASSUME VfsInv, NEW path \in Path, path.pieces # <<>>, NEW node \in FsNodes,
           VfsMount(path, node)
    PROVE  VfsInv'
<1>1. PICK ret \in {0, 2, 3} : MountDone(path, node, MountedAt(path), ret)
  BY MountIs DEF VfsInv
<1>2. last' = Call("mount", path, node, ret) /\ TreeOK' /\ RootOK'
  BY <1>1 DEF MountDone
<1>3. ret \in -1 .. 3
  OBVIOUS
<1>4. LastOK'
  BY <1>2, <1>3, CallType DEF LastOK
<1>5. last'.call # "open"
  BY <1>2 DEF Call
<1>6. vfs_root_node' \in FsNodes \cup {Null}
  BY <1>2 DEF TreeOK, RootOK
<1>7. TypeOK'
  BY <1>2, <1>4, <1>6 DEF TypeOK, TreeOK, LastOK
<1> QED
  BY <1>2, <1>4, <1>5, <1>7 DEF VfsInv, KopenResolves

LEMMA OpenKeepsInv ==
    ASSUME VfsInv, NEW path \in Path, Open(path) \/ CreateFileVfs(path)
    PROVE  VfsInv'
<1> DEFINE node == Kopen(CanonicalizePath(path))
<1>1. node = Meaning(path.pieces) /\ node \in FsNodes \cup {Null, Junk}
  BY OpenedIs DEF VfsInv
<1>2. file' = file /\ vfs_root_node' = vfs_root_node
  BY DEF Open, CreateFileVfs
<1>3. \/ last' = Call("open", path, node, 0)
      \/ last' = Call("create", path, node, IF node = Null THEN -1 ELSE 0)
  BY DEF Open, CreateFileVfs
<1> HIDE DEF node
<1>4. LastOK'
  <2>1. (IF node = Null THEN -1 ELSE 0) \in -1 .. 3 /\ 0 \in -1 .. 3
    OBVIOUS
  <2> QED
    BY <1>1, <1>3, <2>1, CallType DEF LastOK
<1>5. TreeOK' /\ RootOK' /\ vfs_root_node' \in FsNodes \cup {Null}
  BY <1>2 DEF VfsInv, TreeOK, RootOK
<1>6. TypeOK'
  BY <1>4, <1>5 DEF TypeOK, TreeOK, LastOK
<1>7. \A p : Resolved(p)' = Resolved(p)
  BY <1>2 DEF Resolved
<1>8. last'.call = "open" => last'.node = node /\ last'.path = path
  BY <1>3 DEF Call
<1> QED
  BY <1>1, <1>4, <1>5, <1>6, <1>7, <1>8 DEF VfsInv, KopenResolves, Meaning

LEMMA StutterKeepsInv == VfsInv /\ UNCHANGED vars => VfsInv'
<1> SUFFICES ASSUME VfsInv, UNCHANGED vars PROVE VfsInv'
  OBVIOUS
<1>1. file' = file /\ vfs_root_node' = vfs_root_node /\ last' = last
  BY DEF vars
<1>2. \A p : Resolved(p)' = Resolved(p)
  BY <1>1 DEF Resolved
<1> QED
  BY <1>1, <1>2 DEF VfsInv, TreeOK, RootOK, LastOK, TypeOK, KopenResolves, Meaning

LEMMA InitInv == Init => VfsInv
<1> SUFFICES ASSUME Init PROVE VfsInv
  OBVIOUS
<1>1. file = [q \in {<<>>} |-> Null] /\ vfs_root_node = Null
  BY DEF Init
<1>2. last = Call("none", [absolute |-> TRUE, pieces |-> <<>>], Null, 0)
  BY DEF Init
<1>3. TreeOK /\ RootOK /\ vfs_root_node \in FsNodes \cup {Null}
  <2>1. DOMAIN file = {<<>>} /\ file[<<>>] = Null
    BY <1>1
  <2>2. <<>> \in Seq(Pieces)
    OBVIOUS
  <2> QED
    BY <1>1, <2>1, <2>2 DEF TreeOK, RootOK
<1>4. LastOK
  <2>1. [absolute |-> TRUE, pieces |-> <<>>] \in Path
    BY DEF Path
  <2>2. 0 \in -1 .. 3
    OBVIOUS
  <2> QED
    BY <1>2, <2>1, <2>2, CallType DEF LastOK
<1>5. TypeOK
  BY <1>3, <1>4 DEF TypeOK, TreeOK, LastOK
<1>6. last.call # "open"
  BY <1>2 DEF Call
<1> QED
  BY <1>3, <1>4, <1>5, <1>6 DEF VfsInv, KopenResolves

LEMMA NextKeepsInv == VfsInv /\ [Next]_vars => VfsInv'
<1> SUFFICES ASSUME VfsInv, [Next]_vars PROVE VfsInv'
  OBVIOUS
<1>1. ASSUME NEW path \in MountPaths, NEW node \in Mountable, VfsMount(path, node)
      PROVE  VfsInv'
  BY <1>1, PathsOK, NodesApart, MountKeepsInv
<1>2. ASSUME NEW path \in OpenPaths, Open(path) \/ CreateFileVfs(path)
      PROVE  VfsInv'
  BY <1>2, PathsOK, OpenKeepsInv
<1> QED
  BY <1>1, <1>2, StutterKeepsInv DEF Next

\* kopen returns what the path stands for: the deepest mount on the path, once
\* every ".." has taken back the name before it, and from there what the
\* mounted file systems find; for every path and every history of mounts.
THEOREM KopenResolvesPaths == Spec => []KopenResolves
<1>1. VfsInv => KopenResolves
  BY DEF VfsInv
<1> QED
  BY <1>1, InitInv, NextKeepsInv, PTL DEF Spec

\* A path keeps its meaning when nothing is mounted on its way.
LEMMA SameMeaning ==
    ASSUME TreeOK, TreeOK', NEW path \in Seq(Pieces),
           \A k \in 0 .. Len(path) : Mounted(SubSeq(path, 1, k))' = Mounted(SubSeq(path, 1, k))
    PROVE  Resolved(path)' = Resolved(path)
<1> DEFINE n == Len(path)
           mounted == {k \in 0 .. n : Mounted(SubSeq(path, 1, k)) # Null}
           to(k) == Mounted(SubSeq(path, 1, k))
<1>1. n \in Nat /\ mounted \in SUBSET (0 .. n)
  OBVIOUS
<1>2. mounted = {k \in 0 .. n : /\ SubSeq(path, 1, k) \in DOMAIN file
                                /\ file[SubSeq(path, 1, k)] # Null}
  BY DEF Mounted
<1>3. mounted = {k \in 0 .. n : /\ SubSeq(path, 1, k) \in DOMAIN file'
                                /\ file'[SubSeq(path, 1, k)] # Null}
  BY DEF Mounted
<1>4. CASE mounted = {}
  BY <1>2, <1>3, <1>4 DEF Resolved
<1>5. CASE mounted # {}
  <2> DEFINE m == Max(mounted)
             q == SubSeq(path, 1, m)
  <2>1. m \in mounted
    BY <1>1, <1>5, Largest
  <2> HIDE DEF m
  <2>2. file'[q] = file[q]
    BY <2>1, <1>2, <1>3 DEF Mounted
  <2>3. Resolved(path) = FindFrom(path, m, file[q])
    <3> HIDE DEF mounted
    <3> QED
      BY <1>2, <1>5 DEF Resolved, m
  <2>4. Resolved(path)' = FindFrom(path, m, file'[q])
    <3> HIDE DEF mounted
    <3> QED
      BY <1>3, <1>5 DEF Resolved, m
  <2> QED
    BY <2>2, <2>3, <2>4
<1> QED
  BY <1>4, <1>5

LEMMA PrefixIs ==
    ASSUME NEW path \in Seq(Pieces), NEW k \in 0 .. Len(path)
    PROVE  IsPrefix(SubSeq(path, 1, k), path)
<1> DEFINE q == SubSeq(path, 1, k)
<1>1. q \in Seq(Pieces) /\ Len(q) = k /\ Len(path) \in Nat
  BY Prefix
<1>2. k \in Nat /\ k \in 0 .. k /\ k <= Len(path)
  BY <1>1
<1>3. SubSeq(q, 1, k) = q
  BY <1>2, PrefixOfPrefix
<1> HIDE DEF q
<1> QED
  BY <1>1, <1>2, <1>3 DEF IsPrefix, q

LEMMA CanonicalPaths == Canonical \subseteq Seq(Pieces)
BY PathsOK, CanonicalIs, NamesArePieces DEF Canonical

\* A mount that fails changes what no path opens; one that succeeds only what
\* paths at and below its mount point open.  Every mount of every node at every
\* path.
THEOREM MountsAreLocal == Spec => MountLocal
<1> DEFINE Local == last'.call = "mount" =>
              \A path \in Canonical :
                  \/ Kopen(path)' = Kopen(path)
                  \/ last'.ret = 0 /\ IsPrefix(MountedAt(last'.path), path)
<1>1. TreeOK' /\ RootOK' => \A path \in Seq(Pieces) : Kopen(path)' = Resolved(path)'
  <2>1. (TreeOK /\ RootOK => \A path \in Seq(Pieces) : Kopen(path) = Resolved(path))'
    BY KopenAll, PTL
  <2> QED
    BY <2>1
<1>2. VfsInv /\ VfsInv' /\ Next => Local
  <2> SUFFICES ASSUME VfsInv, VfsInv', Next, last'.call = "mount", NEW path \in Canonical
               PROVE  \/ Kopen(path)' = Kopen(path)
                      \/ last'.ret = 0 /\ IsPrefix(MountedAt(last'.path), path)
    OBVIOUS
  <2>1. path \in Seq(Pieces)
    BY CanonicalPaths
  <2>2. \E from \in MountPaths, node \in Mountable : VfsMount(from, node)
    BY DEF Next, Open, CreateFileVfs, Call
  <2>3. PICK from \in MountPaths, node \in Mountable : VfsMount(from, node)
    BY <2>2
  <2>4. PICK ret \in {0, 2, 3} : MountDone(from, node, MountedAt(from), ret)
    BY <2>3, PathsOK, NodesApart, MountIs DEF VfsInv
  <2>5. last'.ret = ret /\ last'.path = from
    BY <2>4 DEF MountDone, Call
  <2>6. CASE ret = 0 /\ IsPrefix(MountedAt(from), path)
    BY <2>5, <2>6
  <2>7. CASE ~(ret = 0 /\ IsPrefix(MountedAt(from), path))
    <3>1. \A k \in 0 .. Len(path) : SubSeq(path, 1, k) # MountedAt(from) \/ ret # 0
      BY <2>1, <2>7, PrefixIs
    <3>2. \A k \in 0 .. Len(path) :
             Mounted(SubSeq(path, 1, k))' = Mounted(SubSeq(path, 1, k))
      BY <2>4, <3>1 DEF MountDone
    <3>3. TreeOK /\ RootOK /\ TreeOK' /\ RootOK'
      BY DEF VfsInv
    <3>4. Resolved(path)' = Resolved(path)
      BY <2>1, <3>2, <3>3, SameMeaning
    <3>5. Kopen(path) = Resolved(path)
      BY <2>1, <3>3, KopenAll
    <3>6. Kopen(path)' = Resolved(path)'
      BY <1>1, <2>1, <3>3
    <3> QED
      BY <3>4, <3>5, <3>6
  <2> QED
    BY <2>6, <2>7
<1>3. VfsInv /\ VfsInv' /\ [Next]_vars => [Local]_vars
  BY <1>2
<1> QED
  BY <1>3, InitInv, NextKeepsInv, PTL DEF Spec, MountLocal

-----------------------------------------------------------------------------
(* The file systems of the kernel.                                         *)

\* The nodes that the kernel mounts.
BootNodes == {"null", "zero", "serial", "devfs", "sysfs", "initrd"}

LEMMA BootNodesOK == BootNodes \subseteq KernelNodes /\ BootNodes \subseteq FsNodes
<1>1. KernelNodes \subseteq FsNodes
  BY FsAssumption
<1> QED
  BY <1>1 DEF BootNodes, KernelNodes

\* Where the devices are mounted, and what.
DevPoint(k) ==
    CASE k = 1 -> <<"dev", "null">> [] k = 2 -> <<"dev", "zero">>
      [] k = 3 -> <<"dev", "serial0">> [] k = 4 -> <<"dev">>

DevNode(k) ==
    CASE k = 1 -> "null" [] k = 2 -> "zero" [] k = 3 -> "serial" [] k = 4 -> "devfs"

\* A path of a name and one more piece.
LEMMA TwoPieces ==
    ASSUME NEW a \in Names, NEW b \in Pieces
    PROVE  /\ Absolute(<<a, b>>) \in Path
           /\ Absolute(<<a, b>>).pieces # <<>> /\ Absolute(<<a, b>>).absolute
           /\ b \in Names => /\ CanonicalizePath(Absolute(<<a, b>>)) = <<a, b>>
                             /\ MountedAt(Absolute(<<a, b>>)) = <<a, b>>
           /\ b = NoName => /\ CanonicalizePath(Absolute(<<a, b>>)) = <<a>>
                            /\ MountedAt(Absolute(<<a, b>>)) = <<a>>
<1> DEFINE p == <<a, b>>
           path == Absolute(p)
           S(k) == Picked(p, Stays(p, k))
<1>1. a \in Pieces
  BY Zenon DEF Pieces
<1>2. p \in Seq(Pieces) /\ Len(p) = 2 /\ p[1] = a /\ p[2] = b /\ p # <<>>
  BY <1>1
<1>3. path.pieces = p /\ path.absolute = TRUE /\ path \in Path
  BY <1>2 DEF Absolute, Path
<1>4. NoName \notin Names /\ NoName \in Skipped
  <2>1. "" \notin Names
    BY VfsAssumption, Zenon
  <2> QED
    BY <2>1, Zenon DEF NoName, Skipped
<1>5. S(0) = <<>>
  BY PickedNone
<1> HIDE DEF p, path
<1>6. S(1) = Pushed(S(0), a) /\ S(2) = Pushed(S(1), b)
  <2>1. 1 \in 1 .. Len(p) /\ 2 \in 1 .. Len(p) /\ 1 - 1 = 0 /\ 2 - 1 = 1
    BY <1>2
  <2> QED
    BY <1>2, <2>1, PushedIs
<1>7. CanonicalizePath(path) = S(2)
  BY <1>2, <1>3, CanonicalIs DEF Kept
<1> HIDE DEF S
<1>8. S(1) = <<a>>
  <2>1. S(1) = Append(<<>>, a)
    BY <1>5, <1>6, PushedCases
  <2> QED
    BY <2>1
<1>9. b \in Names => S(2) = <<a, b>>
  <2>1. b \in Names => S(2) = Append(<<a>>, b)
    BY <1>6, <1>8, PushedCases
  <2> QED
    BY <2>1
<1>10. b = NoName => S(2) = <<a>>
  BY <1>4, <1>6, <1>8, PushedCases
<1>11. MountedAt(path) = IF Last(p) = NoName THEN Front(p) ELSE p
  <2>1. MountedAt(path) = IF path.pieces[1] = NoName THEN <<>> ELSE MountPieces(path)
    BY Zenon DEF MountedAt, NoName
  <2>2. MountPieces(path) = IF Last(path.pieces) = NoName THEN Front(path.pieces)
                            ELSE path.pieces
    BY Zenon DEF MountPieces, NoName
  <2> QED
    BY <1>2, <1>3, <1>4, <2>1, <2>2
<1>12. Last(p) = b /\ Front(p) = <<a>>
  <2>1. Last(p) = b
    BY <1>2 DEF Last
  <2>2. Front(p) = <<a>>
    <3> DEFINE q == Front(p)
    <3>1. 1 \in 0 .. Len(p) /\ Len(p) - 1 = 1 /\ 1 \in 1 .. 1
      BY <1>2
    <3>2. q \in Seq(Pieces) /\ Len(q) = 1 /\ q[1] = a
      BY <1>2, <3>1, Prefix DEF Front
    <3> HIDE DEF q
    <3>3. q = <<a>>
      BY <3>2
    <3> QED
      BY <3>3 DEF q
  <2> QED
    BY <2>1, <2>2
<1> QED
  BY <1>2, <1>3, <1>4, <1>7, <1>9, <1>10, <1>11, <1>12 DEF path, p

LEMMA DeviceMountsAre ==
    /\ Len(DeviceMounts) = 4
    /\ DeviceMounts[1][1] = <<"dev", "null">> /\ DeviceMounts[2][1] = <<"dev", "zero">>
    /\ DeviceMounts[3][1] = <<"dev", "serial0">> /\ DeviceMounts[4][1] = <<"dev", NoName>>
    /\ \A k \in 1 .. 4 : DeviceMounts[k][2] = DevNode(k)
<1>1. DeviceMounts =
        <<<<<<"dev", "null">>, "null">>, <<<<"dev", "zero">>, "zero">>,
          <<<<"dev", "serial0">>, "serial">>, <<<<"dev", NoName>>, "devfs">>>>
  BY Zenon DEF DeviceMounts, NoName
<1>2. \A k \in 1 .. 4 : k = 1 \/ k = 2 \/ k = 3 \/ k = 4
  OBVIOUS
<1> QED
  BY <1>1, <1>2 DEF DevNode

\* The path a device is mounted with.
DevPath(k) == Absolute(DeviceMounts[k][1])

LEMMA DevicesAre ==
    ASSUME NEW k \in 1 .. 4
    PROVE  /\ DevPath(k) \in Path /\ DevPath(k).pieces # <<>> /\ DevPath(k).absolute
           /\ CanonicalizePath(DevPath(k)) = DevPoint(k)
           /\ MountedAt(DevPath(k)) = DevPoint(k)
           /\ DevPoint(k) \in Seq(Pieces) /\ DevNode(k) \in BootNodes
           /\ DevPoint(k) # <<"sys">> /\ DevPoint(k) # <<"boot">>
           /\ \A j \in 1 .. 4 : DevPoint(j) = DevPoint(k) => j = k
<1>1. k = 1 \/ k = 2 \/ k = 3 \/ k = 4
  OBVIOUS
<1>2. {"dev", "null", "zero", "serial0", "sys", "boot"} \subseteq Names
  BY FsAssumption
<1>3. Names \subseteq Pieces /\ NoName \in Pieces
  BY Zenon DEF Pieces, NoName
<1>4. \A j \in 1 .. 4 : j = 1 \/ j = 2 \/ j = 3 \/ j = 4
  OBVIOUS
<1>5. /\ DevPoint(k) \in Seq(Pieces) /\ DevNode(k) \in BootNodes
      /\ DevPoint(k) # <<"sys">> /\ DevPoint(k) # <<"boot">>
  BY <1>1, <1>2, <1>3 DEF DevPoint, DevNode, BootNodes
<1>6. \A j \in 1 .. 4 : DevPoint(j) = DevPoint(k) => j = k
  BY <1>1, <1>4 DEF DevPoint
<1>7. /\ DevPath(k) \in Path /\ DevPath(k).pieces # <<>> /\ DevPath(k).absolute
      /\ CanonicalizePath(DevPath(k)) = DevPoint(k)
      /\ MountedAt(DevPath(k)) = DevPoint(k)
  <2> DEFINE Holds(p, at) == /\ p \in Path /\ p.pieces # <<>> /\ p.absolute
                            /\ CanonicalizePath(p) = at /\ MountedAt(p) = at
  <2>1. \A b \in Names : Holds(Absolute(<<"dev", b>>), <<"dev", b>>)
    BY <1>2, <1>3, TwoPieces
  <2>2. Holds(Absolute(<<"dev", NoName>>), <<"dev">>)
    BY <1>2, <1>3, TwoPieces
  <2>3. "null" \in Names /\ "zero" \in Names /\ "serial0" \in Names
    BY <1>2
  <2> HIDE DEF Holds
  <2>4. Holds(DevPath(k), DevPoint(k))
    BY <1>1, <2>1, <2>2, <2>3, DeviceMountsAre DEF DevPath, DevPoint
  <2> QED
    BY <2>4 DEF Holds
<1> QED
  BY <1>5, <1>6, <1>7

\* A path with something mounted at its end opens that.
LEMMA OpensMount ==
    ASSUME TreeOK, RootOK, NEW path \in Seq(Pieces), Mounted(path) # Null
    PROVE  Kopen(path) = Mounted(path)
<1> DEFINE n == Len(path)
           mounted == MountedTo(path, n)
<1>1. n \in Nat /\ n \in 0 .. n /\ SubSeq(path, 1, n) = path
  OBVIOUS
<1>2. path \in DOMAIN file /\ Mounted(path) = file[path]
  BY DEF Mounted
<1>3. n \in mounted /\ mounted \in SUBSET Nat /\ \A k \in mounted : k <= n
  <2> HIDE DEF n
  <2>1. n \in mounted
    BY <1>1, <1>2 DEF MountedTo
  <2> QED
    BY <1>1, <2>1 DEF MountedTo
<1>4. Max(mounted) = n
  BY <1>3, MaxIs
<1>5. Resolved(path) = IF mounted = {} THEN Junk
                       ELSE FindFrom(path, Max(mounted),
                                     file[SubSeq(path, 1, Max(mounted))])
  BY DEF Resolved, MountedTo
<1>6. Resolved(path) = FindFrom(path, n, file[path])
  <2> HIDE DEF mounted, n
  <2> QED
    BY <1>1, <1>3, <1>4, <1>5
<1>7. FindFrom(path, n, file[path]) = file[path]
  BY <1>1, FindNowhere
<1> QED
  BY <1>2, <1>6, <1>7, KopenAll

\* The devices mounted so far are where init_vfs_devices put them, and nothing
\* is where it will put the others.
DevicesPlaced ==
    \A k \in 1 .. 4 : Mounted(DevPoint(k)) = IF k <= mounts THEN DevNode(k) ELSE Null

FsInv ==
    /\ VfsInv /\ DevicesPlaced
    /\ mounts \in 0 .. 4

LEMMA BootMount ==
    ASSUME VfsInv, NEW path \in Path, path.pieces # <<>>, path.absolute,
           NEW node \in BootNodes, VfsMount(path, node)
    PROVE  /\ VfsInv'
           /\ \A q : q # MountedAt(path) => Mounted(q)' = Mounted(q)
           /\ Mounted(MountedAt(path)) = Null => Mounted(MountedAt(path))' = node
<1>1. node \in FsNodes /\ TreeOK /\ RootOK
  BY BootNodesOK DEF VfsInv
<1>2. VfsInv'
  BY <1>1, MountKeepsInv
<1>3. PICK ret \in {0, 2, 3} : MountDone(path, node, MountedAt(path), ret)
  BY <1>1, MountIs
<1> DEFINE at == MountedAt(path)
<1> HIDE DEF at
<1>4. /\ \A q : q # at \/ ret # 0 => Mounted(q)' = Mounted(q)
      /\ ret = 0 => Mounted(at)' = node
      /\ ret # 0 => Mounted(at) # Null
  BY <1>3 DEF MountDone, at
<1> QED
  BY <1>2, <1>4 DEF at

LEMMA FsInitInv == Init /\ FsInit => FsInv
<1> SUFFICES ASSUME Init, FsInit PROVE FsInv
  OBVIOUS
<1>1. VfsInv
  BY InitInv
<1>2. DOMAIN file = {<<>>} /\ file[<<>>] = Null
  BY DEF Init
<1>3. \A q : Mounted(q) = Null
  BY <1>2 DEF Mounted
<1>4. mounts = 0
  BY DEF FsInit
<1> QED
  BY <1>1, <1>3, <1>4 DEF FsInv, DevicesPlaced

LEMMA DevicesKeepInv == FsInv /\ InitVfsDevices => FsInv'
<1> SUFFICES ASSUME FsInv, InitVfsDevices PROVE FsInv'
  OBVIOUS
<1>1. mounts \in 0 .. 4 /\ mounts < 4
  BY DeviceMountsAre DEF FsInv, InitVfsDevices
<1>2. PICK k \in 1 .. 4 : k = mounts + 1
  BY <1>1
<1>3. VfsMount(DevPath(k), DevNode(k))
  BY <1>2, DeviceMountsAre DEF InitVfsDevices, DevPath
<1>4. mounts' = mounts + 1
  BY DEF InitVfsDevices
<1>5. /\ VfsInv'
      /\ \A q : q # DevPoint(k) => Mounted(q)' = Mounted(q)
      /\ Mounted(DevPoint(k)) = Null => Mounted(DevPoint(k))' = DevNode(k)
  BY <1>2, <1>3, DevicesAre, BootMount DEF FsInv
<1>6. Mounted(DevPoint(k)) = Null
  BY <1>1, <1>2 DEF FsInv, DevicesPlaced
<1>7. ASSUME NEW j \in 1 .. 4
      PROVE  Mounted(DevPoint(j))' = IF j <= mounts' THEN DevNode(j) ELSE Null
  <2>1. CASE j = k
    BY <1>1, <1>2, <1>4, <1>5, <1>6, <2>1
  <2>2. CASE j # k
    <3>1. DevPoint(j) # DevPoint(k)
      BY <1>2, <2>2, DevicesAre
    <3>2. Mounted(DevPoint(j))' = Mounted(DevPoint(j))
      BY <1>5, <3>1
    <3>3. Mounted(DevPoint(j)) = IF j <= mounts THEN DevNode(j) ELSE Null
      BY DEF FsInv, DevicesPlaced
    <3>4. j <= mounts' <=> j <= mounts
      BY <1>1, <1>2, <1>4, <2>2
    <3> QED
      BY <3>2, <3>3, <3>4
  <2> QED
    BY <2>1, <2>2
<1>8. mounts' \in 0 .. 4
  BY <1>1, <1>4
<1> QED
  BY <1>4, <1>5, <1>7, <1>8 DEF FsInv, DevicesPlaced

LEMMA OtherKeepsInv == FsInv /\ MountOther => FsInv'
<1> SUFFICES ASSUME FsInv, MountOther PROVE FsInv'
  OBVIOUS
<1>1. mounts' = mounts
  BY Zenon DEF MountOther, fsVars
<1>2. \/ VfsMount(Absolute(<<"sys", NoName>>), "sysfs")
      \/ VfsMount(Absolute(<<"boot", NoName>>), "initrd")
  BY Zenon DEF MountOther, NoName
<1>3. {"dev", "null", "zero", "serial0", "sys", "boot"} \subseteq Names
  BY FsAssumption
<1>4. "sys" \in Names /\ "boot" \in Names
  BY <1>3
<1>5. NoName \in Pieces
  BY Zenon DEF Pieces, NoName
<1>6. "sysfs" \in BootNodes /\ "initrd" \in BootNodes
  BY DEF BootNodes
<1>7. ASSUME NEW a \in {"sys", "boot"}, NEW node \in BootNodes,
             VfsMount(Absolute(<<a, NoName>>), node)
      PROVE  VfsInv' /\ \A q : q # <<a>> => Mounted(q)' = Mounted(q)
  <2> DEFINE path == Absolute(<<a, NoName>>)
  <2>1. /\ path \in Path /\ path.pieces # <<>> /\ path.absolute
        /\ MountedAt(path) = <<a>>
    BY <1>4, <1>5, TwoPieces
  <2>2. VfsMount(path, node)
    BY <1>7
  <2> HIDE DEF path
  <2> QED
    BY <2>1, <2>2, BootMount DEF FsInv
<1>8. /\ VfsInv'
      /\ \A q : q # <<"sys">> /\ q # <<"boot">> => Mounted(q)' = Mounted(q)
  BY <1>2, <1>6, <1>7
<1>9. \A k \in 1 .. 4 : Mounted(DevPoint(k))' = Mounted(DevPoint(k))
  BY <1>8, DevicesAre
<1> QED
  BY <1>1, <1>8, <1>9 DEF FsInv, DevicesPlaced

\* What is mounted depends on the tree alone.
LEMMA TreeUnchanged ==
    ASSUME file' = file
    PROVE  \A q : Mounted(q)' = Mounted(q)
BY DEF Mounted

LEMMA OpenFileKeepsInv ==
    ASSUME FsInv, NEW path \in OpenPaths, OpenFile(path)
    PROVE  FsInv'
<1>1. path \in Path
  BY PathsOK
<1>2. Open(path) /\ mounts' = mounts
  BY DEF OpenFile, fsVars
<1>3. VfsInv'
  BY <1>1, <1>2, OpenKeepsInv DEF FsInv
<1>4. file' = file
  BY <1>2 DEF Open
<1> QED
  BY <1>2, <1>3, <1>4, TreeUnchanged DEF FsInv, DevicesPlaced

LEMMA StillKeepsInv ==
    ASSUME FsInv, UNCHANGED <<vars, mounts>>
    PROVE  FsInv'
<1>1. VfsInv'
  BY StutterKeepsInv DEF FsInv
<1>2. file' = file
  BY DEF vars
<1> QED
  BY <1>1, <1>2, TreeUnchanged DEF FsInv, DevicesPlaced

LEMMA FsNextInv == FsInv /\ [FsNext]_<<vars, fsVars>> => FsInv'
<1> SUFFICES ASSUME FsInv, [FsNext]_<<vars, fsVars>> PROVE FsInv'
  OBVIOUS
<1>1. ASSUME NEW n \in KernelNodes, WriteVfs(n)
      PROVE  FsInv'
  BY <1>1, StillKeepsInv DEF WriteVfs
<1>2. CASE UNCHANGED <<vars, fsVars>>
  BY <1>2, StillKeepsInv DEF fsVars
<1> QED
  BY <1>1, <1>2, DevicesKeepInv, OtherKeepsInv, OpenFileKeepsInv DEF FsNext

\* Every device that init_vfs_devices has mounted opens under its path, from
\* then on: the later mount over /dev hides none of those below it, and no
\* mount elsewhere takes one away.
THEOREM DevicesStayReachable == FsSpec => []DevicesReachable
<1>1. FsInv => DevicesReachable
  <2> SUFFICES ASSUME FsInv, NEW k \in 1 .. mounts
               PROVE  Kopen(CanonicalizePath(Absolute(DeviceMounts[k][1]))) = DeviceMounts[k][2]
    BY DEF DevicesReachable
  <2>1. k \in 1 .. 4 /\ k <= mounts
    BY DEF FsInv
  <2>2. Mounted(DevPoint(k)) = DevNode(k)
    BY <2>1 DEF FsInv, DevicesPlaced
  <2>3. /\ CanonicalizePath(DevPath(k)) = DevPoint(k)
        /\ DevPoint(k) \in Seq(Pieces) /\ DevNode(k) \in BootNodes
    BY <2>1, DevicesAre
  <2>4. DevNode(k) # Null
    BY <2>3, BootNodesOK, NodesApart
  <2>5. Kopen(DevPoint(k)) = DevNode(k)
    BY <2>2, <2>3, <2>4, OpensMount DEF FsInv, VfsInv
  <2> QED
    BY <2>1, <2>3, <2>5, DeviceMountsAre DEF DevPath
<1> QED
  BY <1>1, FsInitInv, FsNextInv, PTL DEF FsSpec

=============================================================================
