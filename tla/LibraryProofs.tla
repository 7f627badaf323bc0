---------------------------- MODULE LibraryProofs ---------------------------
(***************************************************************************)
(* Theorems about the library functions.  The ordered array is sorted and  *)
(* complete; the scan of do_printf ends with its format, and what it       *)
(* prints can be read back; the copying functions copy all their bytes and *)
(* change no other; strtok_r returns the words of its text.                *)
(***************************************************************************)
EXTENDS OrderedArray, Printf, Strings, FiniteSetTheorems, TLAPS

-----------------------------------------------------------------------------
(* The ordered array.                                                      *)

\* Induction over numbers, as far as the provers reach: a set of numbers that
\* is not empty has a least element.
LEMMA NatMin ==
    ASSUME NEW T \in SUBSET Nat, T # {}
    PROVE  \E x \in T : \A y \in T : x <= y
<1>1. \E x \in T : \A y \in T : ~(<<y, x>> \in OpToRel(<, Nat))
  BY WFMin, NatLessThanWellFounded
<1>2. \A x, y \in Nat : y < x => <<y, x>> \in OpToRel(<, Nat)
  BY Zenon DEF OpToRel
<1>3. \E x \in T : \A y \in T : ~(y < x)
  BY <1>1, <1>2, Zenon
<1> QED
  BY <1>3

\* The cells below n with the value v.
Cells(a, n, v) == {k \in 0 .. n - 1 : a[k] = v}

LEMMA CellsFinite ==
    ASSUME NEW n \in Int, NEW a, NEW v
    PROVE  IsFiniteSet(Cells(a, n, v)) /\ Cardinality(Cells(a, n, v)) \in Nat
<1>1. IsFiniteSet(0 .. n - 1)
  BY FS_Interval
<1>2. Cells(a, n, v) \in SUBSET (0 .. n - 1)
  BY DEF Cells
<1>3. IsFiniteSet(Cells(a, n, v))
  BY <1>1, <1>2, FS_Subset
<1> QED
  BY <1>3, FS_CardinalityType

\* b is a with one more cell at p: what it holds is what a holds and b[p].
Widened(a, b, n, p) ==
    /\ \A k \in 0 .. p - 1 : b[k] = a[k]
    /\ \A k \in p .. n - 1 : b[k + 1] = a[k]

LEMMA CountWidened ==
    ASSUME NEW n \in Nat, NEW p \in 0 .. n, NEW a, NEW b, Widened(a, b, n, p),
           NEW v
    PROVE  Cardinality(Cells(b, n + 1, v)) =
              Cardinality(Cells(a, n, v)) + IF b[p] = v THEN 1 ELSE 0
<1> DEFINE A == Cells(a, n, v)
           B == Cells(b, n + 1, v)
           shift == [k \in A |-> IF k < p THEN k ELSE k + 1]
<1>1. A \subseteq 0 .. n - 1 /\ p \notin Cells(b, n + 1, v) \ {p}
  BY DEF Cells
<1>2. \A k \in A : /\ shift[k] \in 0 .. n /\ shift[k] # p
                   /\ shift[k] = IF k < p THEN k ELSE k + 1
                   /\ b[shift[k]] = v
  <2> SUFFICES ASSUME NEW k \in A
               PROVE  /\ shift[k] \in 0 .. n /\ shift[k] # p
                      /\ shift[k] = IF k < p THEN k ELSE k + 1
                      /\ b[shift[k]] = v
    OBVIOUS
  <2>1. k \in 0 .. n - 1 /\ a[k] = v
    BY DEF Cells
  <2>2. CASE k < p
    <3>1. shift[k] = k /\ k \in 0 .. p - 1
      BY <2>1, <2>2
    <3> QED
      BY <2>1, <2>2, <3>1 DEF Widened
  <2>3. CASE ~(k < p)
    <3>1. shift[k] = k + 1 /\ k \in p .. n - 1
      BY <2>1, <2>3
    <3> QED
      BY <2>1, <2>3, <3>1 DEF Widened
  <2> QED
    BY <2>2, <2>3
<1>3. shift \in [A -> B \ {p}]
  <2>1. \A k \in A : shift[k] \in B \ {p}
    <3>1. (n + 1) - 1 = n
      OBVIOUS
    <3> QED
      BY <1>2, <3>1 DEF Cells
  <2> QED
    BY <2>1
<1>4. \A j, k \in A : shift[j] = shift[k] => j = k
  <2> SUFFICES ASSUME NEW j \in A, NEW k \in A, shift[j] = shift[k]
               PROVE  j = k
    OBVIOUS
  <2>1. j \in Int /\ k \in Int
    BY <1>1
  <2> QED
    BY <1>2, <2>1
<1>5. \A m \in B \ {p} : \E k \in A : shift[k] = m
  <2> SUFFICES ASSUME NEW m \in B \ {p} PROVE \E k \in A : shift[k] = m
    OBVIOUS
  <2>1. m \in 0 .. n /\ m # p /\ b[m] = v
    <3>1. (n + 1) - 1 = n
      OBVIOUS
    <3> QED
      BY <3>1 DEF Cells
  <2>2. CASE m < p
    <3>1. m \in 0 .. p - 1 /\ m \in 0 .. n - 1
      BY <2>1, <2>2
    <3>2. a[m] = v
      BY <2>1, <3>1 DEF Widened
    <3>3. m \in A
      BY <3>1, <3>2 DEF Cells
    <3> QED
      BY <2>2, <3>3
  <2>3. CASE ~(m < p)
    <3>1. m - 1 \in p .. n - 1 /\ m - 1 \in 0 .. n - 1 /\ (m - 1) + 1 = m
          /\ ~(m - 1 < p)
      BY <2>1, <2>3
    <3>2. b[(m - 1) + 1] = a[m - 1]
      BY <3>1 DEF Widened
    <3>3. a[m - 1] = v
      BY <2>1, <3>1, <3>2
    <3>4. m - 1 \in A
      BY <3>1, <3>3 DEF Cells
    <3> QED
      BY <1>2, <3>1, <3>4
  <2> QED
    BY <2>2, <2>3
<1>6. IsFiniteSet(A) /\ IsFiniteSet(B) /\ Cardinality(A) \in Nat
      /\ Cardinality(B) \in Nat
  BY CellsFinite
<1> HIDE DEF A, B, shift
<1>7. Cardinality(B \ {p}) = Cardinality(A)
  <2>1. shift \in Injection(A, B \ {p})
    BY <1>3, <1>4 DEF Injection, IsInjective
  <2>2. shift \in Surjection(A, B \ {p})
    BY <1>3, <1>5 DEF Surjection
  <2>3. ExistsBijection(A, B \ {p})
    BY <2>1, <2>2 DEF ExistsBijection, Bijection
  <2> QED
    BY <1>6, <2>3, FS_Bijection
<1>8. p \in B <=> b[p] = v
  BY DEF B, Cells
<1>9. Cardinality(B \ {p}) = IF p \in B THEN Cardinality(B) - 1 ELSE Cardinality(B)
  BY <1>6, FS_RemoveElement
<1>10. Cardinality(B) = Cardinality(A) + IF b[p] = v THEN 1 ELSE 0
  BY <1>6, <1>7, <1>8, <1>9
<1> QED
  BY <1>10 DEF A, B

-----------------------------------------------------------------------------

\* The cells are numbers, those below size are items, and the size fits.
ArrayTypes ==
    /\ size \in 0 .. max_size
    /\ array \in [0 .. max_size -> Nat]
    /\ \A k \in 0 .. size - 1 : array[k] \in Items
    /\ held \in [Items -> Nat]

ArrayInv == ArrayTypes /\ ArraySorted

\* The scan of insert_ordered_array stops at a cell, and in order.
LEMMA PlaceFound ==
    ASSUME ArrayTypes, NEW item \in Items
    PROVE  LET p == Place(item)
           IN  /\ p \in 0 .. size
               /\ p = size \/ ~(array[p] < item)
               /\ \A j \in 0 .. p - 1 : array[j] < item
<1> DEFINE Stops(k) == k = size \/ ~less_than(array[k], item)
           T == {k \in 0 .. size : Stops(k)}
<1>1. size \in Nat /\ max_size \in Nat
  BY OrderedArrayAssumption DEF ArrayTypes
<1>2. T \in SUBSET Nat /\ size \in T
  BY <1>1
<1>3. PICK x \in T : \A y \in T : x <= y
  BY <1>2, NatMin
<1>4. x \in 0 .. size /\ Stops(x)
  BY <1>3
<1>5. \A j \in 0 .. x - 1 : less_than(array[j], item)
  <2> SUFFICES ASSUME NEW j \in 0 .. x - 1 PROVE less_than(array[j], item)
    OBVIOUS
  <2>1. j \in 0 .. size /\ ~(x <= j)
    BY <1>1, <1>4
  <2>2. j \notin T
    BY <1>3, <2>1
  <2> QED
    BY <2>1, <2>2
<1> HIDE DEF T
<1>6. \E k \in 0 .. size :
        /\ k = size \/ ~less_than(array[k], item)
        /\ \A j \in 0 .. k - 1 : less_than(array[j], item)
  BY <1>4, <1>5
<1>7. /\ Place(item) \in 0 .. size
      /\ Place(item) = size \/ ~less_than(array[Place(item)], item)
      /\ \A j \in 0 .. Place(item) - 1 : less_than(array[j], item)
  BY <1>6 DEF Place
<1> QED
  BY <1>7 DEF less_than

LEMMA SortedCells ==
    ArraySorted <=>
        /\ \A k \in 0 .. size - 2 : array[k] <= array[k + 1]
        /\ \A item \in Items : Cardinality(Cells(array, size, item)) = held[item]
        /\ array[max_size] = 99
BY DEF ArraySorted, Cells

LEMMA InsertKeeps ==
    ASSUME ArrayInv, NEW item \in Items, InsertItem(item)
    PROVE  ArrayInv'
<1> DEFINE p == Place(item)
           n == size
<1>1. /\ n \in Nat /\ n < max_size /\ max_size \in Nat /\ size' = n + 1
      /\ item \in Nat
  BY OrderedArrayAssumption DEF InsertItem, ArrayInv, ArrayTypes
<1>2. /\ p \in 0 .. n /\ p \in Nat /\ (p = n \/ ~(array[p] < item))
      /\ \A j \in 0 .. p - 1 : array[j] < item
  BY <1>1, PlaceFound DEF ArrayInv
<1>3. array' = [k \in 0 .. max_size |->
                   CASE k = p -> item
                     [] k > p /\ k <= n -> array[k - 1]
                     [] OTHER -> array[k]]
  BY DEF InsertItem
<1>4. held' = [held EXCEPT ![item] = @ + 1]
  BY DEF InsertItem
<1> HIDE DEF p
<1>5. /\ array'[p] = item
      /\ \A k \in 0 .. p - 1 : array'[k] = array[k]
      /\ \A k \in n + 1 .. max_size : array'[k] = array[k]
  BY <1>1, <1>2, <1>3
<1>6. \A k \in p .. n - 1 : array'[k + 1] = array[k]
  <2> SUFFICES ASSUME NEW k \in p .. n - 1 PROVE array'[k + 1] = array[k]
    OBVIOUS
  <2>1. k + 1 \in 0 .. max_size /\ k + 1 > p /\ k + 1 <= n /\ (k + 1) - 1 = k
        /\ k + 1 # p
    BY <1>1, <1>2
  <2> QED
    BY <1>3, <2>1
<1>7. array \in [0 .. max_size -> Nat] /\ held \in [Items -> Nat]
      /\ \A k \in 0 .. n - 1 : array[k] \in Items
  BY DEF ArrayInv, ArrayTypes
<1>8. ArrayTypes'
  <2>1. \A k \in 0 .. max_size : k > p /\ k <= n => k - 1 \in 0 .. max_size
    BY <1>1, <1>2
  <2>2. array' \in [0 .. max_size -> Nat]
    BY <1>1, <1>3, <1>7, <2>1
  <2>3. ASSUME NEW k \in 0 .. size' - 1 PROVE array'[k] \in Items
    <3>1. CASE k = p
      BY <1>5, <3>1
    <3>2. CASE k < p
      <4>1. k \in 0 .. p - 1 /\ k \in 0 .. n - 1
        BY <1>1, <1>2, <3>2
      <4> QED
        BY <1>5, <1>7, <4>1
    <3>3. CASE k > p
      <4>1. k - 1 \in p .. n - 1 /\ k - 1 \in 0 .. n - 1 /\ (k - 1) + 1 = k
        BY <1>1, <1>2, <3>3
      <4> QED
        BY <1>6, <1>7, <4>1
    <3> QED
      BY <1>1, <1>2, <3>1, <3>2, <3>3
  <2>4. held' \in [Items -> Nat]
    BY <1>4, <1>7
  <2>5. size' \in 0 .. max_size
    BY <1>1
  <2> QED
    BY <2>2, <2>3, <2>4, <2>5 DEF ArrayTypes
<1>9. ASSUME NEW k \in 0 .. size' - 2 PROVE array'[k] <= array'[k + 1]
  <2>0. k \in 0 .. n - 1 /\ k + 1 \in 1 .. n
    BY <1>1
  <2>1. CASE k + 1 < p
    <3>1. k \in 0 .. p - 1 /\ k + 1 \in 0 .. p - 1 /\ k \in 0 .. n - 2
      BY <1>1, <1>2, <2>0, <2>1
    <3>2. array[k] <= array[k + 1]
      BY <3>1 DEF ArrayInv, ArraySorted
    <3> QED
      BY <1>5, <3>1, <3>2
  <2>2. CASE k + 1 = p
    <3>1. k \in 0 .. p - 1 /\ k \in 0 .. max_size
      BY <1>1, <1>2, <2>0, <2>2
    <3>2. array[k] < item /\ array[k] \in Nat
      BY <1>2, <1>7, <3>1
    <3> QED
      BY <1>1, <1>5, <2>2, <3>1, <3>2
  <2>3. CASE k = p
    <3>1. k \in p .. n - 1 /\ p # n /\ p \in 0 .. max_size
      BY <1>1, <1>2, <2>0, <2>3
    <3>2. ~(array[p] < item) /\ array[p] \in Nat
      BY <1>2, <1>7, <3>1
    <3> QED
      BY <1>1, <1>5, <1>6, <2>3, <3>1, <3>2
  <2>4. CASE k > p
    <3>1. /\ k \in p .. n - 1 /\ k - 1 \in p .. n - 1 /\ (k - 1) + 1 = k
          /\ k - 1 \in 0 .. n - 2
      BY <1>1, <1>2, <2>0, <2>4
    <3>2. array[k - 1] <= array[(k - 1) + 1]
      BY <3>1 DEF ArrayInv, ArraySorted
    <3>3. array'[k] = array[k - 1] /\ array'[k + 1] = array[k]
      BY <1>6, <3>1
    <3> QED
      BY <3>1, <3>2, <3>3
  <2> QED
    BY <1>1, <1>2, <2>0, <2>1, <2>2, <2>3, <2>4
<1>10. ASSUME NEW v \in Items
       PROVE  Cardinality(Cells(array', n + 1, v)) = held'[v]
  <2>1. Widened(array, array', n, p)
    BY <1>5, <1>6 DEF Widened
  <2>2. Cardinality(Cells(array', n + 1, v)) =
           Cardinality(Cells(array, n, v)) + IF array'[p] = v THEN 1 ELSE 0
    BY <1>1, <1>2, <2>1, CountWidened
  <2>3. Cardinality(Cells(array, n, v)) = held[v]
    BY SortedCells DEF ArrayInv
  <2>4. held'[v] = held[v] + IF item = v THEN 1 ELSE 0
    BY <1>4, <1>7
  <2> QED
    BY <1>5, <2>2, <2>3, <2>4
<1>11. array'[max_size] = 99
  <2>1. max_size \in n + 1 .. max_size
    BY <1>1
  <2> QED
    BY <1>5, <2>1 DEF ArrayInv, ArraySorted
<1>12. ArraySorted'
  <2>1. ASSUME NEW v \in Items
        PROVE  Cardinality({k \in 0 .. size' - 1 : array'[k] = v}) = held'[v]
    BY <1>1, <1>10 DEF Cells
  <2> QED
    BY <1>9, <1>11, <2>1 DEF ArraySorted
<1> QED
  BY <1>8, <1>12 DEF ArrayInv

LEMMA RemoveKeeps ==
    ASSUME ArrayInv, NEW i \in 0 .. max_size - 1, RemoveItem(i)
    PROVE  ArrayInv'
<1> DEFINE n == size - 1
<1>1. /\ size \in Nat /\ size <= max_size /\ max_size \in Nat /\ size' = n
      /\ i \in 0 .. n /\ n \in Nat /\ i \in Nat /\ n + 1 = size
  BY OrderedArrayAssumption DEF RemoveItem, ArrayInv, ArrayTypes
<1>2. array' = [k \in 0 .. max_size |->
                   IF k \in i .. n THEN array[k + 1] ELSE array[k]]
  BY DEF RemoveItem
<1>3. held' = [held EXCEPT ![array[i]] = @ - 1]
  BY DEF RemoveItem
<1>4. /\ \A k \in 0 .. i - 1 : array'[k] = array[k]
      /\ \A k \in i .. n : array'[k] = array[k + 1]
      /\ \A k \in n + 1 .. max_size : array'[k] = array[k]
  BY <1>1, <1>2
<1>5. /\ array \in [0 .. max_size -> Nat] /\ held \in [Items -> Nat]
      /\ \A k \in 0 .. size - 1 : array[k] \in Items
  BY DEF ArrayInv, ArrayTypes
<1>6. array[i] \in Items
  BY <1>1, <1>5
<1>7. \A v \in Items : Cardinality(Cells(array, n + 1, v)) = held[v]
  BY <1>1, SortedCells DEF ArrayInv
<1>8. ASSUME NEW v \in Items
      PROVE  /\ Cardinality(Cells(array', n, v)) = held'[v]
             /\ held'[v] \in Nat
  <2>1. Widened(array', array, n, i)
    BY <1>1, <1>4 DEF Widened
  <2>2. Cardinality(Cells(array, n + 1, v)) =
           Cardinality(Cells(array', n, v)) + IF array[i] = v THEN 1 ELSE 0
    BY <1>1, <2>1, CountWidened
  <2>3. Cardinality(Cells(array', n, v)) \in Nat
    BY <1>1, CellsFinite
  <2>4. held'[v] = held[v] - IF array[i] = v THEN 1 ELSE 0
    BY <1>3, <1>5, <1>6
  <2> QED
    BY <1>5, <1>7, <2>2, <2>3, <2>4
<1>9. ArrayTypes'
  <2>1. \A k \in 0 .. max_size : k \in i .. n => k + 1 \in 0 .. max_size
    BY <1>1
  <2>2. array' \in [0 .. max_size -> Nat]
    BY <1>2, <1>5, <2>1
  <2>3. ASSUME NEW k \in 0 .. size' - 1 PROVE array'[k] \in Items
    <3>1. k \in 0 .. size - 1 /\ k + 1 \in 0 .. size - 1
      BY <1>1
    <3>2. k \in 0 .. i - 1 \/ k \in i .. n
      BY <1>1, <3>1
    <3> QED
      BY <1>4, <1>5, <3>1, <3>2
  <2>4. held' \in [Items -> Nat]
    BY <1>3, <1>5, <1>8
  <2>5. size' \in 0 .. max_size
    BY <1>1
  <2> QED
    BY <2>2, <2>3, <2>4, <2>5 DEF ArrayTypes
<1>10. ASSUME NEW k \in 0 .. size' - 2 PROVE array'[k] <= array'[k + 1]
  <2>0. k \in 0 .. size - 2 /\ k + 1 \in 0 .. size - 2
    BY <1>1
  <2>1. array[k] <= array[k + 1] /\ array[k + 1] <= array[(k + 1) + 1]
    BY <2>0 DEF ArrayInv, ArraySorted
  <2>2. CASE k + 1 < i
    <3>1. k \in 0 .. i - 1 /\ k + 1 \in 0 .. i - 1
      BY <1>1, <2>0, <2>2
    <3> QED
      BY <1>4, <2>1, <3>1
  <2>3. CASE k + 1 = i
    <3>1. k \in 0 .. i - 1 /\ k + 1 \in i .. n
      BY <1>1, <2>0, <2>3
    <3>2. /\ array[k] \in Nat /\ array[k + 1] \in Nat
          /\ array[(k + 1) + 1] \in Nat
      <4>1. /\ k \in 0 .. max_size /\ k + 1 \in 0 .. max_size
            /\ (k + 1) + 1 \in 0 .. max_size
        BY <1>1, <2>0
      <4> QED
        BY <1>5, <4>1
    <3>3. array'[k] = array[k] /\ array'[k + 1] = array[(k + 1) + 1]
      BY <1>4, <3>1
    <3> QED
      BY <2>1, <3>2, <3>3
  <2>4. CASE k + 1 > i
    <3>1. k \in i .. n /\ k + 1 \in i .. n
      BY <1>1, <2>0, <2>4
    <3> QED
      BY <1>4, <2>1, <3>1
  <2> QED
    BY <1>1, <2>0, <2>2, <2>3, <2>4
<1>11. array'[max_size] = 99
  <2>1. max_size \in n + 1 .. max_size
    BY <1>1
  <2> QED
    BY <1>4, <2>1 DEF ArrayInv, ArraySorted
<1>12. ArraySorted'
  <2>1. ASSUME NEW v \in Items
        PROVE  Cardinality({k \in 0 .. size' - 1 : array'[k] = v}) = held'[v]
    BY <1>1, <1>8 DEF Cells
  <2> QED
    BY <1>10, <1>11, <2>1 DEF ArraySorted
<1> QED
  BY <1>9, <1>12 DEF ArrayInv

\* For every length and set of items: after any sequence of insertions and
\* removals within the allocation the array is sorted, holds exactly the items
\* put in and not removed, and has written nothing behind its end.
THEOREM ArrayStaysSorted == OaSpec => []ArraySorted
<1>1. OaInit => ArrayInv
  <2> SUFFICES ASSUME OaInit PROVE ArrayInv
    OBVIOUS
  <2>1. size = 0 /\ max_size \in Nat /\ 0 - 1 = -1 /\ 0 - 2 = -2
    BY OrderedArrayAssumption DEF OaInit
  <2>2. 0 .. -1 = {} /\ 0 .. -2 = {}
    OBVIOUS
  <2>3. ArrayTypes
    BY <2>1, <2>2 DEF OaInit, ArrayTypes
  <2>4. ASSUME NEW v \in Items
        PROVE  Cardinality({k \in 0 .. size - 1 : array[k] = v}) = held[v]
    <3>1. {k \in 0 .. size - 1 : array[k] = v} = {}
      BY <2>1, <2>2
    <3>2. Cardinality({}) = 0
      BY FS_EmptySet
    <3> QED
      BY <3>1, <3>2 DEF OaInit
  <2>5. array[max_size] = 99
    BY <2>1 DEF OaInit
  <2>6. \A k \in 0 .. size - 2 : array[k] <= array[k + 1]
    BY <2>1, <2>2
  <2> QED
    BY <2>3, <2>4, <2>5, <2>6 DEF ArrayInv, ArraySorted
<1>2. ArrayInv /\ [OaNext]_oaVars => ArrayInv'
  <2> SUFFICES ASSUME ArrayInv, [OaNext]_oaVars PROVE ArrayInv'
    OBVIOUS
  <2>1. CASE UNCHANGED oaVars
    BY <2>1 DEF oaVars, ArrayInv, ArrayTypes, ArraySorted
  <2> QED
    BY <2>1, InsertKeeps, RemoveKeeps DEF OaNext
<1>3. ArrayInv => ArraySorted
  BY DEF ArrayInv
<1> QED
  BY <1>1, <1>2, <1>3, PTL DEF OaSpec

-----------------------------------------------------------------------------
(* The scan of do_printf.                                                  *)

Chars == STRING \cup {NULc}

\* The format's own NUL.
IsEnd(e) ==
    e \in DOMAIN fmt /\ fmt[e] = NULc /\ \A j \in 1 .. e - 1 : fmt[j] # NULc

\* Behind a '-' the scan is in state 1, and it passes the end of a finished
\* format in no state.
ScanInv ==
    /\ fmt \in Seq(Chars) /\ at \in Nat \ {0} /\ state \in 0 .. 3
    /\ \E e \in DOMAIN fmt : IsEnd(e)
    /\ state = 1 => at > 1 /\ fmt[at - 1] = "-"
    /\ \A e \in DOMAIN fmt :
          IsEnd(e) => at <= e \/ Unfinished(SubSeq(fmt, 1, e - 1))

LEMMA OneEnd ==
    ASSUME fmt \in Seq(Chars), NEW d \in DOMAIN fmt, NEW e \in DOMAIN fmt,
           IsEnd(d), IsEnd(e)
    PROVE  d = e
<1>1. d \in Nat /\ e \in Nat /\ d # 0 /\ e # 0
  OBVIOUS
<1>2. ~(d < e) /\ ~(e < d)
  BY <1>1 DEF IsEnd
<1> QED
  BY <1>1, <1>2

\* A format that ends in '%', or in the flag '0', in terms of what is read.
LEMMA UnfinishedIs ==
    ASSUME fmt \in Seq(Chars), NEW e \in DOMAIN fmt,
           \/ e > 1 /\ fmt[e - 1] = "%"
           \/ e > 2 /\ fmt[e - 1] = "0" /\ fmt[e - 2] \in {"%", "-"}
    PROVE  Unfinished(SubSeq(fmt, 1, e - 1))
<1> DEFINE f == SubSeq(fmt, 1, e - 1)
<1>1. e \in Nat /\ e > 1 /\ e - 1 \in Nat /\ e <= Len(fmt) /\ Len(fmt) \in Nat
  OBVIOUS
<1>2. f \in Seq(Chars) /\ Len(f) = e - 1 /\ \A k \in 1 .. e - 1 : f[k] = fmt[k]
  BY <1>1
<1> HIDE DEF f
<1>3. f # <<>> /\ e - 1 \in 1 .. e - 1 /\ f[e - 1] = fmt[e - 1]
  BY <1>1, <1>2
<1>4. e > 2 => e - 2 \in 1 .. e - 1 /\ Len(f) > 1 /\ (e - 1) - 1 = e - 2
  BY <1>1, <1>2
<1>5. Unfinished(f)
  BY <1>1, <1>2, <1>3, <1>4 DEF Unfinished
<1> QED
  BY <1>5 DEF f

\* A character before the end that is not the NUL has one behind it.
LEMMA GoesOn ==
    ASSUME ScanInv, NEW e \in DOMAIN fmt, IsEnd(e), NEW k \in Nat, k <= e, fmt[k] # NULc
    PROVE  k + 1 <= e
BY DEF ScanInv, IsEnd

LEMMA FlagWithin ==
    ASSUME ScanInv, NEW e \in DOMAIN fmt, IsEnd(e), Reading, at <= e
    PROVE  FlagAt \in Nat \ {0} /\ at + 1 <= e /\ FlagAt <= e
<1>1. at \in Nat \ {0} /\ e \in Nat
  BY DEF ScanInv
<1>2. at + 1 <= e
  BY <1>1, GoesOn DEF Reading
<1> QED
  BY <1>1, <1>2 DEF FlagAt

LEMMA WidthWithin ==
    ASSUME ScanInv, NEW e \in DOMAIN fmt, IsEnd(e), PastFlags, at <= e
    PROVE  WidthAt \in Nat \ {0} /\ WidthAt <= e
<1>1. FlagAt \in Nat \ {0} /\ FlagAt <= e
  BY FlagWithin DEF PastFlags
<1>2. CASE Zero
  <2>1. FlagAt + 1 <= e
    BY <1>1, <1>2, GoesOn DEF Zero, AtFlag, NULc
  <2> QED
    BY <1>1, <1>2, <2>1 DEF WidthAt
<1>3. CASE ~Zero
  BY <1>1, <1>3 DEF WidthAt
<1> QED
  BY <1>2, <1>3

\* Only in an unfinished format does a directive meet the NUL.
LEMMA MeetsEnd ==
    ASSUME ScanInv, NEW e \in DOMAIN fmt, IsEnd(e), PastFlags, at <= e,
           fmt[WidthAt] = NULc
    PROVE  Unfinished(SubSeq(fmt, 1, e - 1))
<1>1. /\ at \in Nat \ {0} /\ e \in Nat \ {0} /\ fmt \in Seq(Chars)
      /\ fmt[at] # NULc /\ at + 1 <= e /\ state \in 0 .. 3
  BY FlagWithin DEF ScanInv, PastFlags, Reading
<1>2. WidthAt = e
  <2>1. WidthAt \in Nat \ {0} /\ WidthAt <= e
    BY WidthWithin
  <2> QED
    BY <1>1, <2>1 DEF IsEnd
<1>3. CASE state = 0
  <2>1. fmt[at] = "%"
    BY <1>3 DEF PastFlags, InDirective
  <2>2. CASE Zero
    <3>1. fmt[at + 1] = "0" /\ e = at + 2
      BY <1>1, <1>2, <1>3, <2>2 DEF Zero, AtFlag, WidthAt, FlagAt
    <3>2. e > 2 /\ e - 1 = at + 1 /\ e - 2 = at
      BY <1>1, <3>1
    <3> QED
      BY <1>1, <2>1, <3>1, <3>2, UnfinishedIs
  <2>3. CASE ~Zero
    <3>1. e = at + 1
      BY <1>1, <1>2, <1>3, <2>3 DEF WidthAt, FlagAt
    <3>2. e > 1 /\ e - 1 = at
      BY <1>1, <3>1
    <3> QED
      BY <1>1, <2>1, <3>2, UnfinishedIs
  <2> QED
    BY <2>2, <2>3
<1>4. CASE state # 0
  <2>1. FlagAt = at
    BY <1>4 DEF FlagAt
  <2>2. Zero
    BY <1>1, <1>2, <2>1 DEF WidthAt
  <2>3. state = 1 /\ fmt[at] = "0" /\ e = at + 1
    BY <1>1, <1>2, <1>4, <2>1, <2>2 DEF Zero, AtFlag, WidthAt
  <2>4. at > 1 /\ fmt[at - 1] = "-"
    BY <2>3 DEF ScanInv
  <2>5. e > 2 /\ e - 1 = at /\ e - 2 = at - 1
    BY <1>1, <2>3, <2>4
  <2> QED
    BY <1>1, <2>3, <2>4, <2>5, UnfinishedIs
<1> QED
  BY <1>3, <1>4

\* Where a round goes on.
Rounds ==
    \/ state' = state /\ state # 1 /\ at' = at + 1 /\ Reading
    \/ /\ state' \in {0, 2, 3} /\ at' = FlagAt + 1 /\ Reading /\ fmt[FlagAt] # NULc
    \/ /\ state' \in {0, 1} /\ at' = FlagAt + 1 /\ Reading /\ fmt[FlagAt] = "-"
    \/ /\ state' \in {0, 2, 3} /\ at' = WidthAt + 1 /\ PastFlags
    \/ UNCHANGED <<at, state>>

LEMMA RoundsAre == [PfNext]_pfVars => Rounds /\ fmt' = fmt
<1> SUFFICES ASSUME [PfNext]_pfVars PROVE Rounds /\ fmt' = fmt
  OBVIOUS
<1>1. CASE Literal
  BY <1>1 DEF Literal, InDirective, Rounds
<1>2. CASE PercentSign
  BY <1>2 DEF PercentSign, AtFlag, Reset, Rounds, NULc
<1>3. CASE LeftJustify
  BY <1>3 DEF LeftJustify, AtFlag, Reset, Rounds
<1>4. CASE Width
  BY <1>4 DEF Width, AtWidth, Rounds
<1>5. CASE Modifier
  BY <1>5 DEF Modifier, AtModifier, Rounds
<1>6. CASE Unknown
  BY <1>6 DEF Unknown, AtConversion, Reset, Rounds
<1>7. ASSUME NEW conv, NEW arg, NEW fl, NEW body, NEW wd,
             AtConversion, Converted(conv, arg, fl, body, wd)
      PROVE  Rounds /\ fmt' = fmt
  BY <1>7 DEF Converted, AtConversion, Reset, Rounds
<1>8. ASSUME NEW num \in Numbers, Number(num) PROVE Rounds /\ fmt' = fmt
  <2>1. AtConversion /\ \E conv, arg, fl, body, wd : Converted(conv, arg, fl, body, wd)
    BY <1>8, Zenon DEF Number
  <2> QED
    BY <1>7, <2>1
<1>9. ASSUME NEW c, Char(c) PROVE Rounds /\ fmt' = fmt
  <2>1. AtConversion /\ \E conv, arg, fl, body, wd : Converted(conv, arg, fl, body, wd)
    BY <1>9, Zenon DEF Char
  <2> QED
    BY <1>7, <2>1
<1>10. ASSUME NEW s, String(s) PROVE Rounds /\ fmt' = fmt
  <2>1. AtConversion /\ \E conv, arg, fl, body, wd : Converted(conv, arg, fl, body, wd)
    BY <1>10, Zenon DEF String
  <2> QED
    BY <1>7, <2>1
<1>11. CASE Finish \/ UNCHANGED pfVars
  BY <1>11 DEF Finish, pfVars, Rounds
<1> QED
  BY <1>1, <1>2, <1>3, <1>4, <1>5, <1>6, <1>8, <1>9, <1>10, <1>11 DEF PfNext, Scan

LEMMA ScanKeeps == ScanInv /\ [PfNext]_pfVars => ScanInv'
<1> SUFFICES ASSUME ScanInv, Rounds, fmt' = fmt PROVE ScanInv'
  BY RoundsAre
<1>1. PICK e \in DOMAIN fmt : IsEnd(e)
  BY DEF ScanInv
<1>2. /\ e \in Nat /\ e # 0 /\ at \in Nat \ {0} /\ fmt \in Seq(Chars)
      /\ state \in 0 .. 3
      /\ at <= e \/ Unfinished(SubSeq(fmt, 1, e - 1))
  BY <1>1 DEF ScanInv
<1>3. FlagAt \in Nat \ {0} /\ WidthAt \in Nat \ {0}
  BY <1>2 DEF FlagAt, WidthAt
<1>4. at' \in Nat \ {0} /\ state' \in 0 .. 3
  BY <1>2, <1>3 DEF Rounds
<1>5. state' = 1 => at' > 1 /\ fmt[at' - 1] = "-"
  BY <1>2, <1>3 DEF Rounds, ScanInv
<1>6. at' <= e \/ Unfinished(SubSeq(fmt, 1, e - 1))
  <2> SUFFICES ASSUME at <= e PROVE at' <= e \/ Unfinished(SubSeq(fmt, 1, e - 1))
    BY <1>2
  <2>1. Reading => at + 1 <= e /\ FlagAt <= e
    BY <1>1, FlagWithin
  <2>2. Reading /\ fmt[FlagAt] # NULc => FlagAt + 1 <= e
    BY <1>1, <1>3, <2>1, GoesOn
  <2>3. PastFlags => WidthAt + 1 <= e \/ Unfinished(SubSeq(fmt, 1, e - 1))
    <3> SUFFICES ASSUME PastFlags, fmt[WidthAt] # NULc PROVE WidthAt + 1 <= e
      BY <1>1, MeetsEnd
    <3>1. WidthAt <= e
      BY <1>1, WidthWithin
    <3> QED
      BY <1>1, <1>3, <3>1, GoesOn
  <2>4. "-" # NULc
    BY DEF NULc
  <2> QED
    BY <1>2, <1>3, <2>1, <2>2, <2>3, <2>4 DEF Rounds
<1>7. \A d \in DOMAIN fmt : IsEnd(d)' <=> IsEnd(d)
  BY DEF IsEnd
<1>8. \A d \in DOMAIN fmt : IsEnd(d) => d = e
  BY <1>1, <1>2, OneEnd
<1>9. \A d \in DOMAIN fmt' : IsEnd(d)' => at' <= d \/ Unfinished(SubSeq(fmt', 1, d - 1))
  BY <1>6, <1>7, <1>8
<1>10. \E d \in DOMAIN fmt' : IsEnd(d)'
  BY <1>1, <1>7
<1> QED
  BY <1>2, <1>4, <1>5, <1>9, <1>10 DEF ScanInv

LEMMA JoinIs ==
    ASSUME NEW S, NEW p \in Seq(S), NEW q \in Seq(S)
    PROVE  /\ p \o q \in Seq(S) /\ Len(p \o q) = Len(p) + Len(q)
           /\ \A j \in 1 .. Len(p) : (p \o q)[j] = p[j]
OBVIOUS

LEMMA ScanStarts == PfInit => ScanInv
<1> SUFFICES ASSUME PfInit PROVE ScanInv
  OBVIOUS
<1>1. PICK f \in Formats : fmt = f \o <<NULc>> \o Behind
  BY DEF PfInit
<1>2. f \in Seq(Chars) /\ Behind \in Seq(Chars) /\ NULc \notin Range(f)
  BY PrintfAssumption DEF Chars
<1>3. NULc \in Chars
  BY DEF Chars
<1> DEFINE e == Len(f) + 1
           g == f \o <<NULc>>
<1>4. \A j \in 1 .. Len(f) : f[j] # NULc
  BY <1>2 DEF Range
<1>5. g \in Seq(Chars) /\ Len(g) = e /\ g[e] = NULc /\ \A j \in 1 .. Len(f) : g[j] = f[j]
  BY <1>2, <1>3
<1>6. Len(f) \in Nat
  BY <1>2
<1> HIDE DEF g
<1>7. /\ fmt \in Seq(Chars) /\ Len(fmt) = e + Len(Behind) /\ Len(Behind) \in Nat
      /\ \A j \in 1 .. e : fmt[j] = g[j]
  <2>1. fmt = g \o Behind
    BY <1>1 DEF g
  <2>2. fmt \in Seq(Chars) /\ Len(fmt) = Len(g) + Len(Behind)
    BY <1>2, <1>5, <2>1, JoinIs
  <2>3. \A j \in 1 .. Len(g) : fmt[j] = g[j]
    BY <1>2, <1>5, <2>1, JoinIs
  <2> QED
    BY <1>2, <1>5, <2>2, <2>3
<1>8. IsEnd(e) /\ e \in DOMAIN fmt
  BY <1>4, <1>5, <1>6, <1>7 DEF IsEnd
<1>9. at = 1 /\ state = 0
  BY DEF PfInit, Scanning
<1> HIDE DEF e
<1>10. \A d \in DOMAIN fmt : at <= d
  BY <1>7, <1>9
<1> QED
  BY <1>7, <1>8, <1>9, <1>10 DEF ScanInv

\* The scan of do_printf stops at the NUL of its own format: only a format
\* that ends in '%', or in a '0' flag, is read past.  Every format, every
\* argument, whatever lies behind the format.
THEOREM ScanStops == PfSpec => []ScanEndsAtNul
<1>1. ScanInv => ScanEndsAtNul
  <2> SUFFICES ASSUME ScanInv PROVE ScanEndsAtNul
    OBVIOUS
  <2> DEFINE end == CHOOSE k \in DOMAIN fmt :
                       fmt[k] = NULc /\ \A j \in 1 .. k - 1 : fmt[j] # NULc
  <2>1. end \in DOMAIN fmt /\ IsEnd(end)
    <3>1. \E k \in DOMAIN fmt : fmt[k] = NULc /\ \A j \in 1 .. k - 1 : fmt[j] # NULc
      BY DEF ScanInv, IsEnd
    <3>2. end \in DOMAIN fmt /\ fmt[end] = NULc /\ \A j \in 1 .. end - 1 : fmt[j] # NULc
      BY <3>1, Zenon
    <3> HIDE DEF end
    <3> QED
      BY <3>2 DEF IsEnd
  <2>2. ScanEndsAtNul <=> (at > end => Unfinished(SubSeq(fmt, 1, end - 1)))
    BY DEF ScanEndsAtNul
  <2> HIDE DEF end
  <2>3. at <= end \/ Unfinished(SubSeq(fmt, 1, end - 1))
    BY <2>1 DEF ScanInv
  <2>4. at \in Nat /\ end \in Nat
    BY <2>1 DEF ScanInv
  <2> QED
    BY <2>2, <2>3, <2>4
<1> QED
  BY <1>1, ScanStarts, ScanKeeps, PTL DEF PfSpec

-----------------------------------------------------------------------------
(* The copying functions.                                                  *)

\* f and g, from 0 to b, start alike and go on alike: then they end alike.
Alike(f, g, b) ==
    /\ f[0] = g[0]
    /\ \A k \in 0 .. b : k # 0 /\ f[k - 1] = g[k - 1] => f[k] = g[k]

LEMMA SameFrom0 ==
    ASSUME NEW b \in Nat, NEW f, NEW g, Alike(f, g, b)
    PROVE  f[b] = g[b]
<1> DEFINE Bad == {k \in 0 .. b : f[k] # g[k]}
<1>1. CASE Bad # {}
  <2>1. Bad \in SUBSET Nat
    OBVIOUS
  <2>2. PICK k \in Bad : \A j \in Bad : k <= j
    BY <1>1, <2>1, NatMin
  <2>3. k # 0 /\ k \in 0 .. b /\ k - 1 \in 0 .. b /\ k - 1 \notin Bad
    BY <2>2 DEF Alike
  <2> QED
    BY <2>2, <2>3 DEF Alike
<1> QED
  BY <1>1

\* A memory: a byte at every address.
IsMem(m) == m = [a \in Addr |-> m[a]]

\* The memory m after the offsets from lo up to hi were copied.
Copied(m, d, s, lo, hi) ==
    [a \in Addr |-> IF a - d \in lo .. hi - 1 THEN m[s + a - d] ELSE m[a]]

\* The step <<off, size>> extends the copied offsets lo .. hi - 1, at one end,
\* to lo2 .. hi2 - 1.
Extends(step, lo, hi, lo2, hi2) ==
    \/ lo2 = lo /\ hi = step[1] /\ hi2 = step[1] + step[2]
    \/ hi2 = hi /\ lo = step[1] + step[2] /\ lo2 = step[1]

\* It reads bytes of the memory, and none that was overwritten.
ReadsOld(step, d, s, lo, hi) ==
    \A j \in step[1] .. step[1] + step[2] - 1 :
        s + j \in Addr /\ s + j - d \notin lo .. hi - 1

LEMMA OneMove ==
    ASSUME NEW m, NEW d \in Int, NEW s \in Int,
           NEW off \in Int, NEW len \in Nat,
           NEW lo \in Int, NEW hi \in Int, NEW lo2 \in Int, NEW hi2 \in Int,
           lo <= hi,
           Extends(<<off, len>>, lo, hi, lo2, hi2),
           ReadsOld(<<off, len>>, d, s, lo, hi)
    PROVE  Move(Copied(m, d, s, lo, hi), d + off, s + off, len) =
              Copied(m, d, s, lo2, hi2)
<1> DEFINE c == Copied(m, d, s, lo, hi)
<1>0. \/ lo2 = lo /\ hi = off /\ hi2 = off + len
      \/ hi2 = hi /\ lo = off + len /\ lo2 = off
  BY DEF Extends
<1>1. ASSUME NEW a \in Addr
      PROVE  (IF a \in d + off .. d + off + len - 1
              THEN c[s + off + a - (d + off)] ELSE c[a]) =
             (IF a - d \in lo2 .. hi2 - 1 THEN m[s + a - d] ELSE m[a])
  <2>1. a \in Int
    BY StringsAssumption DEF Addr
  <2>2. c[a] = IF a - d \in lo .. hi - 1 THEN m[s + a - d] ELSE m[a]
    BY DEF Copied
  <2>3. CASE a \in d + off .. d + off + len - 1
    <3>1. a - d \in off .. off + len - 1 /\ a - d \in lo2 .. hi2 - 1
      BY <1>0, <2>1, <2>3
    <3>2. s + (a - d) \in Addr /\ s + (a - d) - d \notin lo .. hi - 1
      BY <3>1 DEF ReadsOld
    <3>3. s + off + a - (d + off) = s + (a - d) /\ s + a - d = s + (a - d)
      BY <2>1
    <3>4. c[s + (a - d)] = m[s + (a - d)]
      <4>1. PICK e \in Addr : e = s + (a - d)
        BY <3>2
      <4>2. c[e] = IF e - d \in lo .. hi - 1 THEN m[s + e - d] ELSE m[e]
        BY DEF Copied
      <4> QED
        BY <3>2, <4>1, <4>2
    <3> QED
      BY <2>3, <3>1, <3>3, <3>4
  <2>4. CASE a \notin d + off .. d + off + len - 1
    <3>1. a - d \in lo2 .. hi2 - 1 <=> a - d \in lo .. hi - 1
      BY <1>0, <2>1, <2>4
    <3> QED
      BY <2>2, <2>4, <3>1
  <2> QED
    BY <2>3, <2>4
<1> HIDE DEF c
<1> DEFINE F(a) == IF a \in d + off .. d + off + len - 1
                   THEN c[s + off + a - (d + off)] ELSE c[a]
           G(a) == IF a - d \in lo2 .. hi2 - 1 THEN m[s + a - d] ELSE m[a]
<1>2. Move(c, d + off, s + off, len) = [a \in Addr |-> F(a)]
  BY DEF Move
<1>3. Copied(m, d, s, lo2, hi2) = [a \in Addr |-> G(a)]
  BY DEF Copied
<1>4. \A a \in Addr : F(a) = G(a)
  BY <1>1
<1> HIDE DEF c, F, G
<1>5. Move(c, d + off, s + off, len) = Copied(m, d, s, lo2, hi2)
  BY <1>2, <1>3, <1>4
<1> QED
  BY <1>5 DEF c

\* A loop over steps that extend the copied offsets one after the other.
Grows(steps, d, s, lo, hi) ==
    /\ lo[0] = hi[0]
    /\ \A k \in 0 .. Len(steps) : lo[k] \in Int /\ hi[k] \in Int /\ lo[k] <= hi[k]
    /\ \A k \in 1 .. Len(steps) :
         /\ \E off \in Int, len \in Nat : steps[k] = <<off, len>>
         /\ Extends(steps[k], lo[k - 1], hi[k - 1], lo[k], hi[k])
         /\ ReadsOld(steps[k], d, s, lo[k - 1], hi[k - 1])

LEMMA LoopCopies ==
    ASSUME NEW m, IsMem(m),
           NEW d \in Int, NEW s \in Int, NEW steps, Len(steps) \in Nat,
           NEW lo, NEW hi, Grows(steps, d, s, lo, hi)
    PROVE  CopyLoop(m, d, s, steps) =
              Copied(m, d, s, lo[Len(steps)], hi[Len(steps)])
<1> DEFINE n == Len(steps)
           Step(r, k) == Move(r, d + steps[k][1], s + steps[k][1], steps[k][2])
           Eq(f) == f = [k \in 0 .. n |-> IF k = 0 THEN m ELSE Step(f[k - 1], k)]
           w == [k \in 0 .. n |-> Copied(m, d, s, lo[k], hi[k])]
           done == CHOOSE f : Eq(f)
<1>1. n \in Nat
  OBVIOUS
<1>2. \A k \in 0 .. n : Copied(m, d, s, lo[k], hi[k]) =
                           IF k = 0 THEN m ELSE Step(w[k - 1], k)
  <2> SUFFICES ASSUME NEW k \in 0 .. n
               PROVE  Copied(m, d, s, lo[k], hi[k]) =
                         IF k = 0 THEN m ELSE Step(w[k - 1], k)
    OBVIOUS
  <2>1. CASE k = 0
    <3> DEFINE G(a) == IF a - d \in lo[0] .. hi[0] - 1 THEN m[s + a - d] ELSE m[a]
    <3>1. lo[0] = hi[0] /\ lo[0] \in Int
      BY <1>1 DEF Grows
    <3>2. lo[0] .. hi[0] - 1 = {}
      BY <3>1
    <3>3. \A a \in Addr : G(a) = m[a]
      BY <3>2
    <3>4. Copied(m, d, s, lo[0], hi[0]) = [a \in Addr |-> G(a)]
      BY DEF Copied
    <3> HIDE DEF G
    <3>5. Copied(m, d, s, lo[0], hi[0]) = [a \in Addr |-> m[a]]
      BY <3>3, <3>4
    <3> QED
      BY <2>1, <3>5 DEF IsMem
  <2>2. CASE k # 0
    <3>1. k \in 1 .. n /\ k - 1 \in 0 .. n
      BY <1>1, <2>2
    <3>2. /\ lo[k] \in Int /\ hi[k] \in Int
          /\ lo[k - 1] \in Int /\ hi[k - 1] \in Int /\ lo[k - 1] <= hi[k - 1]
      BY <3>1 DEF Grows
    <3>3. PICK off \in Int, len \in Nat : steps[k] = <<off, len>>
      BY <3>1, Zenon DEF Grows
    <3>4. /\ Extends(<<off, len>>, lo[k - 1], hi[k - 1], lo[k], hi[k])
          /\ ReadsOld(<<off, len>>, d, s, lo[k - 1], hi[k - 1])
      BY <3>1, <3>3, Zenon DEF Grows
    <3>5. Move(Copied(m, d, s, lo[k - 1], hi[k - 1]), d + off, s + off, len) =
             Copied(m, d, s, lo[k], hi[k])
      <4>1. PICK l \in Int, h \in Int, l2 \in Int, h2 \in Int :
               lo[k - 1] = l /\ hi[k - 1] = h /\ lo[k] = l2 /\ hi[k] = h2
        BY <3>2
      <4>2. /\ Extends(<<off, len>>, l, h, l2, h2) /\ ReadsOld(<<off, len>>, d, s, l, h)
            /\ l <= h
        BY <3>2, <3>4, <4>1
      <4>3. Move(Copied(m, d, s, l, h), d + off, s + off, len) = Copied(m, d, s, l2, h2)
        BY <4>2, OneMove
      <4> QED
        BY <4>1, <4>3
    <3>6. w[k - 1] = Copied(m, d, s, lo[k - 1], hi[k - 1])
      BY <3>1
    <3>7. steps[k][1] = off /\ steps[k][2] = len
      BY <3>3
    <3> QED
      BY <2>2, <3>5, <3>6, <3>7
  <2> QED
    BY <2>1, <2>2
<1>3. Eq(w)
  <2> HIDE DEF Step
  <2> QED
    BY <1>2
<1>4. Eq(done)
  <2> HIDE DEF Eq
  <2> QED
    BY <1>3
<1>5. Alike(done, w, n)
  <2> HIDE DEF done, w, Step
  <2>1. done[0] = w[0]
    BY <1>1, <1>3, <1>4
  <2>2. ASSUME NEW k \in 0 .. n, k # 0, done[k - 1] = w[k - 1]
        PROVE  done[k] = w[k]
    <3>1. done[k] = Step(done[k - 1], k) /\ w[k] = Step(w[k - 1], k)
      BY <1>3, <1>4, <2>2
    <3> QED
      BY <2>2, <3>1
  <2> QED
    BY <2>1, <2>2 DEF Alike
<1>6. CopyLoop(m, d, s, steps) = done[n]
  BY DEF CopyLoop
<1>7. w[n] = Copied(m, d, s, lo[n], hi[n])
  BY <1>1
<1> HIDE DEF done, w, n
<1>8. done[n] = w[n]
  BY <1>1, <1>5, SameFrom0
<1> QED
  BY <1>6, <1>7, <1>8 DEF n

\* The memory m after a call copied n bytes from s to d.
Whole(m, d, s, n) ==
    [a \in Addr |-> IF a \in d .. d + n - 1 THEN m[s + a - d] ELSE m[a]]

LEMMA WholeIs ==
    ASSUME NEW m, NEW d \in Int, NEW s \in Int, NEW n \in Nat
    PROVE  Copied(m, d, s, 0, n) = Whole(m, d, s, n)
<1>1. \A a \in Addr : a \in Int
  BY StringsAssumption DEF Addr
<1>2. \A a \in Addr : a - d \in 0 .. n - 1 <=> a \in d .. d + n - 1
  BY <1>1
<1> DEFINE F(a) == IF a - d \in 0 .. n - 1 THEN m[s + a - d] ELSE m[a]
           G(a) == IF a \in d .. d + n - 1 THEN m[s + a - d] ELSE m[a]
<1>3. \A a \in Addr : F(a) = G(a)
  BY <1>2
<1>4. /\ Copied(m, d, s, 0, n) = [a \in Addr |-> F(a)]
      /\ Whole(m, d, s, n) = [a \in Addr |-> G(a)]
  BY DEF Copied, Whole
<1> HIDE DEF F, G
<1> QED
  BY <1>3, <1>4

\* memmove copies whole, whichever way the two places overlap.
LEMMA MemmoveCopies ==
    ASSUME NEW m, IsMem(m),
           NEW d \in Addr, NEW s \in Addr, NEW n \in Nat, s + n <= MemSize
    PROVE  memmove(m, d, s, n) = Whole(m, d, s, n)
<1> DEFINE steps == [i \in 1 .. n |-> IF s < d THEN <<n - i, 1>> ELSE <<i - 1, 1>>]
           lo == [k \in 0 .. n |-> IF s < d THEN n - k ELSE 0]
           hi == [k \in 0 .. n |-> IF s < d THEN n ELSE k]
<1>1. d \in Int /\ s \in Int /\ s >= 0 /\ MemSize \in Nat
  BY StringsAssumption DEF Addr
<1>2. steps \in Seq(Int \X Nat) /\ Len(steps) = n
  OBVIOUS
<1>3. \A k \in 0 .. n : /\ lo[k] = IF s < d THEN n - k ELSE 0
                        /\ hi[k] = IF s < d THEN n ELSE k
  OBVIOUS
<1>4. \A k \in 1 .. n : steps[k] = IF s < d THEN <<n - k, 1>> ELSE <<k - 1, 1>>
  OBVIOUS
<1> HIDE DEF steps, lo, hi
<1>5. ASSUME NEW k \in 1 .. n
      PROVE  /\ \E off \in Int, len \in Nat : steps[k] = <<off, len>>
             /\ Extends(steps[k], lo[k - 1], hi[k - 1], lo[k], hi[k])
             /\ ReadsOld(steps[k], d, s, lo[k - 1], hi[k - 1])
  <2>1. k - 1 \in 0 .. n /\ k \in 0 .. n
    OBVIOUS
  <2>2. CASE s < d
    <3>1. /\ steps[k] = <<n - k, 1>> /\ lo[k - 1] = n - (k - 1) /\ lo[k] = n - k
          /\ hi[k - 1] = n /\ hi[k] = n
      BY <1>3, <1>4, <2>1, <2>2
    <3>2. ASSUME NEW j \in n - k .. n - k + 1 - 1
          PROVE  s + j \in Addr /\ s + j - d \notin n - (k - 1) .. n - 1
      <4>1. j = n - k /\ j \in 0 .. n - 1
        OBVIOUS
      <4>2. s + j \in Addr
        BY <1>1, <4>1 DEF Addr
      <4>3. s + j - d < n - (k - 1)
        BY <1>1, <2>2, <4>1
      <4> QED
        BY <1>1, <4>1, <4>2, <4>3
    <3>3. ReadsOld(<<n - k, 1>>, d, s, n - (k - 1), n)
      BY <3>2 DEF ReadsOld
    <3>4. Extends(<<n - k, 1>>, n - (k - 1), n, n - k, n)
      BY DEF Extends
    <3> QED
      BY <3>1, <3>3, <3>4
  <2>3. CASE ~(s < d)
    <3>1. /\ steps[k] = <<k - 1, 1>> /\ lo[k - 1] = 0 /\ lo[k] = 0
          /\ hi[k - 1] = k - 1 /\ hi[k] = k
      BY <1>3, <1>4, <2>1, <2>3
    <3>2. ASSUME NEW j \in k - 1 .. k - 1 + 1 - 1
          PROVE  s + j \in Addr /\ s + j - d \notin 0 .. k - 1 - 1
      BY <1>1, <2>3 DEF Addr
    <3>3. ReadsOld(<<k - 1, 1>>, d, s, 0, k - 1)
      BY <3>2 DEF ReadsOld
    <3>4. Extends(<<k - 1, 1>>, 0, k - 1, 0, k)
      BY DEF Extends
    <3> QED
      BY <3>1, <3>3, <3>4
  <2> QED
    BY <2>2, <2>3
<1>6. Grows(steps, d, s, lo, hi)
  <2>1. lo[0] = hi[0]
    BY <1>3
  <2>2. \A k \in 0 .. n : lo[k] \in Int /\ hi[k] \in Int /\ lo[k] <= hi[k]
    BY <1>3
  <2> QED
    BY <1>2, <1>5, <2>1, <2>2 DEF Grows
<1>7. CopyLoop(m, d, s, steps) = Copied(m, d, s, lo[n], hi[n])
  BY <1>1, <1>2, <1>6, LoopCopies
<1>8. lo[n] = 0 /\ hi[n] = n
  BY <1>3
<1>9. memmove(m, d, s, n) = CopyLoop(m, d, s, steps)
  BY DEF memmove, steps
<1> QED
  BY <1>1, <1>7, <1>8, <1>9, WholeIs

LEMMA Joined ==
    ASSUME NEW S, NEW b \in Seq(S), NEW c \in Seq(S)
    PROVE  /\ Len(b \o c) = Len(b) + Len(c)
           /\ \A k \in 1 .. Len(b) + Len(c) :
                 (b \o c)[k] = IF k <= Len(b) THEN b[k] ELSE c[k - Len(b)]
OBVIOUS

\* The bytes that the first k steps of memcpy move.
Moved(n, k) ==
    IF k <= n \div Dword THEN Dword * k ELSE Dword * (n \div Dword) + (k - n \div Dword)

\* The steps of memcpy and memset lie side by side and make n bytes.
LEMMA StepsAre ==
    ASSUME NEW n \in Nat
    PROVE  /\ Len(DwordSteps(n)) \in Nat
           /\ Moved(n, 0) = 0 /\ Moved(n, Len(DwordSteps(n))) = n
           /\ \A k \in 0 .. Len(DwordSteps(n)) : Moved(n, k) \in 0 .. n
           /\ \A k \in 1 .. Len(DwordSteps(n)) :
                 \E len \in Nat : /\ DwordSteps(n)[k] = <<Moved(n, k - 1), len>>
                                  /\ Moved(n, k) = Moved(n, k - 1) + len
<1> DEFINE q == n \div Dword
           r == n % Dword
           big == [i \in 1 .. q |-> <<Dword * (i - 1), Dword>>]
           small == [i \in 1 .. r |-> <<Dword * q + i - 1, 1>>]
<1>1. Dword \in Nat /\ Dword > 0
  BY StringsAssumption
<1>2. q \in Nat /\ r \in Nat /\ n = Dword * q + r
  BY <1>1
<1>3. \A i \in Nat : Dword * i \in Nat
  BY <1>1
<1>4. \A i, j \in Nat : i <= j => Dword * i <= Dword * j
  BY <1>1
<1>5. \A i \in Nat : Dword * (i + 1) = Dword * i + Dword
  BY <1>1
<1> HIDE DEF q, r
<1>6. big \in Seq(Nat \X Nat) /\ Len(big) = q
  BY <1>1, <1>2, <1>3
<1>7. small \in Seq(Nat \X Nat) /\ Len(small) = r
  BY <1>1, <1>2, <1>3
<1>8. DwordSteps(n) = big \o small
  BY DEF DwordSteps, q, r
<1>9. /\ Len(DwordSteps(n)) = q + r
      /\ \A k \in 1 .. q + r : DwordSteps(n)[k] = IF k <= q THEN big[k] ELSE small[k - q]
  <2> HIDE DEF big, small
  <2>1. /\ Len(big \o small) = Len(big) + Len(small)
        /\ \A k \in 1 .. Len(big) + Len(small) :
              (big \o small)[k] = IF k <= Len(big) THEN big[k] ELSE small[k - Len(big)]
    BY <1>6, <1>7, Joined, Zenon
  <2> QED
    BY <1>6, <1>7, <1>8, <2>1, Zenon
<1>10. \A k : Moved(n, k) = IF k <= q THEN Dword * k ELSE Dword * q + (k - q)
  BY DEF Moved, q
<1>11. Moved(n, 0) = 0 /\ Moved(n, q + r) = n
  BY <1>1, <1>2, <1>10
<1>12. \A k \in 0 .. q + r : Moved(n, k) \in 0 .. n
  <2> SUFFICES ASSUME NEW k \in 0 .. q + r  PROVE Moved(n, k) \in 0 .. n
    OBVIOUS
  <2>1. Dword * k \in Nat /\ Dword * q \in Nat /\ (k <= q => Dword * k <= Dword * q)
    BY <1>2, <1>3, <1>4
  <2> QED
    BY <1>2, <1>10, <2>1
<1>13. ASSUME NEW k \in 1 .. q + r
       PROVE  \E len \in Nat : /\ DwordSteps(n)[k] = <<Moved(n, k - 1), len>>
                               /\ Moved(n, k) = Moved(n, k - 1) + len
  <2>1. k \in Nat /\ k - 1 \in Nat /\ Dword * (k - 1 + 1) = Dword * (k - 1) + Dword
    BY <1>2, <1>5
  <2>2. CASE k <= q
    <3>1. big[k] = <<Dword * (k - 1), Dword>>
      BY <1>2, <2>2
    <3>2. Moved(n, k - 1) = Dword * (k - 1) /\ Moved(n, k) = Dword * (k - 1) + Dword
      BY <1>2, <1>10, <2>1, <2>2
    <3> QED
      BY <1>1, <1>9, <2>2, <3>1, <3>2
  <2>3. CASE ~(k <= q)
    <3>1. k - q \in 1 .. r
      BY <1>2, <2>3
    <3>2. small[k - q] = <<Dword * q + (k - q) - 1, 1>>
      BY <3>1
    <3>3. Dword * q \in Nat
      BY <1>2, <1>3
    <3>4. Moved(n, k - 1) = Dword * q + (k - q) - 1
      BY <1>2, <1>10, <2>1, <2>3, <3>3
    <3>5. Moved(n, k) = Dword * q + (k - q)
      BY <1>10, <2>3
    <3>6. DwordSteps(n)[k] = small[k - q]
      BY <1>9, <2>3, Zenon
    <3>7. DwordSteps(n)[k] = <<Moved(n, k - 1), 1>>
      BY <3>2, <3>4, <3>6
    <3>8. Moved(n, k) = Moved(n, k - 1) + 1
      BY <1>2, <3>3, <3>4, <3>5
    <3> QED
      BY <3>7, <3>8
  <2> QED
    BY <2>2, <2>3
<1>14. q + r \in Nat
  BY <1>2
<1> QED
  BY <1>9, <1>11, <1>12, <1>13, <1>14

\* memcpy copies whole when its upward dwords do not overtake the source.
LEMMA MemcpyCopies ==
    ASSUME NEW m, IsMem(m),
           NEW d \in Addr, NEW s \in Addr, NEW n \in Nat, s + n <= MemSize,
           d <= s \/ s + n <= d
    PROVE  memcpy(m, d, s, n) = Whole(m, d, s, n)
<1> DEFINE steps == DwordSteps(n)
           lo == [k \in 0 .. Len(steps) |-> 0]
           hi == [k \in 0 .. Len(steps) |-> Moved(n, k)]
<1>1. d \in Int /\ s \in Int /\ s >= 0 /\ MemSize \in Nat
  BY StringsAssumption DEF Addr
<1>2. /\ Len(steps) \in Nat
      /\ Moved(n, 0) = 0 /\ Moved(n, Len(steps)) = n
      /\ \A k \in 0 .. Len(steps) : Moved(n, k) \in 0 .. n
      /\ \A k \in 1 .. Len(steps) :
            \E len \in Nat : /\ steps[k] = <<Moved(n, k - 1), len>>
                             /\ Moved(n, k) = Moved(n, k - 1) + len
  BY StepsAre
<1>3. \A k \in 0 .. Len(steps) : lo[k] = 0 /\ hi[k] = Moved(n, k)
  OBVIOUS
<1> HIDE DEF steps, lo, hi
<1>4. ASSUME NEW k \in 1 .. Len(steps)
      PROVE  /\ \E off \in Int, len \in Nat : steps[k] = <<off, len>>
             /\ Extends(steps[k], lo[k - 1], hi[k - 1], lo[k], hi[k])
             /\ ReadsOld(steps[k], d, s, lo[k - 1], hi[k - 1])
  <2>1. k - 1 \in 0 .. Len(steps) /\ k \in 0 .. Len(steps)
    BY <1>2
  <2>2. PICK len \in Nat : /\ steps[k] = <<Moved(n, k - 1), len>>
                           /\ Moved(n, k) = Moved(n, k - 1) + len
    BY <1>2
  <2>3. PICK off \in 0 .. n : off = Moved(n, k - 1)
    BY <1>2, <2>1
  <2>4. off + len \in 0 .. n
    BY <1>2, <2>1, <2>2, <2>3
  <2>5. /\ steps[k] = <<off, len>> /\ lo[k - 1] = 0 /\ lo[k] = 0
        /\ hi[k - 1] = off /\ hi[k] = off + len
    BY <1>3, <2>1, <2>2, <2>3
  <2>6. ASSUME NEW j \in off .. off + len - 1
        PROVE  s + j \in Addr /\ s + j - d \notin 0 .. off - 1
    <3>1. j \in 0 .. n - 1 /\ j >= off
      BY <2>4
    <3>2. s + j \in Addr
      BY <1>1, <3>1 DEF Addr
    <3>3. s + j - d \notin 0 .. off - 1
      BY <1>1, <3>1
    <3> QED
      BY <3>2, <3>3
  <2>7. ReadsOld(<<off, len>>, d, s, 0, off)
    BY <2>6 DEF ReadsOld
  <2>8. Extends(<<off, len>>, 0, off, 0, off + len)
    BY DEF Extends
  <2> QED
    BY <2>5, <2>7, <2>8
<1>5. Grows(steps, d, s, lo, hi)
  <2>1. lo[0] = hi[0]
    BY <1>2, <1>3
  <2>2. \A k \in 0 .. Len(steps) : lo[k] \in Int /\ hi[k] \in Int /\ lo[k] <= hi[k]
    BY <1>2, <1>3
  <2> QED
    BY <1>4, <2>1, <2>2 DEF Grows
<1>6. CopyLoop(m, d, s, steps) = Copied(m, d, s, lo[Len(steps)], hi[Len(steps)])
  <2>1. Len(steps) \in Nat
    BY <1>2
  <2> QED
    BY <1>1, <1>5, <2>1, LoopCopies
<1>7. lo[Len(steps)] = 0 /\ hi[Len(steps)] = n
  BY <1>2, <1>3
<1>8. memcpy(m, d, s, n) = CopyLoop(m, d, s, steps)
  BY DEF memcpy, steps
<1> QED
  BY <1>1, <1>6, <1>7, <1>8, WholeIs

\* memset fills exactly the n bytes from d on.
LEMMA MemsetFills ==
    ASSUME NEW m, IsMem(m),
           NEW d \in Addr, NEW val, NEW n \in Nat
    PROVE  memset(m, d, val, n) = Store(m, d, val, n)
<1> DEFINE steps == DwordSteps(n)
           N == Len(steps)
           Step(r, k) == Store(r, d + steps[k][1], val, steps[k][2])
           Eq(f) == f = [k \in 0 .. N |-> IF k = 0 THEN m ELSE Step(f[k - 1], k)]
           w == [k \in 0 .. N |-> Store(m, d, val, Moved(n, k))]
           done == CHOOSE f : Eq(f)
<1>1. d \in Int /\ \A a \in Addr : a \in Int
  BY StringsAssumption DEF Addr
<1>2. /\ N \in Nat /\ Moved(n, 0) = 0 /\ Moved(n, N) = n
      /\ \A k \in 0 .. N : Moved(n, k) \in 0 .. n
      /\ \A k \in 1 .. N :
            \E len \in Nat : /\ steps[k] = <<Moved(n, k - 1), len>>
                             /\ Moved(n, k) = Moved(n, k - 1) + len
  BY StepsAre
<1> HIDE DEF steps
<1>3. \A k \in 0 .. N : Store(m, d, val, Moved(n, k)) =
                           IF k = 0 THEN m ELSE Step(w[k - 1], k)
  <2> SUFFICES ASSUME NEW k \in 0 .. N
               PROVE  Store(m, d, val, Moved(n, k)) =
                         IF k = 0 THEN m ELSE Step(w[k - 1], k)
    OBVIOUS
  <2>1. CASE k = 0
    <3> DEFINE G(a) == IF a \in d .. d + 0 - 1 THEN val ELSE m[a]
    <3>1. \A a \in Addr : G(a) = m[a]
      BY <1>1
    <3>2. Store(m, d, val, 0) = [a \in Addr |-> G(a)]
      BY DEF Store
    <3> HIDE DEF G
    <3>3. Store(m, d, val, 0) = [a \in Addr |-> m[a]]
      BY <3>1, <3>2
    <3> QED
      BY <1>2, <2>1, <3>3 DEF IsMem
  <2>2. CASE k # 0
    <3>1. k \in 1 .. N /\ k - 1 \in 0 .. N
      BY <1>2, <2>2
    <3>2. PICK len \in Nat : /\ steps[k] = <<Moved(n, k - 1), len>>
                             /\ Moved(n, k) = Moved(n, k - 1) + len
      BY <1>2, <3>1
    <3>3. PICK off \in 0 .. n : off = Moved(n, k - 1)
      BY <1>2, <3>1
    <3> DEFINE c == Store(m, d, val, off)
               F(a) == IF a \in d + off .. d + off + len - 1 THEN val ELSE c[a]
               G(a) == IF a \in d .. d + (off + len) - 1 THEN val ELSE m[a]
    <3>4. \A a \in Addr : F(a) = G(a)
      <4> SUFFICES ASSUME NEW a \in Addr  PROVE F(a) = G(a)
        OBVIOUS
      <4>1. c[a] = IF a \in d .. d + off - 1 THEN val ELSE m[a]
        BY DEF Store
      <4> HIDE DEF c
      <4> QED
        BY <1>1, <4>1
    <3> HIDE DEF c
    <3>5. /\ Store(c, d + off, val, len) = [a \in Addr |-> F(a)]
          /\ Store(m, d, val, off + len) = [a \in Addr |-> G(a)]
      BY DEF Store
    <3> HIDE DEF F, G
    <3>6. Store(c, d + off, val, len) = Store(m, d, val, off + len)
      BY <3>4, <3>5
    <3>7. w[k - 1] = c
      BY <3>1, <3>3 DEF c
    <3>8. steps[k][1] = off /\ steps[k][2] = len /\ Moved(n, k) = off + len
      BY <3>2, <3>3
    <3> QED
      BY <2>2, <3>6, <3>7, <3>8
  <2> QED
    BY <2>1, <2>2
<1>4. Eq(w)
  <2> HIDE DEF Step
  <2> QED
    BY <1>3
<1>5. Eq(done)
  <2> HIDE DEF Eq
  <2> QED
    BY <1>4
<1>6. Alike(done, w, N)
  <2> HIDE DEF done, w, Step
  <2>1. done[0] = w[0]
    BY <1>2, <1>4, <1>5
  <2>2. ASSUME NEW k \in 0 .. N, k # 0, done[k - 1] = w[k - 1]
        PROVE  done[k] = w[k]
    <3>1. done[k] = Step(done[k - 1], k) /\ w[k] = Step(w[k - 1], k)
      BY <1>4, <1>5, <2>2
    <3> QED
      BY <2>2, <3>1
  <2> QED
    BY <2>1, <2>2 DEF Alike
<1>7. memset(m, d, val, n) = done[N]
  BY DEF memset, steps
<1>8. w[N] = Store(m, d, val, n)
  BY <1>2
<1> HIDE DEF done, w, N
<1>9. done[N] = w[N]
  BY <1>2, <1>6, SameFrom0
<1> QED
  BY <1>7, <1>8, <1>9

\* Until a call is made the bytes are the ones it finds.
CopyInv == split = "copy" /\ call = NoCall => mem = [a \in Addr |-> a + 1]

LEMMA CopyInductive ==
    ASSUME CopyInv, [StrNext]_strVars
    PROVE  CopyInv'
<1>1. ASSUME NEW op, NEW d, NEW s, NEW n, Called(op, d, s, n), op # "none"
      PROVE  CopyInv'
  <2>1. call'.op # "none"
    BY <1>1 DEF Called
  <2>2. call' # NoCall
    BY <2>1 DEF NoCall
  <2> QED
    BY <2>2 DEF CopyInv, NoCall
<1>2. ASSUME NEW d, NEW s, NEW n, Memcpy(d, s, n) \/ Memmove(d, s, n) \/ Memset(d, s, n)
      PROVE  CopyInv'
  BY <1>1, <1>2 DEF Memcpy, Memmove, Memset
<1>3. ASSUME NEW d, Strdup(d)
      PROVE  CopyInv'
  <2>1. split' = "done" \/ split' = "first"
    BY <1>3, Zenon DEF Strdup
  <2> QED
    BY <2>1 DEF CopyInv
<1>4. ASSUME NEW p, strtok_r(p)
      PROVE  CopyInv'
  <2>1. split' = "done" \/ split' = "next"
    BY <1>4, Zenon DEF strtok_r
  <2> QED
    BY <2>1 DEF CopyInv
<1>5. CASE UNCHANGED strVars
  BY <1>5 DEF CopyInv, strVars, NoCall
<1> QED
  BY <1>2, <1>3, <1>4, <1>5 DEF StrNext, StrtokFirst, StrtokNext

(***************************************************************************)
(* For every size of memory and of dword: a memmove, whatever the overlap, *)
(* and a memcpy whose destination does not start inside its source, leave  *)
(* the bytes that the source had at the destination and change no other;   *)
(* a memset fills its bytes and no other.                                  *)
(***************************************************************************)
THEOREM CopiesAreWhole == StrSpec => CopiesWhole
<1> DEFINE Step ==
      call' # call =>
         /\ \/ call'.op = "memmove"
            \/ call'.op = "memcpy" /\ (call'.d <= call'.s \/ call'.s + call'.n <= call'.d)
            => mem' = [a \in Addr |-> IF a \in Target(call') THEN mem[call'.s + a - call'.d]
                                                              ELSE mem[a]]
         /\ call'.op = "memset" =>
               mem' = [a \in Addr |-> IF a \in Target(call') THEN call'.s ELSE mem[a]]
<1>1. StrInit => CopyInv
  BY DEF StrInit, CopyInit, SplitInit, CopyInv
<1>2. CopyInv /\ [StrNext]_strVars => CopyInv'
  BY CopyInductive
<1>3. CopyInv /\ [StrNext]_strVars => [Step]_strVars
  <2> SUFFICES ASSUME CopyInv, StrNext
               PROVE  Step
    BY DEF strVars
  <2>1. ASSUME NEW op, NEW d \in Addr, NEW s, NEW n \in 0 .. MemSize,
               Called(op, d, s, n)
        PROVE  /\ call'.op = op /\ call'.d = d /\ call'.s = s /\ call'.n = n
               /\ IsMem(mem)
               /\ Target(call') = d .. d + n - 1 /\ n \in Nat
    <3>1. call'.op = op /\ call'.d = d /\ call'.s = s /\ call'.n = n
      BY <2>1 DEF Called
    <3>2. mem = [a \in Addr |-> a + 1]
      BY <2>1 DEF Called, CopyInv
    <3> QED
      BY <3>1, <3>2 DEF Target, IsMem
  <2>2. ASSUME NEW d \in Addr, NEW s \in Addr, NEW n \in 0 .. MemSize, Memcpy(d, s, n)
        PROVE  Step
    <3>1. s + n <= MemSize /\ Called("memcpy", d, s, n) /\ mem' = memcpy(mem, d, s, n)
      BY <2>2 DEF Memcpy
    <3>2. d <= s \/ s + n <= d => mem' = Whole(mem, d, s, n)
      BY <2>1, <3>1, MemcpyCopies
    <3>3. /\ call'.op = "memcpy" /\ call'.d = d /\ call'.s = s /\ call'.n = n
          /\ Target(call') = d .. d + n - 1
      BY <2>1, <3>1
    <3> QED
      BY <3>2, <3>3 DEF Whole
  <2>3. ASSUME NEW d \in Addr, NEW s \in Addr, NEW n \in 0 .. MemSize, Memmove(d, s, n)
        PROVE  Step
    <3>1. s + n <= MemSize /\ Called("memmove", d, s, n) /\ mem' = memmove(mem, d, s, n)
      BY <2>3 DEF Memmove
    <3>2. mem' = Whole(mem, d, s, n)
      BY <2>1, <3>1, MemmoveCopies
    <3>3. /\ call'.op = "memmove" /\ call'.d = d /\ call'.s = s /\ call'.n = n
          /\ Target(call') = d .. d + n - 1
      BY <2>1, <3>1
    <3> QED
      BY <3>2, <3>3 DEF Whole
  <2>4. ASSUME NEW d \in Addr, NEW n \in 0 .. MemSize, Memset(d, NUL, n)
        PROVE  Step
    <3>1. Called("memset", d, NUL, n) /\ mem' = memset(mem, d, NUL, n)
      BY <2>4 DEF Memset
    <3>2. mem' = Store(mem, d, NUL, n)
      BY <2>1, <3>1, MemsetFills
    <3>3. /\ call'.op = "memset" /\ call'.d = d /\ call'.s = NUL /\ call'.n = n
          /\ Target(call') = d .. d + n - 1
      BY <2>1, <3>1
    <3> QED
      BY <3>2, <3>3 DEF Store
  <2>5. ASSUME UNCHANGED call
        PROVE  Step
    BY <2>5
  <2> HIDE DEF Step
  <2> QED
    BY <2>2, <2>3, <2>4, <2>5 DEF StrNext, Strdup, StrtokFirst, StrtokNext
<1> QED
  BY <1>1, <1>2, <1>3, PTL DEF StrSpec, CopiesWhole

-----------------------------------------------------------------------------
(* Splitting a text.                                                       *)

\* From its offset p on the text stands at the address a.
TextFrom(m, a, t, p) ==
    \A j \in p .. Len(t) : m[a + j] = IF j = Len(t) THEN NUL ELSE t[j + 1]

\* No word goes across the offset p.
Between(t, p) == p = 0 \/ p = Len(t) \/ t[p] \in Accept

\* The tokens are the words of the text up to p.
WordsTo(words, p) ==
    /\ \A k \in 1 .. Len(tokens) : tokens[k] = SubSeq(text, words[k][1], words[k][2])
    /\ \A j, k \in 1 .. Len(tokens) : j < k => words[j][2] < words[k][1]
    /\ \A k \in 1 .. Len(tokens) : words[k][2] <= p
    /\ \A w \in WordEnds(text) : w[2] <= p => \E k \in 1 .. Len(tokens) : words[k] = w

\* strtok_r goes on at the offset p of the copy.
GoesOnAt(p) ==
    /\ IF split = "first" THEN p = 0 ELSE saveptr = copy + p
    /\ split = "done" => p = Len(text)
    /\ TextFrom(mem, copy, text, p) /\ Between(text, p)
    /\ \E words \in [1 .. Len(tokens) -> WordEnds(text)] : WordsTo(words, p)

SplitInv ==
    /\ split = "copy" => text = <<>> /\ copy = NULL
    /\ split # "copy" =>
         /\ text \in Text /\ IsMem(mem) /\ TextFrom(mem, 0, text, 0)
         /\ tokens \in Seq(Seq(Nat))
         /\ copy = NULL => split \in {"strdup", "done"}
         /\ split = "strdup" => copy = NULL /\ tokens = <<>>
         /\ copy # NULL =>
              /\ split \in {"first", "next", "done"}
              /\ copy \in Addr /\ copy > Len(text) /\ copy + Len(text) < MemSize
              /\ split = "first" => tokens = <<>>
              /\ \E p \in 0 .. Len(text) : GoesOnAt(p)

LEMMA LeastIs ==
    ASSUME NEW T \in SUBSET Int, NEW x \in T, \A y \in T : x <= y
    PROVE  Least(T) = x
<1>1. Least(T) \in T /\ \A y \in T : Least(T) <= y
  BY DEF Least
<1>2. Least(T) \in Int /\ x \in Int /\ Least(T) <= x /\ x <= Least(T)
  BY <1>1
<1> HIDE DEF Least
<1> QED
  BY <1>2

LEMMA LeastExists ==
    ASSUME NEW T \in SUBSET Nat, T # {}
    PROVE  Least(T) \in T /\ \A y \in T : Least(T) <= y
BY NatMin DEF Least

\* A string that ends l behind p.
LEMMA StrlenIs ==
    ASSUME MemSize \in Nat, NEW m, NEW p \in Nat, NEW l \in Nat, p + l < MemSize,
           m[p + l] = NUL, \A j \in 0 .. l - 1 : m[p + j] # NUL
    PROVE  strlen(m, p) = l
<1> DEFINE T == {k \in 0 .. MemSize - p - 1 : m[p + k] = NUL}
<1>1. T \in SUBSET Int /\ l \in T
  OBVIOUS
<1>2. \A y \in T : l <= y
  OBVIOUS
<1> HIDE DEF T
<1>3. Least(T) = l
  BY <1>1, <1>2, LeastIs
<1> QED
  BY <1>3 DEF strlen, T

\* A text has no NUL of its own, and room for a copy.
LEMMA TextIs ==
    ASSUME NEW t \in Text
    PROVE  /\ MemSize \in Nat /\ t \in Seq(Nat) /\ Len(t) \in Nat
           /\ 2 * (Len(t) + 1) <= MemSize
           /\ \A k \in 1 .. Len(t) : t[k] # NUL
           /\ NUL \notin Accept /\ NULL \notin Addr
BY StringsAssumption

LEMMA TextLength ==
    ASSUME NEW t \in Text, NEW m, NEW a \in Nat,
           NEW p \in 0 .. Len(t), a + Len(t) < MemSize, TextFrom(m, a, t, p)
    PROVE  strlen(m, a + p) = Len(t) - p
<1>1. /\ MemSize \in Nat /\ Len(t) \in Nat
      /\ \A k \in 1 .. Len(t) : t[k] # NUL
  BY TextIs
<1>2. PICK n \in Nat : n = Len(t)
  BY <1>1
<1>3. m[a + n] = NUL
  BY <1>2 DEF TextFrom
<1>4. \A j \in p .. n - 1 : m[a + j] = t[j + 1] /\ t[j + 1] # NUL
  <2> SUFFICES ASSUME NEW j \in p .. n - 1
               PROVE  m[a + j] = t[j + 1] /\ t[j + 1] # NUL
    OBVIOUS
  <2>1. j \in p .. Len(t) /\ j # Len(t) /\ j + 1 \in 1 .. Len(t)
    BY <1>2
  <2> QED
    BY <1>1, <2>1 DEF TextFrom
<1>5. \A j \in 0 .. n - p - 1 : m[a + p + j] # NUL
  <2> SUFFICES ASSUME NEW j \in 0 .. n - p - 1 PROVE m[a + p + j] # NUL
    OBVIOUS
  <2>1. p + j \in p .. n - 1 /\ a + (p + j) = a + p + j
    BY <1>2
  <2> QED
    BY <1>4, <2>1
<1>6. a + p + (n - p) = a + n /\ n - p \in Nat /\ a + p \in Nat
  BY <1>2
<1>7. PICK b \in Nat, l \in Nat : b = a + p /\ l = n - p /\ b + l = a + n /\ b + l < MemSize
  BY <1>1, <1>2, <1>6
<1>8. m[b + l] = NUL /\ \A j \in 0 .. l - 1 : m[b + j] # NUL
  BY <1>3, <1>5, <1>7
<1>9. strlen(m, b) = l
  BY <1>1, <1>7, <1>8, StrlenIs
<1> QED
  BY <1>2, <1>7, <1>9

\* strspn: the delimiters from p on are skipped up to q.
LEMMA SpanIs ==
    ASSUME NEW t \in Text, NEW m, NEW a \in Nat,
           NEW p \in 0 .. Len(t), a + Len(t) < MemSize, TextFrom(m, a, t, p)
    PROVE  \E q \in p .. Len(t) :
              /\ a + p + strspn(m, a + p, Accept) = a + q
              /\ \A k \in p + 1 .. q : t[k] \in Accept
              /\ q < Len(t) => t[q + 1] \notin Accept
<1>1. Len(t) \in Nat /\ NUL \notin Accept
  BY TextIs
<1>2. PICK n \in Nat : n = Len(t)
  BY <1>1
<1>3. strlen(m, a + p) = n - p
  BY <1>2, TextLength
<1> DEFINE T == {k \in 0 .. n - p : m[a + p + k] \notin Accept}
<1>4. \A k \in 0 .. n - p : m[a + p + k] = IF p + k = n THEN NUL ELSE t[p + k + 1]
  <2> SUFFICES ASSUME NEW k \in 0 .. n - p
               PROVE  m[a + p + k] = IF p + k = n THEN NUL ELSE t[p + k + 1]
    OBVIOUS
  <2>1. p + k \in p .. n /\ a + (p + k) = a + p + k
    BY <1>2
  <2> QED
    BY <1>2, <2>1 DEF TextFrom
<1>5. n - p \in T /\ T \in SUBSET Nat
  BY <1>1, <1>2, <1>4
<1>6. PICK s \in T : s = Least(T) /\ \A y \in T : s <= y
  <2> HIDE DEF T
  <2> QED
    BY <1>5, LeastExists
<1>11. s \in 0 .. n - p /\ s \in Nat /\ m[a + p + s] \notin Accept
  BY <1>2, <1>6
<1>7. strspn(m, a + p, Accept) = s
  BY <1>3, <1>6 DEF strspn
<1>8. p + s \in p .. n /\ a + p + s = a + (p + s)
  BY <1>2, <1>6
<1>9. \A k \in p + 1 .. p + s : t[k] \in Accept
  <2> SUFFICES ASSUME NEW k \in p + 1 .. p + s PROVE t[k] \in Accept
    OBVIOUS
  <2>1. PICK i \in 0 .. n - p : i = k - 1 - p /\ i < s
    <3>1. k - 1 - p \in 0 .. n - p /\ k - 1 - p < s
      BY <1>2, <1>11
    <3> QED
      BY <3>1
  <2>2. i \notin T
    BY <1>6, <2>1
  <2>3. p + i + 1 = k /\ p + i # n
    BY <1>2, <1>6, <2>1
  <2> QED
    BY <1>4, <2>1, <2>2, <2>3
<1>10. p + s < n => t[p + s + 1] \notin Accept
  <2>1. m[a + p + s] = IF p + s = n THEN NUL ELSE t[p + s + 1]
    BY <1>4, <1>11
  <2>2. p + s < n => p + s # n
    BY <1>2, <1>11
  <2> QED
    BY <1>11, <2>1, <2>2
<1> QED
  BY <1>2, <1>7, <1>8, <1>9, <1>10

\* strpbrk: the word from q on ends at e; the delimiter behind it, if any.
LEMMA BreakIs ==
    ASSUME NEW t \in Text, NEW m, NEW a \in Nat,
           NEW q \in 0 .. Len(t), q < Len(t), a + Len(t) < MemSize, TextFrom(m, a, t, q),
           t[q + 1] \notin Accept
    PROVE  \E e \in q + 1 .. Len(t) :
              /\ strpbrk(m, a + q, Accept) = IF e = Len(t) THEN NULL ELSE a + e
              /\ \A k \in q + 1 .. e : t[k] \notin Accept
              /\ e < Len(t) => t[e + 1] \in Accept
<1>1. Len(t) \in Nat /\ NUL \notin Accept
  BY TextIs
<1>2. PICK n \in Nat : n = Len(t)
  BY <1>1
<1>3. strlen(m, a + q) = n - q
  BY <1>2, TextLength
<1> DEFINE T == {c \in a + q .. a + q + (n - q) - 1 : m[c] \in Accept}
<1>4. strpbrk(m, a + q, Accept) = IF T = {} THEN NULL ELSE Least(T)
  BY <1>3 DEF strpbrk
<1>5. \A k \in q + 1 .. n : a + k - 1 \in a + q .. a + q + (n - q) - 1 /\ m[a + k - 1] = t[k]
  <2> SUFFICES ASSUME NEW k \in q + 1 .. n
               PROVE  a + k - 1 \in a + q .. a + q + (n - q) - 1 /\ m[a + k - 1] = t[k]
    OBVIOUS
  <2>1. k - 1 \in q .. n /\ k - 1 # n /\ a + (k - 1) = a + k - 1 /\ k - 1 + 1 = k
    BY <1>2
  <2>2. m[a + (k - 1)] = t[k]
    BY <1>2, <2>1 DEF TextFrom
  <2> QED
    BY <1>2, <2>1, <2>2
<1>6. T \in SUBSET Nat
  BY <1>2
<1>7. CASE T = {}
  <2>1. \A k \in q + 1 .. n : t[k] \notin Accept
    BY <1>5, <1>7
  <2> QED
    BY <1>2, <1>4, <1>7, <2>1
<1>8. CASE T # {}
  <2>1. PICK c \in T : c = Least(T) /\ \A y \in T : c <= y
    <3> HIDE DEF T
    <3> QED
      BY <1>6, <1>8, LeastExists
  <2>2. PICK e \in q .. n - 1 : c = a + e
    <3>1. c - a \in q .. n - 1 /\ c = a + (c - a)
      BY <1>2, <2>1
    <3> QED
      BY <3>1
  <2>3. e + 1 \in q + 1 .. n /\ a + (e + 1) - 1 = a + e
    BY <1>2, <2>2
  <2>4. t[e + 1] \in Accept
    BY <1>5, <2>1, <2>2, <2>3
  <2>5. e # q
    BY <2>4
  <2>6. \A k \in q + 1 .. e : t[k] \notin Accept
    <3> SUFFICES ASSUME NEW k \in q + 1 .. e PROVE t[k] \notin Accept
      OBVIOUS
    <3>1. k \in q + 1 .. n /\ ~(c <= a + k - 1)
      BY <1>2, <2>2
    <3>2. a + k - 1 \notin T
      <4> HIDE DEF T
      <4> QED
        BY <2>1, <3>1
    <3> QED
      BY <1>5, <3>1, <3>2
  <2>7. e \in q + 1 .. Len(t) /\ e # Len(t)
    BY <1>2, <2>2, <2>5
  <2> HIDE DEF T
  <2> QED
    BY <1>4, <1>8, <2>1, <2>2, <2>4, <2>6, <2>7
<1> QED
  BY <1>7, <1>8

LEMMA WordEndsIs ==
    ASSUME NEW t, NEW w \in WordEnds(t)
    PROVE  /\ w[1] \in 1 .. Len(t) /\ w[2] \in 1 .. Len(t) /\ w = <<w[1], w[2]>>
           /\ w[1] <= w[2] /\ \A k \in w[1] .. w[2] : t[k] \notin Accept
           /\ w[1] = 1 \/ t[w[1] - 1] \in Accept
           /\ w[2] = Len(t) \/ t[w[2] + 1] \in Accept
BY DEF WordEnds

\* No word lies across a place that Between names.
LEMMA NotAcross ==
    ASSUME NEW t, Len(t) \in Nat, NEW p \in 0 .. Len(t), Between(t, p),
           NEW w \in WordEnds(t)
    PROVE  w[2] <= p \/ p < w[1]
<1>1. /\ w[1] \in 1 .. Len(t) /\ w[2] \in 1 .. Len(t)
      /\ w[1] <= w[2] /\ \A k \in w[1] .. w[2] : t[k] \notin Accept
  BY WordEndsIs
<1>2. CASE p = 0 \/ p = Len(t)
  BY <1>1, <1>2
<1>3. CASE t[p] \in Accept
  <2>1. p \notin w[1] .. w[2]
    BY <1>1, <1>3
  <2> QED
    BY <1>1, <2>1
<1> QED
  BY <1>2, <1>3 DEF Between

\* Where nothing but delimiters follows, no word does.
LEMMA NoMoreWords ==
    ASSUME NEW t, Len(t) \in Nat, NEW p \in 0 .. Len(t), Between(t, p),
           \A k \in p + 1 .. Len(t) : t[k] \in Accept, NEW w \in WordEnds(t)
    PROVE  w[2] <= p
<1>1. /\ w[1] \in 1 .. Len(t) /\ w[2] \in 1 .. Len(t)
      /\ w[1] <= w[2] /\ \A k \in w[1] .. w[2] : t[k] \notin Accept
  BY WordEndsIs
<1>2. w[1] \in w[1] .. w[2]
  BY <1>1
<1>3. ~(p < w[1])
  BY <1>1, <1>2
<1> QED
  BY <1>3, NotAcross

\* The next offset after a word that ends at e.
After(t, e) == IF e = Len(t) THEN e ELSE e + 1

\* Behind delimiters from p on, the characters from q to e are none.
IsRun(t, p, q, e) ==
    /\ \A k \in p + 1 .. q : t[k] \in Accept
    /\ \A k \in q + 1 .. e : t[k] \notin Accept
    /\ e < Len(t) => t[e + 1] \in Accept

\* That run is a word, and the only one between p and what follows.
IsNextWord(t, p, q, e) ==
    /\ <<q + 1, e>> \in WordEnds(t)
    /\ After(t, e) \in 0 .. Len(t) /\ e <= After(t, e) /\ Between(t, After(t, e))
    /\ \A w \in WordEnds(t) : w[2] <= After(t, e) => w[2] <= p \/ w = <<q + 1, e>>

LEMMA NextWord ==
    ASSUME NEW t, Len(t) \in Nat, NEW p \in 0 .. Len(t), NEW q \in p .. Len(t),
           NEW e \in q + 1 .. Len(t), Between(t, p), IsRun(t, p, q, e)
    PROVE  IsNextWord(t, p, q, e)
<1>0. /\ \A k \in p + 1 .. q : t[k] \in Accept
      /\ \A k \in q + 1 .. e : t[k] \notin Accept
      /\ e < Len(t) => t[e + 1] \in Accept
  BY DEF IsRun
<1>1. PICK n \in Nat : n = Len(t)
  OBVIOUS
<1>2. q + 1 = 1 \/ t[q + 1 - 1] \in Accept
  <2>1. CASE q = p
    <3>1. p = 0 \/ t[p] \in Accept
      BY <1>1, <2>1 DEF Between
    <3> QED
      BY <1>1, <2>1, <3>1
  <2>2. CASE q # p
    <3>1. q \in p + 1 .. q /\ q + 1 - 1 = q
      BY <1>1, <2>2
    <3> QED
      BY <1>0, <3>1
  <2> QED
    BY <2>1, <2>2
<1>3. <<q + 1, e>> \in WordEnds(t)
  <2> DEFINE w == <<q + 1, e>>
  <2>1. w \in (1 .. Len(t)) \X (1 .. Len(t)) /\ w[1] = q + 1 /\ w[2] = e
    BY <1>1
  <2>2. /\ q + 1 <= e
        /\ e = Len(t) \/ t[e + 1] \in Accept
    BY <1>0, <1>1
  <2> HIDE DEF w
  <2>3. w \in WordEnds(t)
    BY <1>0, <1>2, <2>1, <2>2 DEF WordEnds
  <2> QED
    BY <2>3 DEF w
<1>4. After(t, e) \in 0 .. Len(t) /\ e <= After(t, e) /\ Between(t, After(t, e))
  BY <1>0, <1>1 DEF After, Between
<1>5. ASSUME NEW w \in WordEnds(t), w[2] <= After(t, e), ~(w[2] <= p)
      PROVE  w = <<q + 1, e>>
  <2>1. /\ w[1] \in 1 .. n /\ w[2] \in 1 .. n /\ w = <<w[1], w[2]>>
        /\ w[1] <= w[2] /\ \A k \in w[1] .. w[2] : t[k] \notin Accept
        /\ w[1] = 1 \/ t[w[1] - 1] \in Accept
        /\ w[2] = n \/ t[w[2] + 1] \in Accept
    BY <1>1, WordEndsIs
  <2>2. p < w[1]
    BY <1>5, NotAcross
  <2>3. q + 1 <= w[1]
    <3>1. w[1] \notin p + 1 .. q
      <4>1. w[1] \in w[1] .. w[2]
        BY <2>1
      <4> QED
        BY <1>0, <2>1, <4>1
    <3> QED
      BY <1>1, <2>1, <2>2, <3>1
  <2>4. w[2] <= e
    <3>1. CASE e = n
      BY <1>1, <2>1, <3>1
    <3>2. CASE e # n
      <4>1. e + 1 \notin w[1] .. w[2]
        BY <1>0, <1>1, <2>1, <3>2
      <4>2. w[2] # e + 1
        BY <1>1, <2>1, <4>1
      <4> QED
        BY <1>1, <1>5, <2>1, <3>2, <4>2 DEF After
    <3> QED
      BY <3>1, <3>2
  <2>5. w[1] = q + 1
    <3> SUFFICES ASSUME w[1] # q + 1 PROVE FALSE
      OBVIOUS
    <3>1. w[1] - 1 \in q + 1 .. e /\ w[1] # 1
      BY <1>1, <2>1, <2>3, <2>4
    <3> QED
      BY <1>0, <2>1, <3>1
  <2>6. w[2] = e
    <3> SUFFICES ASSUME w[2] # e PROVE FALSE
      OBVIOUS
    <3>1. w[2] + 1 \in q + 1 .. e /\ w[2] # n
      BY <1>1, <2>1, <2>3, <2>4
    <3> QED
      BY <1>0, <2>1, <3>1
  <2> QED
    BY <2>1, <2>5, <2>6
<1> QED
  BY <1>3, <1>4, <1>5 DEF IsNextWord

\* What strtok_r reads at the word q + 1 .. e, and what it leaves.
Cut(m, a, t, e) == IF e = Len(t) THEN m ELSE [m EXCEPT ![a + e] = NUL]

Leaves(c, m, a, t, q, e) ==
    /\ strlen(c, a + q) = e - q
    /\ [k \in 1 .. e - q |-> c[a + q + k - 1]] = SubSeq(t, q + 1, e)
    /\ SubSeq(t, q + 1, e) \in Seq(Nat)
    /\ IsMem(c) /\ \A j \in Addr : j # a + e => c[j] = m[j]
    /\ TextFrom(c, a, t, After(t, e))

LEMMA TokenIs ==
    ASSUME NEW t \in Text, NEW m, IsMem(m), NEW a \in Nat, NEW q \in 0 .. Len(t),
           NEW e \in q + 1 .. Len(t), a + Len(t) < MemSize, TextFrom(m, a, t, q)
    PROVE  Leaves(Cut(m, a, t, e), m, a, t, q, e)
<1>1. /\ MemSize \in Nat /\ t \in Seq(Nat) /\ Len(t) \in Nat
      /\ \A k \in 1 .. Len(t) : t[k] # NUL
  BY TextIs
<1>2. PICK n \in Nat : n = Len(t)
  BY <1>1
<1> DEFINE c == Cut(m, a, t, e)
<1>3. a + e \in Addr /\ m = [x \in Addr |-> m[x]]
  BY <1>1, <1>2 DEF Addr, IsMem
<1>4. /\ IsMem(c) /\ \A j \in Addr : j # a + e => c[j] = m[j]
      /\ e # n => c[a + e] = NUL
  <2>1. CASE e = n
    BY <1>2, <2>1 DEF Cut
  <2>2. CASE e # n
    <3>1. c = [m EXCEPT ![a + e] = NUL]
      BY <1>2, <2>2 DEF Cut
    <3>2. c = [x \in Addr |-> IF x = a + e THEN NUL ELSE m[x]]
      BY <1>3, <3>1
    <3>3. \A j \in Addr : j # a + e => c[j] = m[j]
      BY <3>2
    <3> HIDE DEF c
    <3> QED
      BY <1>3, <3>2, <3>3 DEF IsMem
  <2> QED
    BY <2>1, <2>2
<1> HIDE DEF c
<1>5. \A j \in q .. e - 1 : c[a + j] = t[j + 1]
  <2> SUFFICES ASSUME NEW j \in q .. e - 1 PROVE c[a + j] = t[j + 1]
    OBVIOUS
  <2>1. j \in q .. n /\ j # n /\ a + j # a + e /\ a + j \in Addr
    BY <1>1, <1>2 DEF Addr
  <2> QED
    BY <1>2, <1>4, <2>1 DEF TextFrom
<1>6. c[a + e] = NUL
  <2>1. CASE e = n
    <3>1. c = m
      BY <1>2, <2>1 DEF c, Cut
    <3> QED
      BY <1>2, <2>1, <3>1 DEF TextFrom
  <2> QED
    BY <1>4, <2>1
<1>7. strlen(c, a + q) = e - q
  <2>1. /\ a + q \in Nat /\ e - q \in Nat /\ a + q + (e - q) = a + e
        /\ a + q + (e - q) < MemSize
    BY <1>1, <1>2
  <2>2. \A j \in 0 .. e - q - 1 : c[a + q + j] # NUL
    <3> SUFFICES ASSUME NEW j \in 0 .. e - q - 1 PROVE c[a + q + j] # NUL
      OBVIOUS
    <3>1. q + j \in q .. e - 1 /\ a + (q + j) = a + q + j /\ q + j + 1 \in 1 .. Len(t)
      BY <1>2
    <3> QED
      BY <1>1, <1>5, <3>1
  <2> QED
    BY <1>1, <1>6, <2>1, <2>2, StrlenIs
<1>8. SubSeq(t, q + 1, e) \in Seq(Nat)
  BY <1>1, <1>2
<1>9. [k \in 1 .. e - q |-> c[a + q + k - 1]] = SubSeq(t, q + 1, e)
  <2>1. SubSeq(t, q + 1, e) = [k \in 1 .. e - q |-> t[q + k]]
    BY <1>1, <1>2
  <2>2. \A k \in 1 .. e - q : c[a + q + k - 1] = t[q + k]
    <3> SUFFICES ASSUME NEW k \in 1 .. e - q PROVE c[a + q + k - 1] = t[q + k]
      OBVIOUS
    <3>1. q + k - 1 \in q .. e - 1 /\ a + (q + k - 1) = a + q + k - 1 /\ q + k - 1 + 1 = q + k
      BY <1>2
    <3> QED
      BY <1>5, <3>1
  <2> QED
    BY <2>1, <2>2
<1>10. TextFrom(c, a, t, After(t, e))
  <2> SUFFICES ASSUME NEW j \in After(t, e) .. Len(t)
               PROVE  c[a + j] = IF j = Len(t) THEN NUL ELSE t[j + 1]
    BY DEF TextFrom
  <2>1. j \in q .. Len(t) /\ a + j \in Addr
    BY <1>1, <1>2 DEF After, Addr
  <2>2. CASE a + j = a + e
    <3>1. j = e /\ e = Len(t)
      BY <1>2, <2>1, <2>2 DEF After
    <3> QED
      BY <1>6, <3>1
  <2>3. CASE a + j # a + e
    BY <1>4, <2>1, <2>3 DEF TextFrom
  <2> QED
    BY <2>2, <2>3
<1> QED
  BY <1>4, <1>7, <1>8, <1>9, <1>10 DEF c, Leaves

LEMMA FindIs ==
    ASSUME NEW t \in Text, NEW m, NEW a \in Nat, NEW q \in 0 .. Len(t),
           a + Len(t) < MemSize, TextFrom(m, a, t, q)
    PROVE  lfind(m, a + q, NUL) = a + Len(t)
<1>1. /\ MemSize \in Nat /\ Len(t) \in Nat /\ \A k \in 1 .. Len(t) : t[k] # NUL
  BY TextIs
<1>2. PICK n \in Nat : n = Len(t)
  BY <1>1
<1> DEFINE T == {c \in a + q .. MemSize - 1 : m[c] = NUL}
<1>3. T \in SUBSET Int /\ a + n \in T
  BY <1>1, <1>2 DEF TextFrom
<1>4. ASSUME NEW c \in T, ~(a + n <= c)
      PROVE  FALSE
  <2>1. PICK j \in q .. n - 1 : c = a + j
    <3>1. c - a \in q .. n - 1 /\ c = a + (c - a)
      BY <1>1, <1>2, <1>4
    <3> QED
      BY <3>1
  <2>2. j \in q .. n /\ j # n /\ j + 1 \in 1 .. n
    BY <1>2, <2>1
  <2>3. m[c] = t[j + 1] /\ m[c] = NUL
    BY <1>2, <2>1, <2>2 DEF TextFrom
  <2> QED
    BY <1>1, <1>2, <2>2, <2>3
<1> HIDE DEF T
<1>5. Least(T) = a + n
  BY <1>3, <1>4, LeastIs
<1> QED
  BY <1>2, <1>5 DEF lfind, T

\* A call of strtok_r finds the next word, or that there is none.
LEMMA StrtokKeeps ==
    ASSUME SplitInv, NEW str, strtok_r(str), split \in {"first", "next"},
           str = IF split = "first" THEN copy ELSE saveptr,
           UNCHANGED <<text, copy>>
    PROVE  SplitInv'
<1>1. /\ text \in Text /\ IsMem(mem) /\ TextFrom(mem, 0, text, 0)
      /\ tokens \in Seq(Seq(Nat)) /\ copy # NULL
      /\ copy \in Addr /\ copy > Len(text) /\ copy + Len(text) < MemSize
      /\ \E p \in 0 .. Len(text) : GoesOnAt(p)
  BY DEF SplitInv
<1>2. PICK p \in 0 .. Len(text) : GoesOnAt(p)
  BY <1>1
<1>3. PICK n \in Nat : n = Len(text)
  BY <1>1, TextIs
<1>4. MemSize \in Nat /\ copy \in Nat /\ NULL \notin Addr
  BY <1>1, TextIs DEF Addr
<1>5. /\ str = copy + p /\ TextFrom(mem, copy, text, p) /\ Between(text, p)
      /\ \E words \in [1 .. Len(tokens) -> WordEnds(text)] : WordsTo(words, p)
  <2>1. str = copy + p
    <3>1. IF split = "first" THEN p = 0 ELSE saveptr = copy + p
      BY <1>2, Zenon DEF GoesOnAt
    <3>2. CASE split = "first"
      <4>1. str = copy /\ p = 0
        BY <3>1, <3>2, Zenon
      <4> QED
        BY <1>4, <4>1
    <3>3. CASE split # "first"
      BY <3>1, <3>3, Zenon
    <3> QED
      BY <3>2, <3>3
  <2> QED
    BY <1>2, <2>1, Zenon DEF GoesOnAt
<1>6. PICK words \in [1 .. Len(tokens) -> WordEnds(text)] : WordsTo(words, p)
  BY <1>5
<1>7. PICK q \in p .. Len(text) :
         /\ copy + p + strspn(mem, copy + p, Accept) = copy + q
         /\ \A k \in p + 1 .. q : text[k] \in Accept
         /\ q < Len(text) => text[q + 1] \notin Accept
  BY <1>1, <1>4, <1>5, SpanIs
<1>8. TextFrom(mem, copy, text, q) /\ q \in 0 .. n
  BY <1>3, <1>5, <1>7 DEF TextFrom
<1>9. mem[copy + q] = IF q = n THEN NUL ELSE text[q + 1]
  BY <1>3, <1>8 DEF TextFrom
<1>10. str + strspn(mem, str, Accept) = copy + q
  BY <1>5, <1>7
<1>11. CASE q = n
  <2>1. saveptr' = copy + q /\ split' = "done" /\ mem' = mem /\ tokens' = tokens
    BY <1>9, <1>10, <1>11 DEF strtok_r
  <2>2. \A w \in WordEnds(text) : w[2] <= p
    BY <1>3, <1>5, <1>7, <1>11, NoMoreWords
  <2>3. WordsTo(words, q)'
    <3>1. \A k \in 1 .. Len(tokens) : words[k][2] <= q
      <4>1. \A k \in 1 .. Len(tokens) : words[k][2] \in 1 .. n /\ words[k] \in WordEnds(text)
        BY <1>3, <1>6, WordEndsIs
      <4> QED
        BY <1>11, <4>1
    <3> QED
      BY <1>6, <2>1, <2>2, <3>1 DEF WordsTo
  <2>4. Between(text, q) /\ q = Len(text)
    BY <1>3, <1>11 DEF Between
  <2>5. GoesOnAt(q)'
    BY <1>6, <1>8, <2>1, <2>3, <2>4 DEF GoesOnAt
  <2> QED
    BY <1>1, <1>3, <1>8, <2>1, <2>5 DEF SplitInv
<1>12. CASE q # n
  <2>1. q < Len(text) /\ q + 1 \in 1 .. Len(text) /\ text[q + 1] \notin Accept
    BY <1>3, <1>7, <1>8, <1>12
  <2>2. mem[copy + q] # NUL
    BY <1>1, <1>9, <1>12, <2>1, TextIs
  <2>3. PICK e \in q + 1 .. Len(text) :
           /\ strpbrk(mem, copy + q, Accept) = IF e = Len(text) THEN NULL ELSE copy + e
           /\ \A k \in q + 1 .. e : text[k] \notin Accept
           /\ e < Len(text) => text[e + 1] \in Accept
    BY <1>1, <1>3, <1>4, <1>8, <2>1, BreakIs
  <2>4. copy + e \in Addr /\ copy + e # NULL /\ e \in Nat
    BY <1>3, <1>1, <1>4, <1>8 DEF Addr
  <2>18. PICK c, tok, p2 : /\ c = Cut(mem, copy, text, e)
                           /\ tok = SubSeq(text, q + 1, e)
                           /\ p2 = After(text, e)
    OBVIOUS
  <2>5. /\ strlen(c, copy + q) = e - q
        /\ [k \in 1 .. e - q |-> c[copy + q + k - 1]] = tok
        /\ tok \in Seq(Nat) /\ IsMem(c)
        /\ \A j \in Addr : j # copy + e => c[j] = mem[j]
        /\ TextFrom(c, copy, text, p2)
    <3>1. Leaves(c, mem, copy, text, q, e)
      BY <1>1, <1>3, <1>4, <1>8, <2>18, TokenIs
    <3> QED
      BY <2>18, <3>1 DEF Leaves
  <2>6. lfind(mem, copy + q, NUL) = copy + Len(text)
    BY <1>1, <1>3, <1>4, <1>8, FindIs
  <2>7. mem' = c /\ saveptr' = copy + p2
    <3>1. CASE e = Len(text)
      <4>1. UNCHANGED mem /\ saveptr' = lfind(mem, copy + q, NUL)
        BY <1>10, <2>2, <2>3, <3>1 DEF strtok_r
      <4> QED
        BY <2>6, <2>18, <3>1, <4>1 DEF Cut, After
    <3>2. CASE e # Len(text)
      <4>1. mem' = [mem EXCEPT ![copy + e] = NUL] /\ saveptr' = copy + e + 1
        BY <1>10, <2>2, <2>3, <2>4, <3>2 DEF strtok_r
      <4>2. copy + e + 1 = copy + (e + 1)
        BY <1>4, <2>4
      <4> QED
        BY <2>18, <3>2, <4>1, <4>2 DEF Cut, After
    <3> QED
      BY <3>1, <3>2
  <2>8. tokens' = Append(tokens, tok) /\ split' = "next"
    <3>1. /\ tokens' = Append(tokens, [k \in 1 .. strlen(mem', copy + q) |->
                                          mem'[copy + q + k - 1]])
          /\ split' = "next"
      BY <1>10, <2>2 DEF strtok_r
    <3> QED
      BY <2>5, <2>7, <3>1
  <2>9. /\ <<q + 1, e>> \in WordEnds(text)
        /\ p2 \in 0 .. Len(text) /\ e <= p2 /\ Between(text, p2)
        /\ \A w \in WordEnds(text) : w[2] <= p2 => w[2] <= p \/ w = <<q + 1, e>>
    <3>1. IsRun(text, p, q, e)
      BY <1>7, <2>3 DEF IsRun
    <3>2. IsNextWord(text, p, q, e)
      BY <1>3, <1>5, <1>7, <2>3, <3>1, NextWord
    <3> QED
      BY <2>18, <3>2 DEF IsNextWord
  <2>10. PICK l \in Nat : l = Len(tokens)
    BY <1>1
  <2>11. /\ tokens' \in Seq(Seq(Nat)) /\ Len(tokens') = l + 1 /\ tokens'[l + 1] = tok
         /\ \A k \in 1 .. l : tokens'[k] = tokens[k]
    BY <1>1, <2>5, <2>8, <2>10
  <2>19. PICK more : more = [k \in 1 .. l + 1 |-> IF k = l + 1 THEN <<q + 1, e>> ELSE words[k]]
    OBVIOUS
  <2>12. /\ more \in [1 .. l + 1 -> WordEnds(text)]
         /\ more[l + 1] = <<q + 1, e>> /\ \A k \in 1 .. l : more[k] = words[k]
    BY <1>6, <2>9, <2>10, <2>19
  <2>13. more[l + 1][1] = q + 1 /\ more[l + 1][2] = e
    BY <2>12
  <2>14. \A k \in 1 .. l : /\ words[k] \in WordEnds(text) /\ words[k][2] \in 1 .. n
                           /\ words[k][2] <= p
    BY <1>3, <1>6, <2>10, WordEndsIs DEF WordsTo
  <2>15. WordsTo(more, p2)'
    <3>1. \A k \in 1 .. l + 1 : tokens'[k] = SubSeq(text, more[k][1], more[k][2])
      <4> SUFFICES ASSUME NEW k \in 1 .. l + 1
                   PROVE  tokens'[k] = SubSeq(text, more[k][1], more[k][2])
        OBVIOUS
      <4>1. CASE k = l + 1
        BY <2>11, <2>13, <2>18, <4>1
      <4>2. CASE k # l + 1
        <5>1. k \in 1 .. l
          BY <2>10, <4>2
        <5> QED
          BY <1>6, <2>10, <2>11, <2>12, <5>1 DEF WordsTo
      <4> QED
        BY <4>1, <4>2
    <3>2. \A j, k \in 1 .. l + 1 : j < k => more[j][2] < more[k][1]
      <4> SUFFICES ASSUME NEW j \in 1 .. l + 1, NEW k \in 1 .. l + 1, j < k
                   PROVE  more[j][2] < more[k][1]
        OBVIOUS
      <4>1. j \in 1 .. l
        BY <2>10
      <4>2. CASE k = l + 1
        BY <1>3, <1>7, <1>8, <2>12, <2>13, <2>14, <4>1, <4>2
      <4>3. CASE k # l + 1
        <5>1. k \in 1 .. l
          BY <2>10, <4>3
        <5>2. words[j][2] < words[k][1]
          BY <1>6, <2>10, <4>1, <5>1 DEF WordsTo
        <5> QED
          BY <2>12, <4>1, <5>1, <5>2
      <4> QED
        BY <4>2, <4>3
    <3>3. \A k \in 1 .. l + 1 : more[k][2] <= p2
      <4> SUFFICES ASSUME NEW k \in 1 .. l + 1 PROVE more[k][2] <= p2
        OBVIOUS
      <4>1. CASE k = l + 1
        BY <2>9, <2>13, <4>1
      <4>2. CASE k # l + 1
        <5>1. k \in 1 .. l /\ p <= p2 /\ p \in Nat /\ p2 \in Nat
          <6>1. k \in 1 .. l
            BY <2>10, <4>2
          <6>2. p2 \in Nat /\ e <= p2 /\ e \in q + 1 .. n /\ q \in p .. n /\ p \in 0 .. n
            BY <1>3, <1>7, <2>3, <2>9
          <6> QED
            BY <6>1, <6>2
        <5>2. more[k][2] \in Nat /\ more[k][2] <= p
          BY <2>12, <2>14, <5>1
        <5> QED
          BY <5>1, <5>2
      <4> QED
        BY <4>1, <4>2
    <3>4. ASSUME NEW w \in WordEnds(text), w[2] <= p2
          PROVE  \E k \in 1 .. l + 1 : more[k] = w
      <4>1. CASE w[2] <= p
        <5>1. PICK k \in 1 .. l : words[k] = w
          BY <1>6, <2>10, <4>1 DEF WordsTo
        <5> QED
          BY <2>10, <2>12, <5>1
      <4>2. CASE w = <<q + 1, e>>
        BY <2>10, <2>12, <4>2
      <4> QED
        BY <2>9, <3>4, <4>1, <4>2
    <3> QED
      BY <2>11, <3>1, <3>2, <3>3, <3>4 DEF WordsTo
  <2>16. GoesOnAt(p2)'
    BY <2>5, <2>7, <2>8, <2>9, <2>11, <2>12, <2>15 DEF GoesOnAt
  <2>17. TextFrom(c, 0, text, 0)
    <3> SUFFICES ASSUME NEW j \in 0 .. Len(text)
                 PROVE  c[0 + j] = IF j = Len(text) THEN NUL ELSE text[j + 1]
      BY DEF TextFrom
    <3>1. 0 + j \in Addr /\ 0 + j # copy + e
      BY <1>1, <1>3, <1>4, <2>4 DEF Addr
    <3> QED
      BY <1>1, <2>5, <3>1 DEF TextFrom
  <2> QED
    BY <1>1, <2>5, <2>7, <2>8, <2>9, <2>11, <2>16, <2>17 DEF SplitInv
<1> QED
  BY <1>11, <1>12

LEMMA SplitStarts ==
    ASSUME StrInit
    PROVE  SplitInv
<1>1. CASE CopyInit
  BY <1>1 DEF CopyInit, SplitInv
<1>2. CASE SplitInit
  <2>1. /\ text \in Text /\ copy = NULL /\ tokens = <<>> /\ split = "strdup"
        /\ mem = [a \in Addr |-> IF a < Len(text) THEN text[a + 1] ELSE NUL]
    BY <1>2 DEF SplitInit
  <2>2. PICK n \in Nat : n = Len(text) /\ 2 * (n + 1) <= MemSize /\ MemSize \in Nat
    BY <2>1, TextIs
  <2>3. TextFrom(mem, 0, text, 0)
    <3> SUFFICES ASSUME NEW j \in 0 .. Len(text)
                 PROVE  mem[0 + j] = IF j = Len(text) THEN NUL ELSE text[j + 1]
      BY DEF TextFrom
    <3>1. j \in Addr /\ 0 + j = j /\ (j < n <=> j # n)
      BY <2>2 DEF Addr
    <3>2. mem[j] = IF j < n THEN text[j + 1] ELSE NUL
      BY <2>1, <2>2, <3>1
    <3> QED
      BY <2>2, <3>1, <3>2
  <2>4. IsMem(mem)
    BY <2>1 DEF IsMem
  <2> QED
    BY <2>1, <2>3, <2>4 DEF SplitInv
<1> QED
  BY <1>1, <1>2 DEF StrInit

\* strdup makes a second text.
LEMMA CopyHasText ==
    ASSUME NEW t \in Text, NEW m, IsMem(m), TextFrom(m, 0, t, 0),
           NEW d \in Addr, d > Len(t), d + Len(t) < MemSize
    PROVE  /\ IsMem(strcpy(m, d, 0))
           /\ TextFrom(strcpy(m, d, 0), 0, t, 0) /\ TextFrom(strcpy(m, d, 0), d, t, 0)
<1>1. PICK n \in Nat : n = Len(t) /\ MemSize \in Nat /\ 2 * (n + 1) <= MemSize
  BY TextIs
<1>2. d \in Nat /\ 0 \in Addr /\ 0 \in 0 .. Len(t)
  BY <1>1 DEF Addr
<1>3. strlen(m, 0) = n
  <2>1. 0 + Len(t) < MemSize /\ 0 \in Nat
    BY <1>1
  <2>2. strlen(m, 0 + 0) = Len(t) - 0
    BY <1>2, <2>1, TextLength
  <2> QED
    BY <1>1, <2>2
<1> DEFINE c == strcpy(m, d, 0)
<1>4. c = Whole(m, d, 0, n + 1)
  <2>1. c = memcpy(m, d, 0, n + 1)
    BY <1>3 DEF strcpy
  <2>2. n + 1 \in Nat /\ 0 + (n + 1) <= MemSize /\ 0 + (n + 1) <= d
    BY <1>1, <1>2
  <2> HIDE DEF c
  <2> QED
    BY <1>2, <2>1, <2>2, MemcpyCopies
<1> HIDE DEF c
<1>5. c = [a \in Addr |-> IF a \in d .. d + (n + 1) - 1 THEN m[0 + a - d] ELSE m[a]]
  BY <1>4 DEF Whole
<1>6. IsMem(c)
  BY <1>5 DEF IsMem
<1>7. ASSUME NEW j \in 0 .. n
      PROVE  c[0 + j] = m[0 + j] /\ c[d + j] = m[0 + j]
  <2>1. 0 + j \in Addr /\ 0 + j \notin d .. d + (n + 1) - 1
    BY <1>1, <1>2 DEF Addr
  <2>2. /\ d + j \in Addr /\ d + j \in d .. d + (n + 1) - 1 /\ 0 + (d + j) - d = 0 + j
    BY <1>1, <1>2 DEF Addr
  <2> QED
    BY <1>5, <2>1, <2>2
<1>8. TextFrom(c, 0, t, 0) /\ TextFrom(c, d, t, 0)
  BY <1>1, <1>7 DEF TextFrom
<1> QED
  BY <1>6, <1>8 DEF c

LEMMA StrdupKeeps ==
    ASSUME SplitInv, NEW d \in Addr \cup {NULL}, Strdup(d)
    PROVE  SplitInv'
<1>1. /\ split = "strdup" /\ copy' = d /\ text' = text /\ tokens' = tokens
  BY DEF Strdup
<1>2. /\ text \in Text /\ IsMem(mem) /\ TextFrom(mem, 0, text, 0) /\ tokens = <<>>
      /\ tokens \in Seq(Seq(Nat))
  BY <1>1 DEF SplitInv
<1>3. CASE d = NULL
  <2>1. split' = "done" /\ mem' = mem
    BY <1>3 DEF Strdup
  <2> QED
    BY <1>1, <1>2, <1>3, <2>1 DEF SplitInv
<1>4. CASE d # NULL
  <2>1. /\ d > Len(text) /\ d + Len(text) < MemSize
        /\ mem' = strcpy(mem, d, 0) /\ split' = "first"
    BY <1>4 DEF Strdup
  <2>2. d \in Addr
    BY <1>4
  <2>3. /\ IsMem(mem') /\ TextFrom(mem', 0, text, 0) /\ TextFrom(mem', d, text, 0)
    <3>1. /\ IsMem(strcpy(mem, d, 0))
          /\ TextFrom(strcpy(mem, d, 0), 0, text, 0) /\ TextFrom(strcpy(mem, d, 0), d, text, 0)
      BY <1>2, <2>1, <2>2, CopyHasText
    <3> QED
      BY <2>1, <3>1
  <2>4. PICK words : words = [k \in 1 .. 0 |-> 0]
    OBVIOUS
  <2>5. words \in [1 .. Len(tokens) -> WordEnds(text)] /\ Len(tokens) = 0
    BY <1>2, <2>4
  <2>6. WordsTo(words, 0)'
    <3>1. ASSUME NEW w \in WordEnds(text)
          PROVE  ~(w[2] <= 0)
      <4>1. w[2] \in 1 .. Len(text) /\ Len(text) \in Nat
        BY <1>2, WordEndsIs, TextIs
      <4> QED
        BY <4>1
    <3> QED
      BY <1>1, <2>5, <3>1 DEF WordsTo
  <2>7. GoesOnAt(0)'
    BY <1>1, <2>1, <2>3, <2>5, <2>6 DEF GoesOnAt, Between
  <2>8. 0 \in 0 .. Len(text)
    BY <1>2, TextIs
  <2> QED
    BY <1>1, <1>2, <1>4, <2>1, <2>2, <2>3, <2>7, <2>8 DEF SplitInv
<1> QED
  BY <1>3, <1>4

LEMMA SplitKeeps == SplitInv /\ [StrNext]_strVars => SplitInv'
<1> SUFFICES ASSUME SplitInv, [StrNext]_strVars PROVE SplitInv'
  OBVIOUS
<1>1. ASSUME NEW op, NEW d, NEW s, NEW n, Called(op, d, s, n)
      PROVE  SplitInv'
  BY <1>1 DEF Called, SplitInv
<1>2. ASSUME NEW d, NEW s, NEW n, Memcpy(d, s, n) \/ Memmove(d, s, n) \/ Memset(d, s, n)
      PROVE  SplitInv'
  BY <1>1, <1>2 DEF Memcpy, Memmove, Memset
<1>3. ASSUME NEW d \in Addr \cup {NULL}, Strdup(d)
      PROVE  SplitInv'
  BY <1>3, StrdupKeeps
<1>4. ASSUME StrtokFirst
      PROVE  SplitInv'
  <2>1. split = "first" /\ strtok_r(copy) /\ UNCHANGED <<text, copy>>
    BY <1>4 DEF StrtokFirst
  <2> QED
    BY <2>1, StrtokKeeps
<1>5. ASSUME StrtokNext
      PROVE  SplitInv'
  <2>1. split = "next" /\ strtok_r(saveptr) /\ UNCHANGED <<text, copy>>
    BY <1>5 DEF StrtokNext
  <2> QED
    BY <2>1, StrtokKeeps
<1>6. CASE UNCHANGED strVars
  <2>1. /\ mem' = mem /\ text' = text /\ copy' = copy /\ saveptr' = saveptr
        /\ tokens' = tokens /\ split' = split
    BY <1>6 DEF strVars
  <2>2. \A p : GoesOnAt(p)' <=> GoesOnAt(p)
    BY <2>1 DEF GoesOnAt, WordsTo
  <2> QED
    BY <2>1, <2>2 DEF SplitInv
<1> QED
  BY <1>2, <1>3, <1>4, <1>5, <1>6 DEF StrNext

\* Two equal texts compare equal.
LEMMA CompareIs ==
    ASSUME NEW t \in Text, NEW m, NEW c \in Nat, c + Len(t) < MemSize,
           TextFrom(m, 0, t, 0), TextFrom(m, c, t, 0)
    PROVE  strcmp(m, 0, c) = 0
<1>1. PICK n \in Nat : /\ n = Len(t) /\ MemSize \in Nat /\ 2 * (n + 1) <= MemSize
                       /\ \A k \in 1 .. n : t[k] # NUL
  BY TextIs
<1>2. strlen(m, 0) = n /\ strlen(m, c) = n
  <2>1. 0 + Len(t) < MemSize /\ 0 \in Nat /\ 0 \in 0 .. Len(t)
    BY <1>1
  <2>2. strlen(m, 0 + 0) = Len(t) - 0
    BY <2>1, TextLength
  <2>3. strlen(m, c + 0) = Len(t) - 0
    BY <2>1, TextLength
  <2> QED
    BY <1>1, <2>2, <2>3
<1>3. \A j \in 0 .. n : /\ m[0 + j] = IF j = n THEN NUL ELSE t[j + 1]
                        /\ m[c + j] = IF j = n THEN NUL ELSE t[j + 1]
  BY <1>1 DEF TextFrom
<1> DEFINE T == {j \in 0 .. MemSize - 1 :
                   /\ j <= strlen(m, 0) /\ j <= strlen(m, c)
                   /\ m[0 + j] # m[c + j] \/ m[0 + j] = NUL}
<1>4. n \in T /\ T \in SUBSET Int
  BY <1>1, <1>2, <1>3
<1>5. ASSUME NEW j \in T
      PROVE  j = n
  <2>1. j \in 0 .. n
    BY <1>1, <1>2
  <2>2. j # n => m[0 + j] = m[c + j] /\ m[0 + j] # NUL
    <3> SUFFICES ASSUME j # n PROVE m[0 + j] = m[c + j] /\ m[0 + j] # NUL
      OBVIOUS
    <3>1. j + 1 \in 1 .. n
      BY <1>1, <2>1
    <3> QED
      BY <1>1, <1>3, <2>1, <3>1
  <2> QED
    BY <2>2
<1> HIDE DEF T
<1>6. Least(T) = n
  BY <1>1, <1>4, <1>5, LeastIs
<1>7. m[0 + n] = NUL /\ m[c + n] = NUL
  BY <1>1, <1>3
<1>8. strcmp(m, 0, c) = m[0 + Least(T)] - m[c + Least(T)]
  BY DEF strcmp, T
<1> QED
  BY <1>6, <1>7, <1>8 DEF NUL

(***************************************************************************)
(* For every memory, set of delimiters and text: strtok_r returns the      *)
(* words of the text, in order, each once, and all of them before it       *)
(* answers NULL; the text that strdup copied stays as it was.              *)
(***************************************************************************)
THEOREM StrtokSplits == StrSpec => []TokensAreWords
<1>1. StrInit => SplitInv
  BY SplitStarts
<1>2. SplitInv /\ [StrNext]_strVars => SplitInv'
  BY SplitKeeps
<1>3. SplitInv => TokensAreWords
  <2> SUFFICES ASSUME SplitInv PROVE TokensAreWords
    OBVIOUS
  <2>1. \A k \in 1 .. Len(text) : mem[k - 1] = text[k]
    <3>1. CASE split = "copy"
      BY <3>1 DEF SplitInv
    <3>2. CASE split # "copy"
      <4>1. text \in Text /\ TextFrom(mem, 0, text, 0)
        BY <3>2 DEF SplitInv
      <4>2. PICK n \in Nat : n = Len(text)
        BY <4>1, TextIs
      <4> SUFFICES ASSUME NEW k \in 1 .. n PROVE mem[k - 1] = text[k]
        BY <4>2
      <4>3. k - 1 \in 0 .. n /\ k - 1 # n /\ 0 + (k - 1) = k - 1 /\ k - 1 + 1 = k
        BY <4>2
      <4> QED
        BY <4>1, <4>2, <4>3 DEF TextFrom
    <3> QED
      BY <3>1, <3>2
  <2>2. split = "first" => strcmp(mem, 0, copy) = 0
    <3> SUFFICES ASSUME split = "first" PROVE strcmp(mem, 0, copy) = 0
      OBVIOUS
    <3>1. /\ text \in Text /\ TextFrom(mem, 0, text, 0) /\ copy \in Addr
          /\ copy + Len(text) < MemSize /\ \E p \in 0 .. Len(text) : GoesOnAt(p)
      BY DEF SplitInv
    <3>2. TextFrom(mem, copy, text, 0)
      BY <3>1 DEF GoesOnAt
    <3>3. copy \in Nat
      BY <3>1, TextIs DEF Addr
    <3> QED
      BY <3>1, <3>2, <3>3, CompareIs
  <2>3. ASSUME copy # NULL
        PROVE  \E words \in [1 .. Len(tokens) -> WordEnds(text)] : FirstWords(words)
    <3>1. text \in Text /\ \E p \in 0 .. Len(text) : GoesOnAt(p)
      BY <2>3 DEF SplitInv
    <3>2. PICK p \in 0 .. Len(text) : GoesOnAt(p)
      BY <3>1
    <3>3. PICK words \in [1 .. Len(tokens) -> WordEnds(text)] : WordsTo(words, p)
      BY <3>2 DEF GoesOnAt
    <3>4. PICK n \in Nat : n = Len(text)
      BY <3>1, TextIs
    <3>5. DOMAIN words = 1 .. Len(tokens)
      BY <3>3
    <3>6. ASSUME NEW w \in WordEnds(text)
          PROVE  \/ \E k \in DOMAIN words : words[k] = w
                 \/ split # "done" /\ \A k \in DOMAIN words : words[k][2] < w[1]
      <4>1. CASE w[2] <= p
        BY <3>3, <3>5, <4>1 DEF WordsTo
      <4>2. CASE ~(w[2] <= p)
        <5>1. p < w[1]
          BY <3>2, <3>4, <4>2, NotAcross DEF GoesOnAt
        <5>2. w[1] \in 1 .. n /\ w[2] \in 1 .. n
          BY <3>4, WordEndsIs
        <5>3. split # "done"
          BY <3>2, <3>4, <4>2, <5>2 DEF GoesOnAt
        <5>4. ASSUME NEW k \in 1 .. Len(tokens)
              PROVE  words[k][2] < w[1]
          <6>1. words[k] \in WordEnds(text)
            BY <3>3, <5>4
          <6>2. words[k][2] \in 1 .. n /\ words[k][2] <= p
            BY <3>3, <3>4, <5>4, <6>1, WordEndsIs DEF WordsTo
          <6> QED
            BY <5>1, <5>2, <6>2
        <5> QED
          BY <3>5, <5>3, <5>4
      <4> QED
        BY <4>1, <4>2
    <3> QED
      BY <3>3, <3>5, <3>6 DEF FirstWords, WordsTo
  <2> QED
    BY <2>1, <2>2, <2>3 DEF TokensAreWords
<1> QED
  BY <1>1, <1>2, <1>3, PTL DEF StrSpec

-----------------------------------------------------------------------------
(* The fields of do_printf.                                                *)

Radices == {8, 10, 16}

LEMMA DivIs ==
    ASSUME NEW radix \in Radices, NEW v \in Nat
    PROVE  /\ v \div radix \in Nat /\ v % radix \in 0 .. radix - 1
           /\ v = radix * (v \div radix) + (v % radix)
           /\ v # 0 => v \div radix < v
           /\ v \div radix = 0 => v % radix = v
<1>1. CASE radix = 8
  BY <1>1
<1>2. CASE radix = 10
  BY <1>2
<1>3. CASE radix = 16
  BY <1>3
<1> QED
  BY <1>1, <1>2, <1>3 DEF Radices

\* q holds what is left of num after each of b rounds of the loop.
Divides(q, b, num, radix) ==
    /\ q \in [0 .. b -> Nat] /\ q[0] = num
    /\ \A k \in 1 .. b : q[k] = q[k - 1] \div radix

\* Such a function exists for every number of rounds.
LEMMA DividesExists ==
    ASSUME NEW num \in Nat, NEW radix \in Radices, NEW b \in Nat
    PROVE  \E q : Divides(q, b, num, radix)
<1> DEFINE Bad == {n \in Nat : ~ \E q : Divides(q, n, num, radix)}
<1>1. CASE Bad # {}
  <2>1. PICK n \in Bad : \A j \in Bad : n <= j
    BY <1>1, NatMin
  <2>2. n # 0
    <3> DEFINE z == [k \in 0 .. 0 |-> num]
    <3>1. Divides(z, 0, num, radix)
      BY DEF Divides
    <3> HIDE DEF z
    <3> QED
      BY <2>1, <3>1
  <2>3. n \in Nat /\ n - 1 \in Nat /\ n - 1 \notin Bad
    BY <2>1, <2>2
  <2>4. PICK q : Divides(q, n - 1, num, radix)
    BY <2>3
  <2>5. q \in [0 .. n - 1 -> Nat] /\ q[0] = num /\ q[n - 1] \in Nat
    BY <2>3, <2>4 DEF Divides
  <2>6. \A k \in 1 .. n - 1 : q[k] = q[k - 1] \div radix
    BY <2>4 DEF Divides
  <2>7. q[n - 1] \div radix \in Nat
    BY <2>5, DivIs
  <2> DEFINE r == [k \in 0 .. n |-> IF k = n THEN q[n - 1] \div radix ELSE q[k]]
  <2>8. r \in [0 .. n -> Nat]
    BY <2>3, <2>5, <2>7
  <2>9. r[0] = num
    BY <2>2, <2>3, <2>5
  <2>10. ASSUME NEW k \in 1 .. n PROVE r[k] = r[k - 1] \div radix
    <3>1. k - 1 \in 0 .. n /\ k - 1 # n /\ k \in 0 .. n
      BY <2>3
    <3>2. r[k - 1] = q[k - 1]
      BY <3>1
    <3>3. CASE k = n
      BY <3>1, <3>2, <3>3
    <3>4. CASE k # n
      <4>1. k \in 1 .. n - 1 /\ r[k] = q[k]
        BY <2>3, <3>1, <3>4
      <4> QED
        BY <2>6, <3>2, <4>1
    <3> QED
      BY <3>3, <3>4
  <2> HIDE DEF r
  <2>11. Divides(r, n, num, radix)
    BY <2>8, <2>9, <2>10 DEF Divides
  <2> QED
    BY <2>1, <2>11
<1> QED
  BY <1>1

LEMMA QuotientsAre ==
    ASSUME NEW num \in Nat, NEW radix \in Radices
    PROVE  Divides(Quotients(num, radix), Word, num, radix)
<1> DEFINE Eq(f) == f = [k \in 0 .. Word |->
                            IF k = 0 THEN num ELSE f[k - 1] \div radix]
           left == CHOOSE f : Eq(f)
<1>1. Word \in Nat
  BY PrintfAssumption
<1>2. PICK q : Divides(q, Word, num, radix)
  BY <1>1, DividesExists
<1>3. /\ q \in [0 .. Word -> Nat] /\ q[0] = num
      /\ \A k \in 1 .. Word : q[k] = q[k - 1] \div radix
  BY <1>2 DEF Divides
<1>4. ASSUME NEW k \in 0 .. Word
      PROVE  q[k] = IF k = 0 THEN num ELSE q[k - 1] \div radix
  <2>1. k # 0 => k \in 1 .. Word
    BY <1>1
  <2> QED
    BY <1>3, <2>1
<1>5. Eq(q)
  BY <1>3, <1>4
<1>6. Eq(left)
  <2> HIDE DEF Eq
  <2> QED
    BY <1>5
<1>7. Quotients(num, radix) = left
  BY DEF Quotients
<1> HIDE DEF left
<1>8. ASSUME NEW k \in 0 .. Word PROVE left[k] = q[k]
  <2> DEFINE Bad == {j \in 0 .. Word : left[j] # q[j]}
  <2>1. CASE Bad # {}
    <3>1. Bad \in SUBSET Nat
      OBVIOUS
    <3>2. PICK j \in Bad : \A i \in Bad : j <= i
      BY <2>1, <3>1, NatMin
    <3>3. j \in 0 .. Word /\ left[j] # q[j]
      BY <3>2
    <3>4. j # 0
      BY <1>1, <1>3, <1>6, <3>3
    <3>5. j - 1 \in 0 .. Word /\ j - 1 \notin Bad
      BY <1>1, <3>2, <3>3, <3>4
    <3>6. left[j - 1] = q[j - 1]
      BY <3>5
    <3>7. left[j] = left[j - 1] \div radix /\ q[j] = q[j - 1] \div radix
      BY <1>4, <1>6, <3>3, <3>4
    <3> QED
      BY <3>3, <3>6, <3>7
  <2> QED
    BY <2>1
<1>9. left = q
  <2>1. left = [k \in 0 .. Word |-> IF k = 0 THEN num ELSE left[k - 1] \div radix]
    BY <1>6
  <2>2. q = [k \in 0 .. Word |-> q[k]]
    BY <1>3
  <2>3. \A k \in 0 .. Word : left[k] = q[k]
    BY <1>8
  <2>4. left = [k \in 0 .. Word |-> left[k]]
    BY <2>1
  <2> QED
    BY <2>2, <2>3, <2>4
<1> QED
  BY <1>2, <1>7, <1>9

\* The loop ends: what is left falls with every round.
LEMMA NothingLeft ==
    ASSUME NEW num \in Nat, NEW radix \in Radices, NEW q, NEW b \in Nat,
           Divides(q, b, num, radix), NEW k \in 0 .. b, k >= num
    PROVE  q[k] = 0
<1> DEFINE Bad == {j \in 0 .. b : ~(q[j] = 0 \/ q[j] <= num - j)}
<1>0. k \in Nat /\ num \in Nat
  OBVIOUS
<1>1. CASE Bad # {}
  <2>1. Bad \in SUBSET Nat
    OBVIOUS
  <2>2. PICK j \in Bad : \A i \in Bad : j <= i
    BY <1>1, <2>1, NatMin
  <2>3. j \in 0 .. b /\ j \in Nat /\ ~(q[j] = 0 \/ q[j] <= num - j)
    BY <2>2
  <2>4. j # 0
    BY <2>3 DEF Divides
  <2>5. j - 1 \in 0 .. b /\ j - 1 \notin Bad /\ j \in 1 .. b
    BY <2>2, <2>3, <2>4
  <2>6. q[j - 1] \in Nat /\ q[j] \in Nat /\ q[j] = q[j - 1] \div radix
    BY <2>3, <2>5 DEF Divides
  <2>7. q[j - 1] = 0 \/ q[j - 1] <= num - (j - 1)
    BY <2>5
  <2>8. PICK v \in Nat, w \in Nat : q[j - 1] = v /\ q[j] = w /\ w = v \div radix
    BY <2>6
  <2>9. v # 0 => w < v
    BY <2>8, DivIs
  <2>10. v = 0 => w = 0
    BY <2>8 DEF Radices
  <2> QED
    BY <2>3, <2>7, <2>8, <2>9, <2>10
<1>2. CASE Bad = {}
  <2>1. q[k] \in Nat /\ (q[k] = 0 \/ q[k] <= num - k)
    BY <1>2 DEF Divides
  <2> QED
    BY <1>0, <2>1
<1> QED
  BY <1>1, <1>2

\* The loop takes n rounds.
Rounded(q, n) == n \in 1 .. Word /\ q[n] = 0 /\ (n = 1 \/ q[n - 1] # 0)

LEMMA DigitsAre ==
    ASSUME NEW num \in 0 .. Word - 1, NEW radix \in Radices, NEW chars
    PROVE  \E q, n : /\ Divides(q, Word, num, radix) /\ Rounded(q, n)
                     /\ Digits(num, radix, chars) =
                          [j \in 1 .. n |-> chars[(q[n - j] % radix) + 1]]
<1> DEFINE q == Quotients(num, radix)
           n == CHOOSE k \in 1 .. Word : q[k] = 0 /\ (k = 1 \/ q[k - 1] # 0)
<1>1. Word \in Nat /\ num \in Nat /\ Word # 0 /\ num < Word
  BY PrintfAssumption
<1>2. Divides(q, Word, num, radix)
  BY <1>1, QuotientsAre
<1>3. Digits(num, radix, chars) =
        [j \in 1 .. n |-> chars[(q[n - j] % radix) + 1]]
  BY DEF Digits
<1>4. \E k \in 1 .. Word : q[k] = 0 /\ (k = 1 \/ q[k - 1] # 0)
  <2> HIDE DEF q
  <2> DEFINE T == {k \in 1 .. Word : q[k] = 0}
  <2>1. q[Word] = 0
    BY <1>1, <1>2, NothingLeft
  <2>2. Word \in T /\ T \in SUBSET Nat
    BY <1>1, <2>1
  <2>3. PICK k \in T : \A j \in T : k <= j
    BY <2>2, NatMin
  <2>4. k = 1 \/ k - 1 \in 1 .. Word
    BY <1>1, <2>3
  <2>5. k - 1 \notin T
    BY <2>3
  <2> QED
    BY <2>3, <2>4, <2>5
<1> HIDE DEF q
<1>5. n \in 1 .. Word /\ q[n] = 0 /\ (n = 1 \/ q[n - 1] # 0)
  BY <1>4, Zenon
<1> HIDE DEF n
<1>6. Rounded(q, n)
  BY <1>5 DEF Rounded
<1> QED
  BY <1>2, <1>3, <1>6

\* The tables of digits, entry by entry.
LEMMA TablesAre ==
    /\ DigitChars[1] = "0" /\ DigitChars[2] = "1" /\ DigitChars[3] = "2"
    /\ DigitChars[4] = "3" /\ DigitChars[5] = "4" /\ DigitChars[6] = "5"
    /\ DigitChars[7] = "6" /\ DigitChars[8] = "7" /\ DigitChars[9] = "8"
    /\ DigitChars[10] = "9" /\ DigitChars[11] = "a" /\ DigitChars[12] = "b"
    /\ DigitChars[13] = "c" /\ DigitChars[14] = "d" /\ DigitChars[15] = "e"
    /\ DigitChars[16] = "f"
    /\ UpperChars[1] = "0" /\ UpperChars[2] = "1" /\ UpperChars[3] = "2"
    /\ UpperChars[4] = "3" /\ UpperChars[5] = "4" /\ UpperChars[6] = "5"
    /\ UpperChars[7] = "6" /\ UpperChars[8] = "7" /\ UpperChars[9] = "8"
    /\ UpperChars[10] = "9" /\ UpperChars[11] = "A" /\ UpperChars[12] = "B"
    /\ UpperChars[13] = "C" /\ UpperChars[14] = "D" /\ UpperChars[15] = "E"
    /\ UpperChars[16] = "F"
BY DEF DigitChars, UpperChars

LEMMA SpaceIs ==
    Space \notin {"0", "1", "2", "3", "4", "5", "6", "7",
                  "8", "9", "a", "b", "c", "d", "e", "f",
                  "A", "B", "C", "D", "E", "F", "-"}
BY Zenon DEF Space

\* Which character stands for which digit, and for no other.
IsDigit(c, i) == i \in 1 .. 16 /\ (DigitChars[i] = c \/ UpperChars[i] = c)

LEMMA OneDigit ==
    ASSUME NEW chars \in {DigitChars, UpperChars}, NEW i \in 1 .. 16
    PROVE  /\ chars[i] # Space /\ chars[i] # "-"
           /\ chars[i] = "0" => i = 1
           /\ \A j \in 1 .. 16 : IsDigit(chars[i], j) <=> j = i
<1> DEFINE Ok(c, k) == /\ c # Space /\ c # "-"
                       /\ c = "0" => k = 1
                       /\ \A j \in 1 .. 16 : IsDigit(c, j) <=> j = k
<1>1. ASSUME NEW c, NEW k \in 1 .. 16, c = DigitChars[k] \/ c = UpperChars[k]
      PROVE  c # Space /\ c # "-" /\ (c = "0" => k = 1)
  <2>1. \A j \in 1 .. 16 : DigitChars[j] # Space /\ UpperChars[j] # Space
    BY TablesAre, SpaceIs
  <2>2. \A j \in 1 .. 16 : DigitChars[j] # "-" /\ UpperChars[j] # "-"
    BY TablesAre
  <2>3. \A j \in 1 .. 16 : DigitChars[j] = "0" \/ UpperChars[j] = "0" => j = 1
    BY TablesAre
  <2> QED
    BY <1>1, <2>1, <2>2, <2>3
<1>2. ASSUME NEW c, NEW k \in 1 .. 16, NEW j \in 1 .. 16, j # k,
             c = DigitChars[k] \/ c = UpperChars[k]
      PROVE  c # DigitChars[j] /\ c # UpperChars[j]
  BY <1>2, TablesAre
<1>3. ASSUME NEW c, NEW k \in 1 .. 16, c = DigitChars[k] \/ c = UpperChars[k]
      PROVE  Ok(c, k)
  BY <1>1, <1>2, <1>3 DEF IsDigit
<1>4. chars[i] = DigitChars[i] \/ chars[i] = UpperChars[i]
  OBVIOUS
<1> HIDE DEF Ok
<1>5. Ok(chars[i], i)
  BY <1>3, <1>4
<1> QED
  BY <1>5 DEF Ok

LEMMA DigitValueIs ==
    ASSUME NEW chars \in {DigitChars, UpperChars}, NEW i \in 1 .. 16
    PROVE  DigitValue(chars[i]) = i - 1
<1> DEFINE c == chars[i]
           v == CHOOSE j \in 1 .. 16 : DigitChars[j] = c \/ UpperChars[j] = c
<1>1. DigitValue(c) = v - 1
  BY DEF DigitValue
<1>2. \A j \in 1 .. 16 : (DigitChars[j] = c \/ UpperChars[j] = c) <=> j = i
  <2>1. \A j \in 1 .. 16 : IsDigit(c, j) <=> j = i
    BY OneDigit
  <2> HIDE DEF c
  <2> QED
    BY <2>1 DEF IsDigit
<1> HIDE DEF c
<1>3. v \in 1 .. 16 /\ (DigitChars[v] = c \/ UpperChars[v] = c)
  BY <1>2, Zenon
<1> HIDE DEF v
<1>4. v = i
  BY <1>2, <1>3
<1> QED
  BY <1>1, <1>4 DEF c

LEMMA ZeroDigit == DigitValue("0") = 0
<1>1. DigitChars[1] = "0"
  BY TablesAre
<1>2. DigitValue(DigitChars[1]) = 1 - 1
  BY DigitValueIs
<1> QED
  BY <1>1, <1>2

\* Reading the digits from the left takes the loop back, round by round.
LEMMA ValueIs ==
    ASSUME NEW num \in 0 .. Word - 1, NEW radix \in Radices,
           NEW chars \in {DigitChars, UpperChars},
           NEW q, NEW n, Divides(q, Word, num, radix), Rounded(q, n),
           NEW z \in Nat, NEW s, Len(s) = z + n,
           \A i \in 1 .. z : s[i] = "0",
           \A i \in 1 .. n : s[z + i] = chars[(q[n - i] % radix) + 1]
    PROVE  ValueOf(s, radix) = num
<1> DEFINE b == z + n
           Step(v, k) == radix * v + DigitValue(s[k])
           Eq(f) == f = [k \in 0 .. b |-> IF k = 0 THEN 0 ELSE Step(f[k - 1], k)]
           W(k) == IF k <= z THEN 0 ELSE q[n - (k - z)]
           w == [k \in 0 .. b |-> W(k)]
           value == CHOOSE f : Eq(f)
<1>1. /\ n \in 1 .. Word /\ n \in Nat /\ n # 0 /\ Word \in Nat /\ b \in Nat
      /\ q[n] = 0 /\ num \in Nat
  BY PrintfAssumption DEF Rounded
<1>2. /\ \A k \in 0 .. Word : q[k] \in Nat
      /\ q[0] = num /\ \A k \in 1 .. Word : q[k] = q[k - 1] \div radix
  BY DEF Divides
<1>3. radix \in Nat
  BY DEF Radices
<1>4. ASSUME NEW i \in 1 .. n
      PROVE  /\ q[n - i] \in Nat /\ q[n - i + 1] \in Nat
             /\ q[n - i] = radix * q[n - i + 1] + DigitValue(s[z + i])
  <2>1. n - i \in 0 .. Word /\ n - i + 1 \in 1 .. Word /\ (n - i + 1) - 1 = n - i
    BY <1>1
  <2>2. q[n - i] \in Nat /\ q[n - i + 1] \in Nat /\ q[n - i + 1] = q[n - i] \div radix
    BY <1>2, <2>1
  <2>3. PICK v \in Nat : v = q[n - i]
    BY <2>2
  <2>4. v % radix \in 0 .. radix - 1 /\ v = radix * (v \div radix) + (v % radix)
    BY DivIs
  <2>5. PICK d \in 1 .. 16 : d = (v % radix) + 1
    BY <2>4 DEF Radices
  <2>6. DigitValue(chars[d]) = d - 1
    BY DigitValueIs
  <2>7. s[z + i] = chars[d]
    BY <2>3, <2>5
  <2>8. DigitValue(s[z + i]) = v % radix
    BY <2>4, <2>5, <2>6, <2>7
  <2>9. q[n - i + 1] = v \div radix
    BY <2>2, <2>3
  <2> QED
    BY <2>2, <2>3, <2>4, <2>8, <2>9
<1>5. ASSUME NEW k \in 0 .. b
      PROVE  w[k] = IF k = 0 THEN 0 ELSE Step(w[k - 1], k)
  <2>1. CASE k = 0
    BY <1>1, <2>1
  <2>2. CASE k # 0 /\ k <= z
    <3>1. k \in 1 .. z /\ k - 1 \in 0 .. b /\ k - 1 <= z
      BY <1>1, <2>2
    <3>2. w[k] = 0 /\ w[k - 1] = 0
      BY <2>2, <3>1
    <3>3. DigitValue(s[k]) = 0
      BY <3>1, ZeroDigit
    <3>4. radix * 0 + 0 = 0
      BY <1>3
    <3> HIDE DEF w
    <3> QED
      BY <2>2, <3>2, <3>3, <3>4
  <2>3. CASE k > z
    <3>1. PICK i \in 1 .. n : i = k - z
      BY <1>1, <2>3
    <3>2. k = z + i /\ k \in Nat /\ k # 0 /\ k - 1 \in 0 .. b /\ n - (k - z) = n - i
      BY <1>1, <3>1
    <3>3. w[k] = q[n - i]
      BY <2>3, <3>2
    <3>4. w[k - 1] = q[n - i + 1]
      <4>1. CASE k - 1 <= z
        <5>1. n - i + 1 = n
          BY <1>1, <2>3, <3>2, <4>1
        <5> QED
          BY <1>1, <3>2, <4>1, <5>1
      <4>2. CASE ~(k - 1 <= z)
        <5>1. n - ((k - 1) - z) = n - i + 1
          BY <1>1, <3>2
        <5> QED
          BY <3>2, <4>2, <5>1
      <4> QED
        BY <4>1, <4>2
    <3>5. q[n - i] = radix * q[n - i + 1] + DigitValue(s[z + i])
      BY <1>4
    <3> HIDE DEF w
    <3> QED
      BY <3>2, <3>3, <3>4, <3>5
  <2>4. k \in Nat
    BY <1>1
  <2> QED
    BY <2>1, <2>2, <2>3, <2>4
<1>6. Eq(w)
  <2> HIDE DEF Step, W
  <2>1. w = [k \in 0 .. b |-> w[k]]
    OBVIOUS
  <2> HIDE DEF w
  <2> QED
    BY <1>5, <2>1
<1>7. Eq(value)
  <2> HIDE DEF Eq
  <2> QED
    BY <1>6
<1>8. Alike(value, w, b)
  <2> HIDE DEF value, w, Step
  <2>1. value[0] = w[0]
    BY <1>1, <1>6, <1>7
  <2>2. ASSUME NEW k \in 0 .. b, k # 0, value[k - 1] = w[k - 1]
        PROVE  value[k] = w[k]
    <3>1. value[k] = Step(value[k - 1], k) /\ w[k] = Step(w[k - 1], k)
      BY <1>6, <1>7, <2>2
    <3> QED
      BY <2>2, <3>1
  <2> QED
    BY <2>1, <2>2 DEF Alike
<1>9. ValueOf(s, radix) = value[b]
  BY DEF ValueOf
<1>10. w[b] = num
  <2>1. b \in 0 .. b /\ ~(b <= z) /\ n - (b - z) = 0
    BY <1>1
  <2> QED
    BY <1>2, <2>1
<1> HIDE DEF value, w, b
<1>11. value[b] = w[b]
  BY <1>1, <1>8, SameFrom0
<1> QED
  BY <1>9, <1>10, <1>11

Glyphs == Chars \cup {"%", "-", "0", "A", Space}
          \cup {DigitChars[i] : i \in 1 .. 16} \cup {UpperChars[i] : i \in 1 .. 16}

\* A field: l blanks, a sign if sg is 1, z zeros, the body, t blanks.
Layout(line, l, sg, z, body, t) ==
    /\ l \in Nat /\ sg \in {0, 1} /\ z \in Nat /\ t \in Nat
    /\ line \in Seq(Glyphs) /\ body \in Seq(Glyphs)
    /\ Len(line) = l + sg + z + Len(body) + t
    /\ \A i \in 1 .. l : line[i] = Space
    /\ sg = 1 => line[l + 1] = "-"
    /\ \A i \in 1 .. z : line[l + sg + i] = "0"
    /\ \A i \in 1 .. Len(body) : line[l + sg + z + i] = body[i]
    /\ \A i \in 1 .. t : line[l + sg + z + Len(body) + i] = Space

\* The padding fills the width, and stands on one side only.
Padding(wd, actual_wd, l, z, t) ==
    /\ l + z + t = IF wd > actual_wd THEN wd - actual_wd ELSE 0
    /\ l = 0 \/ t = 0

LEMMA JoinedAre ==
    ASSUME NEW S, NEW p \in Seq(S), NEW q \in Seq(S),
           NEW m, m = Len(p), NEW n, n = Len(q), NEW r, r = p \o q
    PROVE  /\ r \in Seq(S) /\ Len(r) = m + n
           /\ \A j \in 1 .. m : r[j] = p[j]
           /\ \A j \in 1 .. n : r[m + j] = q[j]
OBVIOUS

LEMMA RepeatIs ==
    ASSUME NEW c \in Glyphs, NEW n \in Nat
    PROVE  /\ Repeat(c, n) \in Seq(Glyphs) /\ Len(Repeat(c, n)) = n
           /\ \A i \in 1 .. n : Repeat(c, n)[i] = c
BY DEF Repeat

LEMMA FieldIs ==
    ASSUME NEW fl, NEW wd \in Nat, NEW body \in Seq(Glyphs), NEW actual_wd \in Nat,
           NEW sg, sg = IF "WS" \in fl THEN 1 ELSE 0
    PROVE  \E l, z, t : /\ Layout(Field(fl, wd, body, actual_wd), l, sg, z, body, t)
                        /\ Padding(wd, actual_wd, l, z, t)
                        /\ "LZ" \notin fl => z = 0
<1> DEFINE pad   == IF wd > actual_wd THEN wd - actual_wd ELSE 0
           l     == IF "LJ" \in fl \/ "LZ" \in fl THEN 0 ELSE pad
           z     == IF "LJ" \notin fl /\ "LZ" \in fl THEN pad ELSE 0
           t     == IF "LJ" \in fl THEN pad ELSE 0
           sign  == IF "WS" \in fl THEN <<"-">> ELSE <<>>
           left  == IF "LJ" \in fl THEN <<>>
                    ELSE Repeat(IF "LZ" \in fl THEN "0" ELSE Space, pad)
           lead  == IF "LZ" \in fl THEN sign \o left ELSE left \o sign
           right == IF "LJ" \in fl THEN Repeat(Space, pad) ELSE <<>>
           line  == (lead \o body) \o right
<1>1. pad \in Nat /\ l \in Nat /\ z \in Nat /\ t \in Nat /\ sg \in {0, 1} /\ sg \in Nat
  OBVIOUS
<1>2. Padding(wd, actual_wd, l, z, t) /\ ("LZ" \notin fl => z = 0)
  BY DEF Padding
<1>3. Field(fl, wd, body, actual_wd) = line
  BY DEF Field
<1>4. "-" \in Glyphs /\ "0" \in Glyphs /\ Space \in Glyphs
  BY DEF Glyphs
<1>5. sign \in Seq(Glyphs) /\ Len(sign) = sg /\ (sg = 1 => sign[1] = "-")
  <2>1. <<"-">> \in Seq(Glyphs) /\ Len(<<"-">>) = 1 /\ <<"-">>[1] = "-"
    BY <1>4
  <2>2. <<>> \in Seq(Glyphs) /\ Len(<<>>) = 0
    OBVIOUS
  <2> QED
    BY <2>1, <2>2
<1>6. /\ left \in Seq(Glyphs) /\ Len(left) = l + z
      /\ \A i \in 1 .. l : left[i] = Space
      /\ \A i \in 1 .. z : left[i] = "0"
  <2>1. CASE "LJ" \in fl
    <3>1. left = <<>> /\ l = 0 /\ z = 0
      BY <2>1
    <3>2. <<>> \in Seq(Glyphs) /\ Len(<<>>) = 0 /\ 1 .. 0 = {}
      OBVIOUS
    <3> HIDE DEF left, l, z
    <3> QED
      BY <3>1, <3>2
  <2>2. CASE "LJ" \notin fl /\ "LZ" \in fl
    <3>1. left = Repeat("0", pad) /\ l = 0 /\ z = pad
      BY <2>2
    <3>2. /\ Repeat("0", pad) \in Seq(Glyphs) /\ Len(Repeat("0", pad)) = pad
          /\ \A i \in 1 .. pad : Repeat("0", pad)[i] = "0"
      BY <1>1, <1>4, RepeatIs
    <3> HIDE DEF left, l, z, pad
    <3> QED
      BY <1>1, <3>1, <3>2
  <2>3. CASE "LJ" \notin fl /\ "LZ" \notin fl
    <3>1. left = Repeat(Space, pad) /\ l = pad /\ z = 0
      BY <2>3
    <3>2. /\ Repeat(Space, pad) \in Seq(Glyphs) /\ Len(Repeat(Space, pad)) = pad
          /\ \A i \in 1 .. pad : Repeat(Space, pad)[i] = Space
      BY <1>1, <1>4, RepeatIs
    <3> HIDE DEF left, l, z, pad
    <3> QED
      BY <1>1, <3>1, <3>2
  <2> QED
    BY <2>1, <2>2, <2>3
<1>7. /\ right \in Seq(Glyphs) /\ Len(right) = t
      /\ \A i \in 1 .. t : right[i] = Space
  <2>1. CASE "LJ" \notin fl
    <3>1. right = <<>> /\ t = 0
      BY <2>1
    <3>2. <<>> \in Seq(Glyphs) /\ Len(<<>>) = 0 /\ 1 .. 0 = {}
      OBVIOUS
    <3> HIDE DEF right, t
    <3> QED
      BY <3>1, <3>2
  <2>2. CASE "LJ" \in fl
    <3>1. right = Repeat(Space, pad) /\ t = pad
      BY <2>2
    <3>2. /\ Repeat(Space, pad) \in Seq(Glyphs) /\ Len(Repeat(Space, pad)) = pad
          /\ \A i \in 1 .. pad : Repeat(Space, pad)[i] = Space
      BY <1>1, <1>4, RepeatIs
    <3> HIDE DEF right, t, pad
    <3> QED
      BY <1>1, <3>1, <3>2
  <2> QED
    BY <2>1, <2>2
<1>8. "LZ" \in fl => l = 0 /\ lead = sign \o left
  OBVIOUS
<1>9. "LZ" \notin fl => z = 0 /\ lead = left \o sign
  OBVIOUS
<1> HIDE DEF pad, l, z, t, sign, left, lead, right
<1>10. /\ lead \in Seq(Glyphs) /\ Len(lead) = l + sg + z
       /\ \A i \in 1 .. l : lead[i] = Space
       /\ sg = 1 => lead[l + 1] = "-"
       /\ \A i \in 1 .. z : lead[l + sg + i] = "0"
  <2>1. CASE "LZ" \in fl
    <3>1. l = 0 /\ lead = sign \o left /\ z = Len(left) /\ sg = Len(sign)
      BY <1>1, <1>5, <1>6, <1>8, <2>1
    <3>2. /\ lead \in Seq(Glyphs) /\ Len(lead) = sg + z
          /\ \A j \in 1 .. sg : lead[j] = sign[j]
          /\ \A j \in 1 .. z : lead[sg + j] = left[j]
      <4>1. sign \in Seq(Glyphs) /\ left \in Seq(Glyphs)
        BY <1>5, <1>6
      <4> QED
        BY <3>1, <4>1, JoinedAre
    <3> QED
      BY <1>1, <1>5, <1>6, <3>1, <3>2
  <2>2. CASE "LZ" \notin fl
    <3>1. z = 0 /\ lead = left \o sign /\ l = Len(left) /\ sg = Len(sign)
      BY <1>1, <1>5, <1>6, <1>9, <2>2
    <3>2. /\ lead \in Seq(Glyphs) /\ Len(lead) = l + sg
          /\ \A j \in 1 .. l : lead[j] = left[j]
          /\ \A j \in 1 .. sg : lead[l + j] = sign[j]
      <4>1. sign \in Seq(Glyphs) /\ left \in Seq(Glyphs)
        BY <1>5, <1>6
      <4> QED
        BY <3>1, <4>1, JoinedAre
    <3> QED
      BY <1>1, <1>5, <1>6, <3>1, <3>2
  <2> QED
    BY <2>1, <2>2
<1> DEFINE h == lead \o body
           n == Len(body)
           a == l + sg + z
<1>11. n \in Nat /\ a \in Nat
  BY <1>1
<1>12. /\ h \in Seq(Glyphs) /\ Len(h) = a + n
       /\ \A j \in 1 .. a : h[j] = lead[j]
       /\ \A j \in 1 .. n : h[a + j] = body[j]
  <2>1. a = Len(lead) /\ lead \in Seq(Glyphs) /\ body \in Seq(Glyphs) /\ h = lead \o body
    BY <1>10
  <2> HIDE DEF a, h
  <2>2. n = Len(body)
    OBVIOUS
  <2> HIDE DEF n
  <2> QED
    BY <2>1, <2>2, JoinedAre
<1>13. line = h \o right
  OBVIOUS
<1>a. a = Len(lead) /\ a + n = Len(h) /\ t = Len(right) /\ a = l + sg + z
  BY <1>7, <1>10, <1>12
<1> HIDE DEF h, line, a
<1>14. /\ line \in Seq(Glyphs) /\ Len(line) = a + n + t
       /\ \A j \in 1 .. a + n : line[j] = h[j]
       /\ \A j \in 1 .. t : line[a + n + j] = right[j]
  <2>1. h \in Seq(Glyphs) /\ right \in Seq(Glyphs)
    BY <1>7, <1>12
  <2> DEFINE m == a + n
  <2>2. m = Len(h) /\ t = Len(right)
    BY <1>a
  <2> HIDE DEF m
  <2>3. /\ line \in Seq(Glyphs) /\ Len(line) = m + t
        /\ \A j \in 1 .. m : line[j] = h[j]
        /\ \A j \in 1 .. t : line[m + j] = right[j]
    BY <1>13, <2>1, <2>2, JoinedAre
  <2> QED
    BY <2>3 DEF m
<1>15. \A j \in 1 .. a : j \in 1 .. a + n /\ line[j] = lead[j]
  BY <1>11, <1>12, <1>14
<1>16. ASSUME NEW j \in 1 .. n PROVE line[a + j] = body[j]
  <2>1. a + j \in 1 .. a + n
    BY <1>11
  <2> QED
    BY <1>12, <1>14, <2>1
<1>17. \A i \in 1 .. l : i \in 1 .. a /\ line[i] = Space
  BY <1>1, <1>10, <1>15, <1>a
<1>18. sg = 1 => line[l + 1] = "-"
  <2>1. sg = 1 => l + 1 \in 1 .. a
    BY <1>1, <1>a
  <2> QED
    BY <1>10, <1>15, <2>1
<1>19. ASSUME NEW i \in 1 .. z PROVE line[l + sg + i] = "0"
  <2>1. l + sg + i \in 1 .. a
    BY <1>1, <1>a
  <2> QED
    BY <1>10, <1>15, <2>1
<1>20. \A i \in 1 .. t : line[a + n + i] = Space
  BY <1>7, <1>14
<1>21. Layout(line, l, sg, z, body, t)
  BY <1>1, <1>14, <1>16, <1>17, <1>18, <1>19, <1>20, <1>a DEF Layout
<1> QED
  BY <1>2, <1>3, <1>21

Leading(s)  == {k \in 0 .. Len(s) : \A j \in 1 .. k : s[j] = Space}
Trailing(s) == {k \in 0 .. Len(s) : \A j \in Len(s) - k + 1 .. Len(s) : s[j] = Space}
Most(K)     == CHOOSE k \in K : \A j \in K : j <= k

LEMMA MostIs ==
    ASSUME NEW K \in SUBSET Nat, NEW k \in K, \A j \in K : j <= k
    PROVE  Most(K) = k
<1> DEFINE m == CHOOSE i \in K : \A j \in K : j <= i
<1>1. m \in K /\ \A j \in K : j <= m
  BY Zenon
<1>2. Most(K) = m
  BY DEF Most
<1> HIDE DEF m
<1>3. m \in Nat /\ k \in Nat /\ m <= k /\ k <= m
  BY <1>1
<1> QED
  BY <1>2, <1>3

LEMMA LeadingIs ==
    ASSUME NEW s \in Seq(Glyphs), NEW l \in 0 .. Len(s),
           \A j \in 1 .. l : s[j] = Space, l < Len(s) => s[l + 1] # Space
    PROVE  Most(Leading(s)) = l
<1>1. Leading(s) \in SUBSET Nat /\ l \in Leading(s)
  BY DEF Leading
<1>2. ASSUME NEW k \in Leading(s) PROVE k <= l
  <2>1. k \in 0 .. Len(s) /\ \A j \in 1 .. k : s[j] = Space
    BY DEF Leading
  <2>2. k > l => l + 1 \in 1 .. k /\ l < Len(s)
    BY <2>1
  <2> QED
    BY <2>1, <2>2
<1> QED
  BY <1>1, <1>2, MostIs

LEMMA TrailingIs ==
    ASSUME NEW s \in Seq(Glyphs), NEW t \in 0 .. Len(s),
           \A j \in Len(s) - t + 1 .. Len(s) : s[j] = Space,
           t < Len(s) => s[Len(s) - t] # Space
    PROVE  Most(Trailing(s)) = t
<1>1. Trailing(s) \in SUBSET Nat /\ t \in Trailing(s)
  BY DEF Trailing
<1>2. ASSUME NEW k \in Trailing(s) PROVE k <= t
  <2>1. k \in 0 .. Len(s) /\ \A j \in Len(s) - k + 1 .. Len(s) : s[j] = Space
    BY DEF Trailing
  <2>2. k > t => Len(s) - t \in Len(s) - k + 1 .. Len(s) /\ t < Len(s)
    BY <2>1
  <2> QED
    BY <2>1, <2>2
<1> QED
  BY <1>1, <1>2, MostIs

\* What is left of a field without its blanks.
Bare(s) == SubSeq(s, Most(Leading(s)) + 1, Len(s) - Most(Trailing(s)))

LEMMA PartIs ==
    ASSUME NEW s \in Seq(Glyphs), NEW l \in Nat, NEW m \in Nat, l + m <= Len(s),
           NEW r, r = SubSeq(s, l + 1, l + m)
    PROVE  r \in Seq(Glyphs) /\ Len(r) = m /\ \A i \in 1 .. m : r[i] = s[l + i]
<1>1. l + 1 \in Nat /\ l + m \in Nat /\ Len(s) \in Nat
  OBVIOUS
<1>2. PICK p \in Nat, e \in Nat : p = l + 1 /\ e = l + m
  BY <1>1
<1>3. p >= 1 /\ e <= Len(s) /\ p <= e + 1 /\ e - p + 1 = m
  BY <1>1, <1>2
<1>4. Len(SubSeq(s, p, e)) = m
  BY <1>2, <1>3
<1>5. \A i \in 1 .. m : SubSeq(s, p, e)[i] = s[p + i - 1]
  BY <1>2, <1>3
<1>6. SubSeq(s, p, e) \in Seq(Glyphs)
  BY <1>2, <1>3
<1>7. \A i \in 1 .. m : p + i - 1 = l + i
  BY <1>2
<1>8. r = SubSeq(s, p, e)
  BY <1>2
<1> QED
  BY <1>4, <1>5, <1>6, <1>7, <1>8

LEMMA BareIs ==
    ASSUME NEW s, NEW l, NEW sg, NEW z, NEW body, NEW t,
           Layout(s, l, sg, z, body, t),
           body # <<>>, body[Len(body)] # Space, body[1] # Space
    PROVE  /\ Most(Leading(s)) = l /\ Most(Trailing(s)) = t
           /\ Bare(s) \in Seq(Glyphs) /\ Len(Bare(s)) = sg + z + Len(body)
           /\ \A i \in 1 .. sg + z + Len(body) : Bare(s)[i] = s[l + i]
<1> DEFINE n == Len(body)
           m == sg + z + n
<1>1. /\ l \in Nat /\ sg \in {0, 1} /\ sg \in Nat /\ z \in Nat /\ t \in Nat /\ n \in Nat
      /\ s \in Seq(Glyphs) /\ Len(s) = l + m + t /\ n # 0 /\ m \in Nat /\ m # 0
  BY DEF Layout
<1>2. \A i \in 1 .. l : s[i] = Space
  BY DEF Layout
<1>3. s[l + 1] # Space
  <2>0. Space # "-" /\ Space # "0"
    BY SpaceIs
  <2>1. CASE sg = 1
    BY <2>0, <2>1 DEF Layout
  <2>2. CASE sg = 0 /\ z # 0
    <3>1. 1 \in 1 .. z /\ l + sg + 1 = l + 1
      BY <1>1, <2>2
    <3>2. s[l + sg + 1] = "0"
      BY <3>1 DEF Layout
    <3> QED
      BY <2>0, <3>1, <3>2
  <2>3. CASE sg = 0 /\ z = 0
    <3>1. 1 \in 1 .. n /\ l + sg + z + 1 = l + 1
      BY <1>1, <2>3
    <3>2. s[l + sg + z + 1] = body[1]
      BY <3>1 DEF Layout
    <3> QED
      BY <3>1, <3>2
  <2> QED
    BY <1>1, <2>1, <2>2, <2>3
<1>4. s[l + m] # Space
  <2>1. n \in 1 .. n /\ l + sg + z + n = l + m
    BY <1>1
  <2>2. s[l + sg + z + n] = body[n]
    BY <2>1 DEF Layout
  <2> QED
    BY <2>1, <2>2
<1>5. ASSUME NEW j \in Len(s) - t + 1 .. Len(s) PROVE s[j] = Space
  <2>1. PICK i \in 1 .. t : j = l + sg + z + n + i
    <3> DEFINE i == j - (l + m)
    <3>1. i \in 1 .. t /\ j = l + sg + z + n + i
      BY <1>1
    <3> HIDE DEF i
    <3> QED
      BY <3>1
  <2> QED
    BY <2>1 DEF Layout
<1>6. l \in 0 .. Len(s) /\ t \in 0 .. Len(s) /\ Len(s) - t = l + m
  BY <1>1
<1> HIDE DEF m
<1>7. Most(Leading(s)) = l /\ Most(Trailing(s)) = t
  BY <1>1, <1>2, <1>3, <1>4, <1>5, <1>6, LeadingIs, TrailingIs
<1>8. Bare(s) = SubSeq(s, l + 1, l + m)
  BY <1>6, <1>7 DEF Bare
<1>9. /\ Bare(s) \in Seq(Glyphs) /\ Len(Bare(s)) = m
      /\ \A i \in 1 .. m : Bare(s)[i] = s[l + i]
  <2>1. s \in Seq(Glyphs) /\ l \in Nat /\ m \in Nat /\ l + m <= Len(s)
    BY <1>1
  <2> DEFINE b == Bare(s)
  <2>2. b = SubSeq(s, l + 1, l + m)
    BY <1>8
  <2> HIDE DEF b
  <2>3. b \in Seq(Glyphs) /\ Len(b) = m /\ \A i \in 1 .. m : b[i] = s[l + i]
    BY <2>1, <2>2, PartIs
  <2> QED
    BY <2>3 DEF b
<1> QED
  BY <1>7, <1>9 DEF m

LEMMA BareEmpty ==
    ASSUME NEW s, NEW l, NEW t, Layout(s, l, 0, 0, <<>>, t)
    PROVE  Bare(s) = <<>>
<1>1. l \in Nat /\ t \in Nat /\ s \in Seq(Glyphs) /\ Len(s) = l + t
  BY DEF Layout
<1>2. ASSUME NEW j \in 1 .. Len(s) PROVE s[j] = Space
  <2>1. CASE j <= l
    BY <2>1, <1>1 DEF Layout
  <2>2. CASE j > l
    <3>1. PICK i \in 1 .. t : j = l + 0 + 0 + Len(<<>>) + i
      <4>1. j - l \in 1 .. t
        BY <1>1, <2>2
      <4> QED
        BY <1>1, <4>1
    <3> QED
      BY <3>1 DEF Layout
  <2> QED
    BY <1>1, <2>1, <2>2
<1>3. Most(Leading(s)) = Len(s) /\ Most(Trailing(s)) = Len(s)
  <2>1. Len(s) \in 0 .. Len(s) /\ ~(Len(s) < Len(s)) /\ Len(s) - Len(s) + 1 = 1
    BY <1>1
  <2> QED
    BY <1>1, <1>2, <2>1, LeadingIs, TrailingIs
<1>4. Bare(s) = SubSeq(s, Len(s) + 1, Len(s) - Len(s))
  BY <1>3 DEF Bare
<1> DEFINE b == SubSeq(s, Len(s) + 1, Len(s) - Len(s))
<1>5. b \in Seq(Glyphs) /\ Len(b) = 0
  BY <1>1
<1> HIDE DEF b
<1>6. b = <<>>
  BY <1>5
<1> QED
  BY <1>4, <1>6 DEF b

Numeric == {"X", "x", "p", "n", "d", "i", "u", "o"}

LEMMA RadixIs == \A conv \in Numeric : Radix(conv) \in Radices
<1>1. ASSUME NEW conv \in {"X", "x", "p", "n"} PROVE Radix(conv) = 16
  BY DEF Radix
<1>2. ASSUME NEW conv \in {"d", "i", "u"} PROVE Radix(conv) = 10
  BY DEF Radix
<1>3. Radix("o") = 8
  BY DEF Radix
<1> QED
  BY <1>1, <1>2, <1>3 DEF Numeric, Radices

\* The digits of num, with zeros in front, read as num.
ReadsAs(body, radix, num) ==
    \A z \in Nat : \A s :
        /\ Len(s) = z + Len(body)
        /\ \A i \in 1 .. z : s[i] = "0"
        /\ \A i \in 1 .. Len(body) : s[z + i] = body[i]
        => ValueOf(s, radix) = num

LEMMA DigitsRead ==
    ASSUME NEW num \in 0 .. Word - 1, NEW radix \in Radices,
           NEW chars \in {DigitChars, UpperChars}, NEW body,
           body = Digits(num, radix, chars)
    PROVE  /\ body \in Seq(Glyphs) /\ body # <<>>
           /\ body[1] # Space /\ body[1] # "-" /\ body[Len(body)] # Space
           /\ body[1] = "0" => num = 0
           /\ ReadsAs(body, radix, num)
<1>1. PICK q, n : /\ Divides(q, Word, num, radix) /\ Rounded(q, n)
                  /\ body = [j \in 1 .. n |-> chars[(q[n - j] % radix) + 1]]
  BY DigitsAre
<1>2. n \in 1 .. Word /\ Word \in Nat /\ n \in Nat /\ n # 0 /\ q[n] = 0 /\ (n = 1 \/ q[n - 1] # 0)
  BY <1>1, PrintfAssumption DEF Rounded
<1>3. /\ \A k \in 0 .. Word : q[k] \in Nat
      /\ q[0] = num /\ \A k \in 1 .. Word : q[k] = q[k - 1] \div radix
  BY <1>1 DEF Divides
<1>4. ASSUME NEW j \in 1 .. n
      PROVE  /\ body[j] = chars[(q[n - j] % radix) + 1]
             /\ (q[n - j] % radix) + 1 \in 1 .. 16
             /\ body[j] \in Glyphs /\ body[j] # Space /\ body[j] # "-"
             /\ body[j] = "0" => q[n - j] % radix = 0
  <2>1. n - j \in 0 .. Word
    BY <1>2
  <2>2. PICK v \in Nat : v = q[n - j]
    BY <1>3, <2>1
  <2>3. v % radix \in 0 .. radix - 1
    BY DivIs
  <2>4. PICK i \in 1 .. 16 : i = (v % radix) + 1 /\ v % radix \in Nat
    BY <2>3 DEF Radices
  <2>5. body[j] = chars[i]
    BY <1>1, <2>2, <2>4
  <2>6. chars[i] # Space /\ chars[i] # "-" /\ (chars[i] = "0" => i = 1)
    BY OneDigit
  <2>7. chars[i] \in Glyphs
    BY DEF Glyphs
  <2> QED
    BY <2>2, <2>4, <2>5, <2>6, <2>7
<1>5. body \in Seq(Glyphs) /\ Len(body) = n
  <2>1. body \in [1 .. n -> Glyphs]
    <3>1. body = [j \in 1 .. n |-> body[j]]
      BY <1>1
    <3> QED
      BY <1>4, <3>1
  <2> QED
    BY <1>2, <2>1
<1>6. 1 \in 1 .. n /\ n \in 1 .. n /\ n - 1 \in 0 .. Word /\ n \in 1 .. Word
  BY <1>2
<1>7. body[1] = "0" => num = 0
  <2> SUFFICES ASSUME body[1] = "0" PROVE num = 0
    OBVIOUS
  <2>1. PICK v \in Nat : v = q[n - 1]
    BY <1>3, <1>6
  <2>2. v % radix = 0
    BY <1>4, <1>6, <2>1
  <2>3. v \div radix = 0
    BY <1>2, <1>3, <1>6, <2>1
  <2>4. v = 0
    BY <2>2, <2>3, DivIs
  <2>5. n = 1 /\ 1 - 1 = 0
    BY <1>2, <2>1, <2>4
  <2>6. q[0] = v
    BY <2>1, <2>5
  <2> QED
    BY <1>3, <2>4, <2>6
<1>8. ReadsAs(body, radix, num)
  <2> SUFFICES ASSUME NEW z \in Nat, NEW s, Len(s) = z + n,
                      \A i \in 1 .. z : s[i] = "0",
                      \A i \in 1 .. n : s[z + i] = body[i]
               PROVE  ValueOf(s, radix) = num
    BY <1>5 DEF ReadsAs
  <2>1. \A i \in 1 .. n : s[z + i] = chars[(q[n - i] % radix) + 1]
    BY <1>4
  <2> QED
    BY <1>1, <2>1, ValueIs
<1> QED
  BY <1>4, <1>5, <1>6, <1>7, <1>8

\* What the last conversion printed, in terms of its argument.
FieldOf(conv, arg, l, sg, z, body, actual_wd) ==
    \/ /\ conv = "s" /\ body \in Words /\ arg = body
       /\ sg = 0 /\ z = 0 /\ actual_wd = Len(body)
    \/ /\ conv = "c" /\ arg \in {"A", NULc} /\ body = IF arg = NULc THEN <<>> ELSE <<arg>>
       /\ sg = 0 /\ z = 0 /\ actual_wd = 1
    \/ /\ conv \in Numeric /\ arg \in Numbers
       /\ sg = IF conv \in {"d", "i"} /\ arg >= Word \div 2 THEN 1 ELSE 0
       /\ actual_wd = Len(body) + sg
       /\ \E chars \in {DigitChars, UpperChars} :
             body = Digits(IF sg = 1 THEN Word - arg ELSE arg, Radix(conv), chars)

FieldOK ==
    field.conv = "none" \/
        /\ field.wd \in Nat
        /\ \E l, sg, z, body, t, actual_wd :
              /\ Layout(field.text, l, sg, z, body, t)
              /\ Padding(field.wd, actual_wd, l, z, t)
              /\ FieldOf(field.conv, field.arg, l, sg, z, body, actual_wd)

\* A string neither begins nor ends with a blank: otherwise nobody could tell it
\* from the padding.
Trimmed == \A w \in Words : w # <<>> => w[1] # Space /\ w[Len(w)] # Space

\* The parts of FieldsReadBack.
Negative(b) == b # <<>> /\ b[1] = "-"
Numeral(b)  == IF Negative(b) THEN Tail(b) ELSE b

Back(conv, arg, wd, s) ==
    /\ Len(s) >= wd \/ arg = NULc
    /\ conv = "s" => /\ Bare(s) = arg
                     /\ Len(s) > wd => Most(Leading(s)) + Most(Trailing(s)) = 0
    /\ conv = "c" => Bare(s) = IF arg = NULc THEN <<>> ELSE <<arg>>
    /\ conv \notin {"s", "c"} =>
         /\ (IF Negative(Bare(s)) THEN Word - ValueOf(Numeral(Bare(s)), Radix(conv))
                                  ELSE ValueOf(Numeral(Bare(s)), Radix(conv))) = arg
         /\ Negative(Bare(s)) => conv \in {"d", "i"} /\ arg >= Word \div 2
         /\ ~Negative(Bare(s)) => conv \notin {"d", "i"} \/ arg < Word \div 2
         /\ Len(s) > wd => Numeral(Bare(s))[1] # "0" \/ arg = 0
         /\ Most(Leading(s)) # 0 => Most(Trailing(s)) = 0

LEMMA BackIs ==
    ASSUME buf # <<>> => buf = out \o <<NULc, "?">>,
           field.conv # "none" => Back(field.conv, field.arg, field.wd, field.text)
    PROVE  FieldsReadBack
BY Zenon DEF FieldsReadBack, Back, Bare, Negative, Numeral, Leading, Trailing, Most

\* The width, from the padding.
LEMMA WidthIs ==
    ASSUME NEW s, NEW l, NEW sg, NEW z, NEW body, NEW t, NEW wd \in Nat,
           NEW actual_wd \in Nat, Layout(s, l, sg, z, body, t),
           Padding(wd, actual_wd, l, z, t)
    PROVE  /\ actual_wd = sg + Len(body) => Len(s) >= wd
           /\ actual_wd >= sg + Len(body) /\ Len(s) > wd => l = 0 /\ z = 0 /\ t = 0
           /\ l # 0 => t = 0
<1>1. /\ l \in Nat /\ sg \in Nat /\ z \in Nat /\ t \in Nat /\ Len(body) \in Nat
      /\ Len(s) = l + sg + z + Len(body) + t
  BY DEF Layout
<1> QED
  BY <1>1 DEF Padding

\* Strings, and the one character of %c.
LEMMA WordBack ==
    ASSUME NEW s, NEW l, NEW body, NEW t, Layout(s, l, 0, 0, body, t),
           body # <<>> => body[1] # Space /\ body[Len(body)] # Space
    PROVE  /\ Bare(s) = body
           /\ l = 0 /\ t = 0 /\ body # <<>> => Most(Leading(s)) + Most(Trailing(s)) = 0
<1>1. CASE body = <<>>
  BY <1>1, BareEmpty
<1>2. CASE body # <<>>
  <2>1. /\ Most(Leading(s)) = l /\ Most(Trailing(s)) = t
        /\ Bare(s) \in Seq(Glyphs) /\ Len(Bare(s)) = 0 + 0 + Len(body)
        /\ \A i \in 1 .. 0 + 0 + Len(body) : Bare(s)[i] = s[l + i]
    BY <1>2, BareIs
  <2>2. body \in Seq(Glyphs) /\ Len(body) \in Nat /\ 0 + 0 + Len(body) = Len(body) /\ l \in Nat
    BY DEF Layout
  <2>3. ASSUME NEW i \in 1 .. Len(body) PROVE Bare(s)[i] = body[i]
    <3>1. s[l + 0 + 0 + i] = body[i] /\ l + 0 + 0 + i = l + i
      BY <2>2 DEF Layout
    <3> QED
      BY <2>1, <2>2, <3>1
  <2>4. Bare(s) = body
    BY <2>1, <2>2, <2>3
  <2> QED
    BY <2>1, <2>4
<1> QED
  BY <1>1, <1>2

\* Numbers: the sign is found, and behind it zeros and digits that read as the
\* magnitude.
LEMMA NumberBack ==
    ASSUME NEW s, NEW l, NEW sg, NEW z, NEW body, NEW t, Layout(s, l, sg, z, body, t),
           NEW num \in 0 .. Word - 1, NEW radix \in Radices,
           NEW chars \in {DigitChars, UpperChars}, body = Digits(num, radix, chars)
    PROVE  /\ Most(Leading(s)) = l /\ Most(Trailing(s)) = t
           /\ Negative(Bare(s)) <=> sg = 1
           /\ ValueOf(Numeral(Bare(s)), radix) = num
           /\ z = 0 /\ Numeral(Bare(s))[1] = "0" => num = 0
<1> DEFINE b == Bare(s)
           d == Numeral(b)
           n == Len(body)
<1>1. /\ body \in Seq(Glyphs) /\ body # <<>> /\ body[1] # Space /\ body[1] # "-"
      /\ body[Len(body)] # Space /\ (body[1] = "0" => num = 0) /\ ReadsAs(body, radix, num)
  BY DigitsRead
<1>2. /\ l \in Nat /\ sg \in {0, 1} /\ sg \in Nat /\ z \in Nat /\ n \in Nat /\ n # 0
      /\ \A i \in 1 .. z : s[l + sg + i] = "0"
      /\ \A i \in 1 .. n : s[l + sg + z + i] = body[i]
      /\ sg = 1 => s[l + 1] = "-"
  BY <1>1 DEF Layout
<1>3. /\ Most(Leading(s)) = l /\ Most(Trailing(s)) = t
      /\ b \in Seq(Glyphs) /\ Len(b) = sg + z + n
      /\ \A i \in 1 .. sg + z + n : b[i] = s[l + i]
  BY <1>1, BareIs
<1> HIDE DEF b
<1>4. b # <<>> /\ 1 \in 1 .. sg + z + n /\ b[1] = s[l + 1]
  <2>1. 1 \in 1 .. sg + z + n /\ Len(b) # 0
    BY <1>2, <1>3
  <2> QED
    BY <1>3, <2>1
<1>5. Negative(b) <=> sg = 1
  <2>1. CASE sg = 1
    BY <1>2, <1>4, <2>1 DEF Negative
  <2>2. CASE sg = 0 /\ z # 0
    <3>1. 1 \in 1 .. z /\ l + sg + 1 = l + 1
      BY <1>2, <2>2
    <3>2. b[1] = "0"
      BY <1>2, <1>4, <3>1
    <3> QED
      BY <2>2, <3>2 DEF Negative
  <2>3. CASE sg = 0 /\ z = 0
    <3>1. 1 \in 1 .. n /\ l + sg + z + 1 = l + 1
      BY <1>2, <2>3
    <3>2. b[1] = body[1]
      BY <1>2, <1>4, <3>1
    <3> QED
      BY <1>1, <2>3, <3>2 DEF Negative
  <2> QED
    BY <1>2, <2>1, <2>2, <2>3
<1>6. Len(d) = z + n /\ \A i \in 1 .. z + n : d[i] = s[l + sg + i]
  <2>1. CASE sg = 1
    <3>1. d = Tail(b)
      BY <1>5, <2>1 DEF Numeral
    <3>2. Len(d) = Len(b) - 1 /\ \A i \in 1 .. Len(b) - 1 : d[i] = b[i + 1]
      BY <1>3, <1>4, <3>1
    <3>3. Len(b) - 1 = z + n
      BY <1>2, <1>3, <2>1
    <3>4. ASSUME NEW i \in 1 .. z + n PROVE d[i] = s[l + sg + i]
      <4>1. i + 1 \in 1 .. sg + z + n /\ l + (i + 1) = l + sg + i
        BY <1>2, <2>1
      <4> QED
        BY <1>3, <3>2, <3>3, <4>1
    <3> QED
      BY <3>2, <3>3, <3>4
  <2>2. CASE sg = 0
    <3>1. d = b
      BY <1>5, <2>2 DEF Numeral
    <3>2. sg + z + n = z + n
      BY <1>2, <2>2
    <3>3. ASSUME NEW i \in 1 .. z + n PROVE d[i] = s[l + sg + i]
      <4>1. i \in 1 .. sg + z + n /\ l + i = l + sg + i
        BY <1>2, <2>2
      <4> QED
        BY <1>3, <3>1, <4>1
    <3> QED
      BY <1>3, <3>1, <3>2, <3>3
  <2> QED
    BY <1>2, <2>1, <2>2
<1> HIDE DEF d
<1>7. ASSUME NEW i \in 1 .. z PROVE d[i] = "0"
  <2>1. i \in 1 .. z + n
    BY <1>2
  <2>2. d[i] = s[l + sg + i]
    BY <1>6, <2>1
  <2>3. s[l + sg + i] = "0"
    BY <1>2
  <2> QED
    BY <2>2, <2>3
<1>8. ASSUME NEW i \in 1 .. n PROVE d[z + i] = body[i]
  <2>1. z + i \in 1 .. z + n /\ l + sg + (z + i) = l + sg + z + i
    BY <1>2
  <2>2. d[z + i] = s[l + sg + (z + i)]
    BY <1>6, <2>1
  <2>3. s[l + sg + z + i] = body[i]
    BY <1>2
  <2> QED
    BY <2>1, <2>2, <2>3
<1>9. ValueOf(d, radix) = num
  <2>1. ReadsAs(body, radix, num) /\ z \in Nat /\ Len(d) = z + Len(body)
    BY <1>1, <1>2, <1>6
  <2>2. \A i \in 1 .. Len(body) : d[z + i] = body[i]
    BY <1>8
  <2> QED
    BY <1>7, <2>1, <2>2, Zenon DEF ReadsAs
<1>10. z = 0 /\ d[1] = "0" => num = 0
  <2> SUFFICES ASSUME z = 0, d[1] = "0" PROVE num = 0
    OBVIOUS
  <2>1. 1 \in 1 .. n /\ z + 1 = 1
    BY <1>2
  <2> QED
    BY <1>1, <1>8, <2>1
<1> QED
  BY <1>3, <1>5, <1>9, <1>10 DEF b, d

LEMMA FieldBack ==
    ASSUME Trimmed, FieldOK, field.conv # "none"
    PROVE  Back(field.conv, field.arg, field.wd, field.text)
<1> DEFINE conv == field.conv
           arg  == field.arg
           wd   == field.wd
           s    == field.text
<1> SUFFICES Back(conv, arg, wd, s)
  OBVIOUS
<1>1. PICK l, sg, z, body, t, actual_wd :
         /\ Layout(s, l, sg, z, body, t)
         /\ Padding(wd, actual_wd, l, z, t)
         /\ FieldOf(conv, arg, l, sg, z, body, actual_wd)
  BY DEF FieldOK
<1>2. wd \in Nat
  BY DEF FieldOK
<1> HIDE DEF conv, arg, wd, s
<1>3. l \in Nat /\ sg \in {0, 1} /\ z \in Nat /\ t \in Nat /\ Len(body) \in Nat
  BY <1>1 DEF Layout
<1>4. CASE conv = "s"
  <2>1. /\ body \in Words /\ arg = body /\ sg = 0 /\ z = 0 /\ actual_wd = Len(body)
    BY <1>1, <1>4 DEF FieldOf, Numeric
  <2>2. Len(s) >= wd /\ (Len(s) > wd => l = 0 /\ t = 0)
    BY <1>1, <1>2, <1>3, <2>1, WidthIs
  <2>3. /\ Bare(s) = body
        /\ l = 0 /\ t = 0 /\ body # <<>> => Most(Leading(s)) + Most(Trailing(s)) = 0
    BY <1>1, <2>1, WordBack DEF Trimmed
  <2>4. Len(s) > wd => body # <<>>
    <3> SUFFICES ASSUME Len(s) > wd, body = <<>> PROVE FALSE
      OBVIOUS
    <3>1. Len(s) = l + sg + z + Len(body) + t /\ Len(body) = 0
      BY <1>1 DEF Layout
    <3> QED
      BY <1>2, <1>3, <2>1, <2>2, <3>1
  <2> QED
    BY <1>4, <2>1, <2>2, <2>3, <2>4 DEF Back
<1>5. CASE conv = "c"
  <2>1. /\ arg \in {"A", NULc} /\ body = (IF arg = NULc THEN <<>> ELSE <<arg>>)
        /\ sg = 0 /\ z = 0 /\ actual_wd = 1
    BY <1>1, <1>5 DEF FieldOf, Numeric
  <2>2. body # <<>> => Len(body) = 1 /\ body[1] = "A"
    BY <2>1
  <2>3. body # <<>> => body[1] # Space /\ body[Len(body)] # Space
    BY <2>2, SpaceIs
  <2>4. Bare(s) = body
    BY <1>1, <2>1, <2>3, WordBack
  <2>5. arg = NULc \/ Len(s) >= wd
    <3> SUFFICES ASSUME arg # NULc PROVE Len(s) >= wd
      OBVIOUS
    <3>1. Len(body) = 1
      BY <2>1
    <3>2. actual_wd = sg + Len(body) /\ actual_wd \in Nat
      BY <2>1, <3>1
    <3> QED
      BY <1>1, <1>2, <3>2, WidthIs
  <2> QED
    BY <1>5, <2>1, <2>4, <2>5 DEF Back
<1>6. CASE conv \in Numeric
  <2>1. /\ arg \in Numbers /\ sg = (IF conv \in {"d", "i"} /\ arg >= Word \div 2 THEN 1 ELSE 0)
        /\ actual_wd = Len(body) + sg
    BY <1>1, <1>6 DEF FieldOf, Numeric
  <2> DEFINE num == IF sg = 1 THEN Word - arg ELSE arg
  <2>2. PICK chars \in {DigitChars, UpperChars} : body = Digits(num, Radix(conv), chars)
    BY <1>1, <1>6 DEF FieldOf, Numeric
  <2>3. /\ Word \in Nat /\ Word % 2 = 0 /\ arg \in Nat /\ arg < Word
    BY <2>1, PrintfAssumption
  <2>4. num \in 0 .. Word - 1 /\ (sg = 1 => num # 0)
    BY <2>1, <2>3
  <2>5. Radix(conv) \in Radices
    BY <1>6, RadixIs
  <2>6. arg = IF sg = 1 THEN Word - num ELSE num
    BY <2>3
  <2> HIDE DEF num
  <2>7. /\ Most(Leading(s)) = l /\ Most(Trailing(s)) = t
        /\ Negative(Bare(s)) <=> sg = 1
        /\ ValueOf(Numeral(Bare(s)), Radix(conv)) = num
        /\ z = 0 /\ Numeral(Bare(s))[1] = "0" => num = 0
    BY <1>1, <2>2, <2>4, <2>5, NumberBack
  <2>8. /\ Len(s) >= wd /\ (Len(s) > wd => z = 0) /\ (l # 0 => t = 0)
    <3>1. actual_wd \in Nat /\ actual_wd = sg + Len(body) /\ actual_wd >= sg + Len(body)
      BY <1>3, <2>1
    <3> QED
      BY <1>1, <1>2, <3>1, WidthIs
  <2>9. conv \notin {"s", "c"}
    BY <1>6 DEF Numeric
  <2>10. Len(s) > wd => Numeral(Bare(s))[1] # "0" \/ arg = 0
    BY <2>4, <2>6, <2>7, <2>8
  <2>11. (IF Negative(Bare(s)) THEN Word - ValueOf(Numeral(Bare(s)), Radix(conv))
                               ELSE ValueOf(Numeral(Bare(s)), Radix(conv))) = arg
    BY <2>6, <2>7
  <2>12. /\ Negative(Bare(s)) => conv \in {"d", "i"} /\ arg >= Word \div 2
         /\ ~Negative(Bare(s)) => conv \notin {"d", "i"} \/ arg < Word \div 2
    BY <2>1, <2>3, <2>7
  <2> QED
    BY <2>7, <2>8, <2>9, <2>10, <2>11, <2>12 DEF Back
<1>7. conv = "s" \/ conv = "c" \/ conv \in Numeric
  BY <1>1 DEF FieldOf
<1> QED
  BY <1>4, <1>5, <1>6, <1>7

\* Flags and width are those of a directive being read, the count is that of
\* the characters given to fn, and vsprintf ends its buffer when all is read.
OutInv ==
    /\ ScanInv
    /\ flags \subseteq {"LJ", "LZ"} /\ given_wd \in Nat
    /\ out \in Seq(Glyphs) /\ count = Len(out)
    /\ buf # <<>> => ~Reading /\ buf = out \o <<NULc, "?">>
    /\ FieldOK

LEMMA EmitKeeps ==
    ASSUME OutInv, NEW s \in Seq(Glyphs), Emit(s)
    PROVE  out' \in Seq(Glyphs) /\ count' = Len(out')
BY DEF OutInv, Emit

LEMMA ConvertedKeeps ==
    ASSUME OutInv, NEW conv, NEW arg, NEW fl, NEW body \in Seq(Glyphs),
           NEW actual_wd \in Nat, Converted(conv, arg, fl, body, actual_wd),
           NEW sg, sg = IF "WS" \in fl THEN 1 ELSE 0,
           \A l, z : ("LZ" \notin fl => z = 0) =>
                        FieldOf(conv, arg, l, sg, z, body, actual_wd)
    PROVE  /\ out' \in Seq(Glyphs) /\ count' = Len(out') /\ FieldOK'
           /\ flags' = {} /\ given_wd' = 0
<1> DEFINE f == Field(fl, given_wd, body, actual_wd)
<1>1. given_wd \in Nat
  BY DEF OutInv
<1>2. PICK l, z, t : /\ Layout(f, l, sg, z, body, t)
                     /\ Padding(given_wd, actual_wd, l, z, t)
                     /\ "LZ" \notin fl => z = 0
  BY <1>1, FieldIs
<1>3. /\ Emit(f)
      /\ field' = [conv |-> conv, arg |-> arg, flags |-> fl, wd |-> given_wd, text |-> f]
      /\ flags' = {} /\ given_wd' = 0
  BY Zenon DEF Converted, Reset
<1> HIDE DEF f
<1>4. f \in Seq(Glyphs)
  BY <1>2 DEF Layout
<1>5. /\ field'.conv = conv /\ field'.arg = arg /\ field'.wd = given_wd /\ field'.text = f
  BY <1>3
<1>6. FieldOf(conv, arg, l, sg, z, body, actual_wd)
  BY <1>2
<1>7. FieldOK'
  BY <1>1, <1>2, <1>5, <1>6, Zenon DEF FieldOK
<1> QED
  BY <1>3, <1>4, <1>7, EmitKeeps

LEMMA ZeroFlagsAre ==
    ASSUME OutInv PROVE ZeroFlags \subseteq {"LJ", "LZ"}
BY DEF OutInv, ZeroFlags

LEMMA NumberKeeps ==
    ASSUME OutInv, NEW num \in Numbers, Number(num)
    PROVE  /\ out' \in Seq(Glyphs) /\ count' = Len(out') /\ FieldOK'
           /\ flags' = {} /\ given_wd' = 0
<1> DEFINE conv  == fmt[WidthAt]
           neg   == conv \in {"d", "i"} /\ num >= Word \div 2
           fl    == ZeroFlags
                    \cup (IF conv = "X" THEN {"CA"} ELSE {})
                    \cup (IF conv \in {"d", "i"} THEN {"SG"} ELSE {})
                    \cup (IF neg THEN {"WS"} ELSE {})
           mag   == IF neg THEN (Word - num) % Word ELSE num
           chars == IF "CA" \in fl THEN UpperChars ELSE DigitChars
           body  == Digits(mag, Radix(conv), chars)
           sg    == IF neg THEN 1 ELSE 0
<1>1. conv \in Numeric /\ Converted(conv, num, fl, body, Len(body) + sg)
  BY Zenon DEF Number, Numeric
<1>2. "WS" \in fl <=> neg
  <2>1. "WS" \notin ZeroFlags
    BY ZeroFlagsAre
  <2> QED
    BY <2>1
<1>3. chars \in {DigitChars, UpperChars}
  OBVIOUS
<1>4. Radix(conv) \in Radices
  BY <1>1, RadixIs
<1>5. Word \in Nat /\ num \in Nat /\ num < Word /\ Word # 0 /\ Word % 2 = 0
  BY PrintfAssumption
<1>6. mag = IF sg = 1 THEN Word - num ELSE num
  <2> SUFFICES ASSUME neg PROVE (Word - num) % Word = Word - num
    OBVIOUS
  <2>1. Word - num \in 0 .. Word - 1
    BY <1>5
  <2>2. \A w \in Nat : \A v \in 0 .. w - 1 : v % w = v
    OBVIOUS
  <2> QED
    BY <1>5, <2>1, <2>2
<1>7. mag \in 0 .. Word - 1
  BY <1>5, <1>6
<1>8. sg \in {0, 1} /\ sg = (IF "WS" \in fl THEN 1 ELSE 0) /\ sg = (IF neg THEN 1 ELSE 0)
  BY <1>2
<1> HIDE DEF fl, mag, chars
<1>9. body \in Seq(Glyphs)
  BY <1>3, <1>4, <1>7, DigitsRead
<1>10. Len(body) + sg \in Nat
  BY <1>8, <1>9
<1>11. \A l, z : FieldOf(conv, num, l, sg, z, body, Len(body) + sg)
  BY <1>1, <1>3, <1>6, <1>8 DEF FieldOf
<1> HIDE DEF body, sg, neg, conv
<1> QED
  BY <1>1, <1>8, <1>9, <1>10, <1>11, ConvertedKeeps

LEMMA CharKeeps ==
    ASSUME OutInv, NEW c \in {"A", NULc}, Char(c)
    PROVE  /\ out' \in Seq(Glyphs) /\ count' = Len(out') /\ FieldOK'
           /\ flags' = {} /\ given_wd' = 0
<1> DEFINE fl   == ZeroFlags \ {"LZ"}
           body == IF c = NULc THEN <<>> ELSE <<c>>
<1>1. Converted("c", c, fl, body, 1)
  BY Zenon DEF Char
<1>2. "LZ" \notin fl /\ "WS" \notin fl
  BY ZeroFlagsAre
<1>3. body \in Seq(Glyphs)
  <2>1. "A" \in Glyphs
    BY DEF Glyphs
  <2> QED
    BY <2>1
<1> HIDE DEF fl
<1>4. \A l, z : ("LZ" \notin fl => z = 0) => FieldOf("c", c, l, 0, z, body, 1)
  BY <1>2 DEF FieldOf
<1> HIDE DEF body
<1>5. 0 = (IF "WS" \in fl THEN 1 ELSE 0) /\ 1 \in Nat
  BY <1>2
<1> QED
  BY <1>1, <1>3, <1>4, <1>5, ConvertedKeeps

LEMMA StringKeeps ==
    ASSUME OutInv, NEW s \in Words, String(s)
    PROVE  /\ out' \in Seq(Glyphs) /\ count' = Len(out') /\ FieldOK'
           /\ flags' = {} /\ given_wd' = 0
<1> DEFINE fl == ZeroFlags \ {"LZ"}
<1>1. Converted("s", s, fl, s, Len(s))
  BY Zenon DEF String
<1>2. "LZ" \notin fl /\ "WS" \notin fl
  BY ZeroFlagsAre
<1>3. s \in Seq(Glyphs) /\ Len(s) \in Nat
  BY PrintfAssumption DEF Glyphs, Chars
<1> HIDE DEF fl
<1>4. \A l, z : ("LZ" \notin fl => z = 0) => FieldOf("s", s, l, 0, z, s, Len(s))
  BY <1>2 DEF FieldOf
<1>5. 0 = (IF "WS" \in fl THEN 1 ELSE 0)
  BY <1>2
<1> QED
  BY <1>1, <1>3, <1>4, <1>5, ConvertedKeeps

\* The digits of a width.
LEMMA DigitOfIs == \A c \in Decimals : DigitOf(c) \in 0 .. 9
<1> SUFFICES ASSUME NEW c \in Decimals PROVE DigitOf(c) \in 0 .. 9
  OBVIOUS
<1> DEFINE d == CHOOSE i \in 1 .. 10 : DigitChars[i] = c
<1>1. \E i \in 1 .. 10 : DigitChars[i] = c
  BY Zenon DEF Decimals
<1>2. d \in 1 .. 10
  BY <1>1, Zenon
<1>3. DigitOf(c) = d - 1
  BY DEF DigitOf
<1> HIDE DEF d
<1> QED
  BY <1>2, <1>3

\* A round that reads: what is printed, and what is remembered.
RoundOK ==
    /\ flags' \subseteq {"LJ", "LZ"} /\ given_wd' \in Nat
    /\ out' \in Seq(Glyphs) /\ count' = Len(out') /\ FieldOK'

LEMMA ScanPrints ==
    ASSUME OutInv, Scan PROVE Reading /\ RoundOK
<1>0. /\ flags \subseteq {"LJ", "LZ"} /\ given_wd \in Nat /\ FieldOK
      /\ out \in Seq(Glyphs) /\ count = Len(out) /\ fmt \in Seq(Chars)
  BY DEF OutInv, ScanInv
<1>1. field' = field => FieldOK'
  BY <1>0 DEF FieldOK
<1>2. CASE Literal
  <2>1. Reading /\ Emit(<<fmt[at]>>) /\ UNCHANGED <<flags, given_wd, field>>
    BY <1>2 DEF Literal
  <2>2. fmt[at] \in Glyphs
    BY <1>0, <2>1 DEF Reading, Glyphs
  <2>3. <<fmt[at]>> \in Seq(Glyphs)
    BY <2>2
  <2> QED
    BY <1>0, <1>1, <2>1, <2>3, EmitKeeps DEF RoundOK
<1>3. CASE PercentSign
  <2>1. Reading /\ Emit(<<"%">>) /\ flags' = {} /\ given_wd' = 0 /\ field' = field
    BY <1>3 DEF PercentSign, Reset
  <2>2. "%" \in Glyphs
    BY DEF Glyphs
  <2>3. <<"%">> \in Seq(Glyphs)
    BY <2>2
  <2> QED
    BY <1>1, <2>1, <2>3, EmitKeeps DEF RoundOK
<1>4. CASE LeftJustify
  <2>1. Reading /\ UNCHANGED <<out, count, field>>
    BY <1>4 DEF LeftJustify
  <2>2. flags' \subseteq {"LJ", "LZ"} /\ given_wd' \in Nat
    <3>1. CASE "LJ" \in flags
      <4>1. flags' = {} /\ given_wd' = 0
        BY <1>4, <3>1 DEF LeftJustify, Reset
      <4> QED
        BY <4>1
    <3>2. CASE "LJ" \notin flags
      <4>1. flags' = flags \cup {"LJ"} /\ given_wd' = given_wd
        BY <1>4, <3>2 DEF LeftJustify
      <4> QED
        BY <1>0, <4>1
    <3> QED
      BY <3>1, <3>2
  <2> QED
    BY <1>0, <1>1, <2>1, <2>2 DEF RoundOK
<1>5. CASE Width
  <2>1. /\ Reading /\ fmt[WidthAt] \in Decimals /\ flags' = ZeroFlags
        /\ given_wd' = 10 * given_wd + DigitOf(fmt[WidthAt])
        /\ UNCHANGED <<out, count, field>>
    BY <1>5 DEF Width, AtWidth, PastFlags
  <2>2. given_wd' \in Nat
    <3>1. PICK d \in 0 .. 9 : d = DigitOf(fmt[WidthAt])
      BY <2>1, DigitOfIs
    <3>2. given_wd' = 10 * given_wd + d
      BY <2>1, <3>1
    <3> QED
      BY <1>0, <3>2
  <2> QED
    BY <1>0, <1>1, <2>1, <2>2, ZeroFlagsAre DEF RoundOK
<1>6. CASE Modifier
  <2>1. /\ Reading /\ flags' = ZeroFlags /\ UNCHANGED <<given_wd, out, count, field>>
    BY <1>6 DEF Modifier, AtModifier, PastFlags
  <2> QED
    BY <1>0, <1>1, <2>1, ZeroFlagsAre DEF RoundOK
<1>7. CASE Unknown
  <2>1. /\ Reading /\ flags' = {} /\ given_wd' = 0 /\ UNCHANGED <<out, count, field>>
    BY <1>7 DEF Unknown, AtConversion, PastFlags, Reset
  <2> QED
    BY <1>0, <1>1, <2>1 DEF RoundOK
<1>8. ASSUME NEW num \in Numbers, Number(num) PROVE Reading /\ RoundOK
  <2>1. Reading
    BY <1>8 DEF Number, AtConversion, PastFlags
  <2> QED
    BY <1>8, <2>1, NumberKeeps DEF RoundOK
<1>9. ASSUME NEW c \in {"A", NULc}, Char(c) PROVE Reading /\ RoundOK
  <2>1. Reading
    BY <1>9 DEF Char, AtConversion, PastFlags
  <2> QED
    BY <1>9, <2>1, CharKeeps DEF RoundOK
<1>10. ASSUME NEW s \in Words, String(s) PROVE Reading /\ RoundOK
  <2>1. Reading
    BY <1>10 DEF String, AtConversion, PastFlags
  <2> QED
    BY <1>10, <2>1, StringKeeps DEF RoundOK
<1> QED
  BY <1>2, <1>3, <1>4, <1>5, <1>6, <1>7, <1>8, <1>9, <1>10 DEF Scan

LEMMA FinishEnds ==
    ASSUME OutInv, Finish PROVE buf' = out \o <<NULc, "?">>
<1> DEFINE n == Len(out)
           G(k) == IF k = n + 1 THEN NULc ELSE IF k <= n THEN out[k] ELSE "?"
           g == [k \in 1 .. n + 2 |-> G(k)]
           e == <<NULc, "?">>
           S == Glyphs \cup {NULc, "?"}
<1>1. out \in Seq(S) /\ n \in Nat /\ count = n
  BY DEF OutInv
<1>2. buf' = g
  BY <1>1 DEF Finish
<1>3. e \in Seq(S) /\ Len(e) = 2 /\ e[1] = NULc /\ e[2] = "?"
  OBVIOUS
<1> DEFINE r == out \o e
<1> HIDE DEF e, S
<1>4. /\ r \in Seq(S) /\ Len(r) = n + 2
      /\ \A j \in 1 .. n : r[j] = out[j]
      /\ \A j \in 1 .. 2 : r[n + j] = e[j]
  <2> DEFINE m == 2
  <2>1. n = Len(out) /\ m = Len(e) /\ r = out \o e /\ out \in Seq(S) /\ e \in Seq(S)
    BY <1>1, <1>3
  <2> HIDE DEF n, r, m
  <2>2. /\ r \in Seq(S) /\ Len(r) = n + m
        /\ \A j \in 1 .. n : r[j] = out[j]
        /\ \A j \in 1 .. m : r[n + j] = e[j]
    BY <2>1, JoinedAre
  <2> QED
    BY <2>2 DEF m
<1> HIDE DEF r
<1>5. ASSUME NEW k \in 1 .. n + 2 PROVE r[k] = G(k)
  <2>1. k \in Nat /\ (k <= n \/ k = n + 1 \/ k = n + 2)
    BY <1>1
  <2>2. CASE k <= n
    <3>1. k \in 1 .. n /\ k # n + 1
      BY <1>1, <2>1, <2>2
    <3> QED
      BY <1>4, <2>2, <3>1
  <2>3. CASE k = n + 1
    <3>1. 1 \in 1 .. 2
      OBVIOUS
    <3> QED
      BY <1>3, <1>4, <2>3, <3>1
  <2>4. CASE k = n + 2
    <3>1. 2 \in 1 .. 2 /\ k # n + 1 /\ ~(k <= n)
      BY <1>1, <2>4
    <3> QED
      BY <1>3, <1>4, <2>4, <3>1
  <2> QED
    BY <2>1, <2>2, <2>3, <2>4
<1>6. r = [k \in 1 .. n + 2 |-> r[k]]
  BY <1>4
<1> HIDE DEF G
<1>7. r = g
  BY <1>5, <1>6
<1> QED
  BY <1>2, <1>7 DEF r, e

LEMMA OutKeeps == OutInv /\ [PfNext]_pfVars => OutInv'
<1> SUFFICES ASSUME OutInv, [PfNext]_pfVars PROVE OutInv'
  OBVIOUS
<1>1. ScanInv'
  BY ScanKeeps DEF OutInv
<1>2. CASE Scan /\ UNCHANGED buf
  <2>1. Reading /\ RoundOK /\ buf' = buf
    BY <1>2, ScanPrints
  <2>2. buf' = <<>>
    BY <2>1 DEF OutInv
  <2> QED
    BY <1>1, <2>1, <2>2 DEF OutInv, RoundOK
<1>3. CASE Finish
  <2>1. /\ ~Reading /\ buf' = out \o <<NULc, "?">>
        /\ UNCHANGED <<fmt, at, state, flags, given_wd, out, count, field>>
    BY <1>3, FinishEnds DEF Finish
  <2>2. ~Reading' /\ FieldOK'
    BY <2>1 DEF OutInv, Reading, FieldOK
  <2> QED
    BY <1>1, <2>1, <2>2 DEF OutInv
<1>4. CASE UNCHANGED pfVars
  <2>1. UNCHANGED <<fmt, at, state, flags, given_wd, out, count, field, buf>>
    BY <1>4 DEF pfVars
  <2>2. (Reading' <=> Reading) /\ FieldOK'
    BY <2>1 DEF OutInv, Reading, FieldOK
  <2> QED
    BY <1>1, <2>1, <2>2 DEF OutInv
<1> QED
  BY <1>2, <1>3, <1>4 DEF PfNext

LEMMA OutStarts == PfInit => OutInv
<1> SUFFICES ASSUME PfInit PROVE OutInv
  OBVIOUS
<1>1. ScanInv
  BY ScanStarts
<1>2. flags = {} /\ given_wd = 0 /\ out = <<>> /\ count = 0 /\ field = NoField /\ buf = <<>>
  BY DEF PfInit, Scanning
<1>3. FieldOK
  BY <1>2 DEF FieldOK, NoField
<1>4. <<>> \in Seq(Glyphs) /\ Len(<<>>) = 0
  OBVIOUS
<1> QED
  BY <1>1, <1>2, <1>3, <1>4 DEF OutInv

\* For every word size, format, width, number and string that does not begin or
\* end with a blank: what a directive printed can be read back as its argument,
\* in the width asked for, and vsprintf ends its buffer right behind the text.
THEOREM PrintfReadsBack == Trimmed => (PfSpec => []FieldsReadBack)
<1> SUFFICES ASSUME Trimmed PROVE PfSpec => []FieldsReadBack
  OBVIOUS
<1>1. OutInv => FieldsReadBack
  BY FieldBack, BackIs DEF OutInv
<1> QED
  BY <1>1, OutStarts, OutKeeps, PTL DEF PfSpec

=============================================================================
