---------------------------- MODULE MallocProofs ----------------------------
(***************************************************************************)
(* What TLAPS proves about the kernel heap of malloc.c, for every header   *)
(* and page size, every heap and every set of requests: the list of        *)
(* headers tiles the used heap, free blocks are coalesced and allocations  *)
(* do not overlap.                                                         *)
(*                                                                         *)
(* The list operations are proved first, on any list m of headers whose    *)
(* blocks are the set bs and which ends at e.  The steps of malloc and     *)
(* free put them together.                                                 *)
(***************************************************************************)
EXTENDS Malloc, TLAPS

-----------------------------------------------------------------------------
(* The list.                                                               *)

Header == [size : Word, free : BOOLEAN, prev : Node, next : Node]

EndOf(m, b) == b + MetaSize + m[b].size

\* Forward and backward links are inverse to each other.
Linked(m, bs) ==
    /\ \A x \in bs \cup {Head} :
          m[x].next \in bs \cup {Tail} /\ m[m[x].next].prev = x
    /\ \A x \in bs \cup {Tail} :
          m[x].prev \in bs \cup {Head} /\ m[m[x].prev].next = x

\* Every block ends where its successor starts, the last one at e.
Tiles(m, bs, e) ==
    /\ \A b \in bs :
          /\ EndOf(m, b) <= e
          /\ m[b].next = IF EndOf(m, b) = e THEN Tail ELSE EndOf(m, b)
    /\ \A b, c \in bs : b < c => EndOf(m, b) <= c
    /\ IF bs = {} THEN e = HeapStart ELSE m[Head].next = HeapStart

ListOK(m, bs, e) ==
    /\ m \in [Node -> Header] /\ bs \subseteq Addr
    /\ e \in HeapStart .. HeapLimit
    /\ Linked(m, bs) /\ Tiles(m, bs, e)
    /\ ~m[Head].free /\ ~m[Tail].free

\* The free blocks whose successor is free too.
Offenders(m, bs) == {b \in bs : m[b].free /\ m[m[b].next].free}

Busy(m, bs) == {b \in bs : ~m[b].free}

LEMMA Sorts ==
    /\ HeapStart \in Nat /\ HeapLimit \in Nat /\ WordSize \in Nat
    /\ SizeT \in Nat /\ SizeT > 0 /\ MetaSize \in Nat /\ MetaSize > 0
    /\ HeapStart > 0 /\ HeapStart < HeapLimit /\ HeapLimit < WordSize
    /\ Addr \subseteq Nat /\ Addr \subseteq Node
    /\ Head \in Node /\ Tail \in Node /\ Head \notin Addr /\ Tail \notin Addr
    /\ Head # Tail /\ Tail = WordSize
    /\ \A a \in Addr : HeapStart <= a /\ a < HeapLimit
BY MallocAssumption DEF Addr, Node, Head, Tail

LEMMA HeaderFields ==
    ASSUME NEW m \in [Node -> Header], NEW x \in Node
    PROVE  /\ m[x].size \in Nat /\ m[x].size < WordSize
           /\ m[x].prev \in Node /\ m[x].next \in Node
           /\ m[x].free \in BOOLEAN
<1>1. m[x] \in Header
  OBVIOUS
<1>2. QED
  BY <1>1, MallocAssumption DEF Header, Word

\* Two blocks of a list are apart, and a link to another block is where this
\* one ends.
LEMMA ListFacts ==
    ASSUME NEW m, NEW bs, NEW e, ListOK(m, bs, e), NEW b \in bs
    PROVE  /\ b \in Addr /\ b \in Node /\ b \in Nat
           /\ m[b].size \in Nat /\ EndOf(m, b) \in Nat
           /\ b < EndOf(m, b) /\ EndOf(m, b) <= e /\ e \in Nat
           /\ EndOf(m, b) <= HeapLimit
           /\ m[b].next \in bs \cup {Tail} /\ m[b].prev \in bs \cup {Head}
           /\ m[b].next = Tail <=> EndOf(m, b) = e
           /\ m[b].next # Tail =>
                 m[b].next = EndOf(m, b) /\ m[b].next \in bs
<1>1. b \in Addr /\ b \in Node /\ b \in Nat
  BY Sorts DEF ListOK
<1>2. m[b].size \in Nat
  BY <1>1, HeaderFields DEF ListOK
<1>3. /\ EndOf(m, b) <= e
      /\ m[b].next = IF EndOf(m, b) = e THEN Tail ELSE EndOf(m, b)
      /\ m[b].next \in bs \cup {Tail} /\ m[b].prev \in bs \cup {Head}
      /\ e \in HeapStart .. HeapLimit
  BY DEF ListOK, Tiles, Linked
<1>4. EndOf(m, b) \in Nat /\ b < EndOf(m, b)
  BY <1>1, <1>2, Sorts DEF EndOf
<1>5. EndOf(m, b) # Tail
  BY <1>3, <1>4, Sorts
<1>6. QED
  BY <1>1, <1>2, <1>3, <1>4, <1>5, Sorts

\* What merging a block with its successor does to the fields.
LEMMA MergeFields ==
    ASSUME NEW m, NEW bs, NEW e, ListOK(m, bs, e),
           NEW b \in bs, m[b].next # Tail
    PROVE  LET s == m[b].next
               o == MergeNext(m, b)
           IN /\ o \in [Node -> Header]
              /\ s \in bs /\ s # b /\ b < s /\ m[s].next # b
              /\ m[s].next \in Node
              /\ o[b].size = m[b].size + m[s].size + MetaSize
              /\ \A x \in Node : /\ x # b => o[x].size = m[x].size
                                 /\ o[x].free = m[x].free
                                 /\ o[x].next = IF x = b THEN m[s].next
                                                ELSE m[x].next
                                 /\ o[x].prev = IF x = m[s].next THEN b
                                                ELSE m[x].prev
<1> DEFINE s == m[b].next
           o == MergeNext(m, b)
           t == m[s].next
<1>1. /\ b \in Node /\ s \in bs /\ s = EndOf(m, b) /\ b < s /\ b \in Nat
      /\ s \in Nat /\ m[b].size \in Nat
  BY ListFacts
<1>2. /\ s \in Node /\ s < EndOf(m, s) /\ EndOf(m, s) <= HeapLimit
      /\ t # Tail => t = EndOf(m, s)
      /\ t \in bs \cup {Tail} /\ m[s].size \in Nat /\ EndOf(m, s) \in Nat
  BY <1>1, ListFacts
<1>3. t \in Node /\ t # b
  BY <1>1, <1>2, Sorts DEF ListOK
<1>4. m[b].size + m[s].size + MetaSize \in Word
  BY <1>1, <1>2, Sorts DEF EndOf, Word
<1>5. m \in [Node -> Header] /\ m[b] \in Header /\ m[t] \in Header
  BY <1>1, <1>3 DEF ListOK
<1>6. o = [m EXCEPT ![t] = [m[t] EXCEPT !.prev = b],
                    ![b] = [m[b] EXCEPT !.size = m[b].size + m[s].size + MetaSize,
                                        !.next = t]]
  BY <1>1, <1>3, <1>5 DEF MergeNext
<1> HIDE DEF o, s, t
<1>7. /\ [m[t] EXCEPT !.prev = b] \in Header
      /\ [m[b] EXCEPT !.size = m[b].size + m[s].size + MetaSize,
                      !.next = t] \in Header
  BY <1>1, <1>3, <1>4, <1>5 DEF Header
<1>8. o \in [Node -> Header]
  BY <1>1, <1>3, <1>5, <1>6, <1>7
<1>9. ASSUME NEW x \in Node
      PROVE  /\ x # b => o[x].size = m[x].size
             /\ o[x].free = m[x].free
             /\ o[x].next = IF x = b THEN t ELSE m[x].next
             /\ o[x].prev = IF x = t THEN b ELSE m[x].prev
  <2>1. m[x] \in Header
    BY <1>5
  <2>2. CASE x = b
    BY <1>3, <1>5, <1>6, <2>2 DEF Header
  <2>3. CASE x = t
    BY <1>3, <1>5, <1>6, <2>3 DEF Header
  <2>4. CASE x # b /\ x # t
    BY <1>5, <1>6, <2>4
  <2>5. QED
    BY <2>2, <2>3, <2>4
<1>10. o[b].size = m[b].size + m[s].size + MetaSize
  BY <1>1, <1>3, <1>5, <1>6 DEF Header
<1>11. QED
  BY <1>1, <1>2, <1>3, <1>8, <1>9, <1>10 DEF o, s, t

\* Merging a block with its successor leaves a list.
LEMMA MergeKeepsList ==
    ASSUME NEW m, NEW bs, NEW e, ListOK(m, bs, e),
           NEW b \in bs, m[b].next # Tail
    PROVE  ListOK(MergeNext(m, b), bs \ {m[b].next}, e)
<1> DEFINE s == m[b].next
           o == MergeNext(m, b)
           t == m[s].next
           cs == bs \ {s}
<1>1. /\ o \in [Node -> Header]
      /\ s \in bs /\ s # b /\ b < s /\ t # b /\ t \in Node
      /\ o[b].size = m[b].size + m[s].size + MetaSize
      /\ \A x \in Node : /\ x # b => o[x].size = m[x].size
                         /\ o[x].free = m[x].free
                         /\ o[x].next = IF x = b THEN t ELSE m[x].next
                         /\ o[x].prev = IF x = t THEN b ELSE m[x].prev
  BY MergeFields
<1>2. /\ b \in Node /\ b \in Nat /\ s = EndOf(m, b) /\ s \in Nat
      /\ m[b].size \in Nat /\ e \in Nat
  BY ListFacts
<1>3. /\ s \in Node /\ m[s].size \in Nat /\ EndOf(m, s) \in Nat
      /\ s < EndOf(m, s) /\ EndOf(m, s) <= e
      /\ t \in bs \cup {Tail} /\ (t = Tail <=> EndOf(m, s) = e)
      /\ t # Tail => t = EndOf(m, s)
  BY <1>1, ListFacts
<1>4. /\ m \in [Node -> Header] /\ bs \subseteq Addr /\ bs \subseteq Node
      /\ e \in HeapStart .. HeapLimit /\ ~m[Head].free /\ ~m[Tail].free
      /\ Head \notin bs /\ Tail \notin bs /\ Head # Tail
      /\ Head \in Node /\ Tail \in Node
  BY Sorts DEF ListOK
<1>5. /\ \A x \in bs \cup {Head} :
            m[x].next \in bs \cup {Tail} /\ m[m[x].next].prev = x
      /\ \A x \in bs \cup {Tail} :
            m[x].prev \in bs \cup {Head} /\ m[m[x].prev].next = x
  BY DEF ListOK, Linked
<1>6. t # s /\ t \in cs \cup {Tail}
  BY <1>1, <1>3, <1>4
<1> HIDE DEF o
<1>7. ASSUME NEW x \in cs \cup {Head}
      PROVE  o[x].next \in cs \cup {Tail} /\ o[o[x].next].prev = x
  <2>1. x \in bs \cup {Head} /\ x \in Node /\ x # s
    BY <1>1, <1>4
  <2>2. CASE x = b
    BY <1>1, <1>2, <1>6, <2>2
  <2>3. CASE x # b
    <3>1. o[x].next = m[x].next
      BY <1>1, <2>1, <2>3
    <3>2. m[x].next # s
      BY <1>2, <1>5, <2>1, <2>3
    <3>3. m[x].next # t
      BY <1>1, <1>5, <2>1
    <3>4. m[x].next \in cs \cup {Tail} /\ m[x].next \in Node
      BY <1>4, <1>5, <2>1, <3>2
    <3>5. QED
      BY <1>1, <1>5, <2>1, <3>1, <3>3, <3>4
  <2>4. QED
    BY <2>2, <2>3
<1>8. ASSUME NEW x \in cs \cup {Tail}
      PROVE  o[x].prev \in cs \cup {Head} /\ o[o[x].prev].next = x
  <2>1. x \in bs \cup {Tail} /\ x \in Node /\ x # s
    BY <1>1, <1>4
  <2>2. CASE x = t
    BY <1>1, <1>2, <2>1, <2>2
  <2>3. CASE x # t
    <3>1. o[x].prev = m[x].prev
      BY <1>1, <2>1, <2>3
    <3>2. m[x].prev # s
      BY <1>5, <2>1, <2>3
    <3>3. m[x].prev # b
      BY <1>5, <2>1
    <3>4. m[x].prev \in cs \cup {Head} /\ m[x].prev \in Node
      BY <1>4, <1>5, <2>1, <3>2
    <3>5. QED
      BY <1>1, <1>5, <2>1, <3>1, <3>3, <3>4
  <2>4. QED
    BY <2>2, <2>3
<1>9. Linked(o, cs)
  BY <1>7, <1>8 DEF Linked
<1>10. EndOf(o, b) = EndOf(m, s)
  BY <1>1, <1>2, <1>3, Sorts DEF EndOf
<1>11. \A x \in cs : x # b => EndOf(o, x) = EndOf(m, x)
  BY <1>1, <1>4 DEF EndOf
<1>12. ASSUME NEW x \in cs
       PROVE  /\ EndOf(o, x) <= e
              /\ o[x].next = IF EndOf(o, x) = e THEN Tail ELSE EndOf(o, x)
  <2>1. CASE x = b
    BY <1>1, <1>2, <1>3, <1>10, <2>1
  <2>2. CASE x # b
    <3>1. o[x].next = m[x].next /\ EndOf(o, x) = EndOf(m, x)
      BY <1>1, <1>4, <1>11, <2>2
    <3>2. QED
      BY <3>1 DEF ListOK, Tiles
  <2>3. QED
    BY <2>1, <2>2
<1>13. ASSUME NEW x \in cs, NEW y \in cs, x < y
       PROVE  EndOf(o, x) <= y
  <2>0. /\ \A u, v \in bs : u < v => EndOf(m, u) <= v
        /\ x \in Nat /\ y \in Nat
    BY <1>4, Sorts DEF ListOK, Tiles
  <2>1. CASE x # b
    BY <1>11, <1>13, <2>0, <2>1
  <2>2. CASE x = b
    <3>1. s <= y
      BY <1>2, <1>13, <2>0, <2>2
    <3>2. s < y
      BY <1>2, <2>0, <3>1
    <3>3. EndOf(m, s) <= y
      BY <1>1, <2>0, <3>2
    <3>4. QED
      BY <1>10, <2>2, <3>3
  <2>3. QED
    BY <2>1, <2>2
<1>14. cs # {} /\ o[Head].next = HeapStart
  <2>1. b \in cs /\ b # Head
    BY <1>1, <1>4
  <2>2. m[Head].next = HeapStart
    BY DEF ListOK, Tiles
  <2>3. QED
    BY <1>1, <1>4, <2>1, <2>2
<1>15. Tiles(o, cs, e)
  BY <1>12, <1>13, <1>14 DEF Tiles
<1>16. ~o[Head].free /\ ~o[Tail].free
  BY <1>1, <1>4
<1>17. ListOK(o, cs, e)
  BY <1>1, <1>4, <1>9, <1>15, <1>16 DEF ListOK
<1>18. QED
  BY <1>17 DEF o

\* free merges with the predecessor the way it merges the predecessor with the
\* block.
LEMMA MergePrevIsNext ==
    ASSUME NEW m, NEW bs, NEW e, ListOK(m, bs, e),
           NEW b \in bs, m[b].prev # Head
    PROVE  /\ m[b].prev \in bs /\ m[m[b].prev].next = b
           /\ MergePrev(m, b) = MergeNext(m, m[b].prev)
<1> DEFINE p == m[b].prev
           t == m[b].next
<1>1. p \in bs /\ m[p].next = b
  BY DEF ListOK, Linked
<1>2. m[m[p].next].next = t /\ m[m[p].next].size = m[b].size
  BY <1>1
<1>3. MergePrev(m, b) = MergeNext(m, p)
  BY <1>1, <1>2 DEF MergePrev, MergeNext
<1>4. QED
  BY <1>1, <1>3

\* Lists that differ in their free marks only, or outside of the list.
LEMMA SameList ==
    ASSUME NEW m, NEW bs, NEW e, ListOK(m, bs, e),
           NEW o \in [Node -> Header],
           \A x \in bs \cup {Head, Tail} :
               /\ o[x].size = m[x].size
               /\ o[x].prev = m[x].prev /\ o[x].next = m[x].next,
           ~o[Head].free, ~o[Tail].free
    PROVE  ListOK(o, bs, e)
<1>1. Linked(o, bs)
  <2>1. ASSUME NEW x \in bs \cup {Head}
        PROVE  o[x].next \in bs \cup {Tail} /\ o[o[x].next].prev = x
    BY DEF ListOK, Linked
  <2>2. ASSUME NEW x \in bs \cup {Tail}
        PROVE  o[x].prev \in bs \cup {Head} /\ o[o[x].prev].next = x
    BY DEF ListOK, Linked
  <2>3. QED
    BY <2>1, <2>2 DEF Linked
<1>2. \A x \in bs : EndOf(o, x) = EndOf(m, x)
  BY DEF EndOf
<1>3. Tiles(o, bs, e)
  BY <1>2 DEF ListOK, Tiles
<1>4. QED
  BY <1>1, <1>3 DEF ListOK

LEMMA FreeFields ==
    ASSUME NEW m, NEW bs, NEW e, ListOK(m, bs, e),
           NEW b \in bs, NEW value \in BOOLEAN
    PROVE  LET o == SetFree(m, b, value)
           IN /\ ListOK(o, bs, e)
              /\ o[b].free = value
              /\ \A x \in Node : /\ o[x].size = m[x].size
                                 /\ o[x].prev = m[x].prev
                                 /\ o[x].next = m[x].next
                                 /\ x # b => o[x].free = m[x].free
<1> DEFINE o == SetFree(m, b, value)
<1>1. /\ m \in [Node -> Header] /\ b \in Node /\ m[b] \in Header
      /\ Head # b /\ Tail # b /\ Head \in Node /\ Tail \in Node
      /\ bs \subseteq Node /\ ~m[Head].free /\ ~m[Tail].free
  BY Sorts DEF ListOK
<1>2. o = [m EXCEPT ![b] = [m[b] EXCEPT !.free = value]]
  BY DEF SetFree
<1>3. [m[b] EXCEPT !.free = value] \in Header
  BY <1>1 DEF Header
<1> HIDE DEF o
<1>4. o \in [Node -> Header]
  BY <1>1, <1>2, <1>3
<1>5. ASSUME NEW x \in Node
      PROVE  /\ o[x].size = m[x].size /\ o[x].prev = m[x].prev
             /\ o[x].next = m[x].next
             /\ x # b => o[x].free = m[x].free
  <2>1. CASE x = b
    BY <1>1, <1>2, <2>1 DEF Header
  <2>2. CASE x # b
    BY <1>1, <1>2, <2>2
  <2>3. QED
    BY <2>1, <2>2
<1>6. o[b].free = value
  BY <1>1, <1>2 DEF Header
<1>7. ~o[Head].free /\ ~o[Tail].free
  BY <1>1, <1>5
<1>8. ListOK(o, bs, e)
  BY <1>1, <1>4, <1>5, <1>7, SameList
<1>9. QED
  BY <1>5, <1>6, <1>8 DEF o

\* Memory outside of the list is forgotten.
LEMMA ForgetKeeps ==
    ASSUME NEW m, NEW bs, NEW e, ListOK(m, bs, e)
    PROVE  /\ ListOK(Forget(m, bs), bs, e)
           /\ \A x \in bs \cup {Head, Tail} : Forget(m, bs)[x] = m[x]
<1> DEFINE o == Forget(m, bs)
<1>1. /\ m \in [Node -> Header] /\ bs \subseteq Node
      /\ Head \in Node /\ Tail \in Node /\ ~m[Head].free /\ ~m[Tail].free
  BY Sorts DEF ListOK
<1>2. \A x \in bs \cup {Head, Tail} : o[x] = m[x]
  BY <1>1 DEF Forget
<1>3. NoMeta \in Header
  BY <1>1, Sorts DEF NoMeta, Header, Word
<1>4. o \in [Node -> Header]
  BY <1>1, <1>3 DEF Forget
<1> HIDE DEF o
<1>5. ListOK(o, bs, e)
  BY <1>1, <1>2, <1>4, SameList
<1>6. QED
  BY <1>2, <1>5 DEF o

\* What splitting a block does to the fields: o is the list m in which block b
\* was cut to c bytes and a free block put at r.
SplitOf(m, bs, b, c, r, o) ==
    /\ o \in [Node -> Header]
    /\ r \in Addr /\ r \notin bs /\ b < r /\ r < EndOf(m, b)
    /\ m[b].next # b /\ m[b].next # r /\ m[b].next \in Node
    /\ EndOf(o, r) = EndOf(m, b) /\ EndOf(o, b) = r
    /\ o[b].size = c /\ o[r].free = TRUE
    /\ \A x \in Node :
          /\ x \notin {b, r} => o[x].size = m[x].size
          /\ x # r => o[x].free = m[x].free
          /\ o[x].next = IF x = b THEN r ELSE
                         IF x = r THEN m[b].next ELSE m[x].next
          /\ o[x].prev = IF x = r THEN b ELSE
                         IF x = m[b].next THEN r ELSE m[x].prev

LEMMA SplitFields ==
    ASSUME NEW m, NEW bs, NEW e, ListOK(m, bs, e),
           NEW b \in bs, NEW c \in Nat, CanSplit(m, b, c)
    PROVE  SplitOf(m, bs, b, c, Rest(b, c), Split(m, b, c))
<1> DEFINE r == Rest(b, c)
           o == Split(m, b, c)
           t == m[b].next
           z == m[b].size - c - MetaSize
           R == [size |-> z, free |-> TRUE, prev |-> b, next |-> t]
<1>1. /\ b \in Node /\ b \in Nat /\ b \in Addr /\ m[b].size \in Nat
      /\ EndOf(m, b) <= HeapLimit /\ EndOf(m, b) \in Nat /\ b < EndOf(m, b)
      /\ t \in bs \cup {Tail} /\ (t # Tail => t = EndOf(m, b))
  BY ListFacts
<1>2. /\ HeapLimit \in Nat /\ MetaSize \in Nat /\ SizeT \in Nat
      /\ MetaSize > 0 /\ SizeT > 0 /\ HeapStart <= b /\ HeapStart \in Nat
      /\ HeapLimit < WordSize /\ WordSize \in Nat
  BY <1>1, Sorts
<1>3. m[b].size - c >= SizeT + MetaSize
  BY DEF CanSplit
<1>4. r \in Nat /\ r = b + c + MetaSize /\ b < r /\ r < EndOf(m, b)
  BY <1>1, <1>2, <1>3 DEF Rest, EndOf
<1>5. r \in Addr /\ r \in Node
  BY <1>1, <1>2, <1>4, Sorts DEF Addr
<1>6. r \notin bs
  <2> SUFFICES ASSUME r \in bs PROVE FALSE
    OBVIOUS
  <2>1. EndOf(m, b) <= r
    BY <1>4 DEF ListOK, Tiles
  <2>2. QED
    BY <1>1, <1>4, <2>1
<1>7. t # b /\ t # r /\ t \in Node
  BY <1>1, <1>4, <1>5, Sorts DEF ListOK
<1>8. z \in Word /\ c \in Word
  BY <1>1, <1>2, <1>3 DEF Word, EndOf
<1>9. m \in [Node -> Header] /\ m[b] \in Header /\ m[t] \in Header
  BY <1>1, <1>7 DEF ListOK
<1> HIDE DEF r, t, z
<1>10. o = [m EXCEPT ![r] = R,
                     ![t] = [m[t] EXCEPT !.prev = r],
                     ![b] = [m[b] EXCEPT !.size = c, !.next = r]]
  <2>1. b \in Node /\ b # r
    BY <1>1, <1>4
  <2>2. QED
    BY <1>5, <1>7, <1>9, <2>1 DEF Split, r, t, z
<1>11. /\ R \in Header /\ [m[t] EXCEPT !.prev = r] \in Header
       /\ [m[b] EXCEPT !.size = c, !.next = r] \in Header
  BY <1>1, <1>5, <1>7, <1>8, <1>9 DEF Header
<1> HIDE DEF o
<1>12. o \in [Node -> Header]
  BY <1>1, <1>5, <1>7, <1>9, <1>10, <1>11
<1>13. o[r] = R /\ o[b] = [m[b] EXCEPT !.size = c, !.next = r]
       /\ o[t] = [m[t] EXCEPT !.prev = r]
  BY <1>1, <1>4, <1>5, <1>7, <1>9, <1>10
<1>14. ASSUME NEW x \in Node
       PROVE  /\ x \notin {b, r} => o[x].size = m[x].size
              /\ x # r => o[x].free = m[x].free
              /\ o[x].next = IF x = b THEN r ELSE
                             IF x = r THEN t ELSE m[x].next
              /\ o[x].prev = IF x = r THEN b ELSE
                             IF x = t THEN r ELSE m[x].prev
  <2>1. CASE x = r
    BY <1>4, <1>7, <1>13, <2>1
  <2>2. CASE x = b
    <3>1. b # r
      BY <1>1, <1>4
    <3>2. QED
      BY <1>7, <1>9, <1>13, <2>2, <3>1 DEF Header
  <2>3. CASE x = t
    BY <1>7, <1>9, <1>13, <2>3 DEF Header
  <2>4. CASE x \notin {b, r, t}
    BY <1>9, <1>10, <2>4
  <2>5. QED
    BY <2>1, <2>2, <2>3, <2>4
<1>15. o[b].size = c /\ o[r].size = z /\ o[r].free = TRUE
  BY <1>9, <1>13 DEF Header
<1>16. EndOf(o, r) = EndOf(m, b) /\ EndOf(o, b) = r
  BY <1>1, <1>2, <1>4, <1>15 DEF EndOf, z
<1>17. SplitOf(m, bs, b, c, r, o)
  BY <1>4, <1>5, <1>6, <1>7, <1>12, <1>14, <1>15, <1>16 DEF SplitOf, t
<1>18. QED
  BY <1>17 DEF o, r

\* Splitting a block leaves a list with one block more.
LEMMA SplitKeepsList ==
    ASSUME NEW m, NEW bs, NEW e, ListOK(m, bs, e),
           NEW b \in bs, NEW c \in Nat, CanSplit(m, b, c)
    PROVE  ListOK(Split(m, b, c), bs \cup {Rest(b, c)}, e)
<1> DEFINE r == Rest(b, c)
           o == Split(m, b, c)
           t == m[b].next
           cs == bs \cup {r}
<1>1. /\ o \in [Node -> Header]
      /\ r \in Addr /\ r \notin bs /\ b < r /\ r < EndOf(m, b)
      /\ t # b /\ t # r /\ t \in Node
      /\ EndOf(o, r) = EndOf(m, b) /\ EndOf(o, b) = r
      /\ \A x \in Node :
            /\ x \notin {b, r} => o[x].size = m[x].size
            /\ x # r => o[x].free = m[x].free
            /\ o[x].next = IF x = b THEN r ELSE IF x = r THEN t ELSE m[x].next
            /\ o[x].prev = IF x = r THEN b ELSE IF x = t THEN r ELSE m[x].prev
  <2>1. SplitOf(m, bs, b, c, r, o)
    BY SplitFields
  <2> HIDE DEF o, r
  <2>2. QED
    BY <2>1 DEF SplitOf
<1>2. /\ m \in [Node -> Header] /\ bs \subseteq Addr /\ bs \subseteq Node
      /\ e \in HeapStart .. HeapLimit /\ ~m[Head].free /\ ~m[Tail].free
      /\ Head \notin cs /\ Tail \notin cs /\ Head # Tail
      /\ Head \in Node /\ Tail \in Node /\ r \in Node /\ b \in Node
  BY <1>1, Sorts DEF ListOK
<1>3. /\ \A x \in bs \cup {Head} :
            m[x].next \in bs \cup {Tail} /\ m[m[x].next].prev = x
      /\ \A x \in bs \cup {Tail} :
            m[x].prev \in bs \cup {Head} /\ m[m[x].prev].next = x
  BY DEF ListOK, Linked
<1>4. /\ b \in Nat /\ r \in Nat /\ e \in Nat /\ EndOf(m, b) <= e
      /\ EndOf(m, b) \in Nat /\ (t = Tail <=> EndOf(m, b) = e)
      /\ t # Tail => t = EndOf(m, b)
      /\ t \in bs \cup {Tail}
  <2>1. r \in Nat
    BY <1>1, Sorts
  <2>2. QED
    BY <2>1, ListFacts
<1> HIDE DEF o, r
<1>5. ASSUME NEW x \in cs \cup {Head}
      PROVE  o[x].next \in cs \cup {Tail} /\ o[o[x].next].prev = x
  <2>1. CASE x = b
    BY <1>1, <1>2, <2>1
  <2>2. CASE x = r
    BY <1>1, <1>2, <1>4, <2>2
  <2>3. CASE x # b /\ x # r
    <3>1. x \in bs \cup {Head} /\ x \in Node
      BY <1>2, <2>3
    <3>2. o[x].next = m[x].next /\ m[x].next \in bs \cup {Tail}
      BY <1>1, <1>3, <2>3, <3>1
    <3>3. m[x].next # t /\ m[x].next # r /\ m[x].next \in Node
      BY <1>1, <1>2, <1>3, <2>3, <3>1, <3>2
    <3>4. QED
      BY <1>1, <1>3, <3>1, <3>2, <3>3
  <2>4. QED
    BY <2>1, <2>2, <2>3
<1>6. ASSUME NEW x \in cs \cup {Tail}
      PROVE  o[x].prev \in cs \cup {Head} /\ o[o[x].prev].next = x
  <2>1. CASE x = r
    BY <1>1, <1>2, <2>1
  <2>2. CASE x = t
    BY <1>1, <1>2, <2>2
  <2>3. CASE x # t /\ x # r
    <3>1. x \in bs \cup {Tail} /\ x \in Node
      BY <1>2, <2>3
    <3>2. o[x].prev = m[x].prev /\ m[x].prev \in bs \cup {Head}
      BY <1>1, <1>3, <2>3, <3>1
    <3>3. m[x].prev # b /\ m[x].prev # r /\ m[x].prev \in Node
      BY <1>1, <1>2, <1>3, <2>3, <3>1, <3>2
    <3>4. QED
      BY <1>1, <1>3, <3>1, <3>2, <3>3
  <2>4. QED
    BY <2>1, <2>2, <2>3
<1>7. Linked(o, cs)
  BY <1>5, <1>6 DEF Linked
<1>8. \A x \in bs : x # b => EndOf(o, x) = EndOf(m, x)
  BY <1>1, <1>2 DEF EndOf
<1>9. ASSUME NEW x \in cs
      PROVE  /\ EndOf(o, x) <= e
             /\ o[x].next = IF EndOf(o, x) = e THEN Tail ELSE EndOf(o, x)
  <2>1. CASE x = r
    BY <1>1, <1>2, <1>4, <2>1
  <2>2. CASE x = b
    BY <1>1, <1>2, <1>4, <2>2
  <2>3. CASE x # r /\ x # b
    <3>1. x \in bs /\ o[x].next = m[x].next /\ EndOf(o, x) = EndOf(m, x)
      BY <1>1, <1>2, <1>8, <2>3
    <3>2. QED
      BY <3>1 DEF ListOK, Tiles
  <2>4. QED
    BY <2>1, <2>2, <2>3
<1>10. ASSUME NEW x \in cs, NEW y \in cs, x < y
       PROVE  EndOf(o, x) <= y
  <2>1. /\ \A u, v \in bs : u < v => EndOf(m, u) <= v
        /\ x \in Nat /\ y \in Nat
    BY <1>1, <1>2, Sorts DEF ListOK, Tiles
  <2>2. CASE x \in bs /\ y \in bs /\ x # b
    BY <1>8, <1>10, <2>1, <2>2
  <2>3. CASE x = b /\ y \in bs
    <3>1. EndOf(m, b) <= y
      BY <1>10, <2>1, <2>3
    <3>2. QED
      BY <1>1, <1>4, <2>1, <2>3, <3>1
  <2>4. CASE x = b /\ y = r
    BY <1>1, <1>4, <2>4
  <2>5. CASE x = r /\ y \in bs
    <3>1. b < y
      BY <1>1, <1>4, <1>10, <2>1, <2>5
    <3>2. EndOf(m, b) <= y
      BY <2>1, <2>5, <3>1
    <3>3. QED
      BY <1>1, <2>5, <3>2
  <2>6. CASE x \in bs /\ x # b /\ y = r
    <3>1. ~(b < x)
      <4> SUFFICES ASSUME b < x PROVE FALSE
        OBVIOUS
      <4>1. EndOf(m, b) <= x
        BY <2>1, <2>6
      <4>2. QED
        BY <1>1, <1>4, <1>10, <2>1, <2>6, <4>1
    <3>2. x < b
      BY <1>4, <2>1, <2>6, <3>1
    <3>3. EndOf(m, x) <= b /\ EndOf(m, x) \in Nat
      BY <2>1, <2>6, <3>2, ListFacts
    <3>4. QED
      BY <1>1, <1>4, <1>8, <2>6, <3>3
  <2>7. CASE x = r /\ y = r
    BY <1>4, <1>10, <2>7
  <2>8. QED
    BY <2>2, <2>3, <2>4, <2>5, <2>6, <2>7
<1>11. cs # {} /\ o[Head].next = HeapStart
  <2>1. m[Head].next = HeapStart
    BY DEF ListOK, Tiles
  <2>2. b # Head /\ r # Head
    BY <1>2
  <2>3. QED
    BY <1>1, <1>2, <2>1, <2>2
<1>12. Tiles(o, cs, e)
  BY <1>9, <1>10, <1>11 DEF Tiles
<1>13. ~o[Head].free /\ ~o[Tail].free
  <2>1. Head # r /\ Tail # r
    BY <1>2
  <2>2. QED
    BY <1>1, <1>2, <2>1
<1>14. ListOK(o, cs, e)
  BY <1>1, <1>2, <1>7, <1>12, <1>13 DEF ListOK
<1>15. QED
  BY <1>14 DEF o, r

\* The list o is the list m with a new busy block of c bytes at its end, e.
AppendOf(m, bs, e, c, o) ==
    /\ ListOK(o, bs \cup {e}, e + MetaSize + c)
    /\ e \in Addr /\ e \notin bs
    /\ o[e].size = c /\ o[e].free = FALSE
    /\ \A x \in bs \cup {Head, Tail} :
          /\ o[x].size = m[x].size /\ o[x].free = m[x].free
          /\ o[x].next = IF x = m[Tail].prev THEN e ELSE m[x].next

LEMMA AppendKeepsList ==
    ASSUME NEW m, NEW bs, NEW e, ListOK(m, bs, e),
           NEW c \in Nat, e + MetaSize + c <= HeapLimit
    PROVE  AppendOf(m, bs, e, c, Appended(m, e, c))
<1> DEFINE o == Appended(m, e, c)
           l == m[Tail].prev
           E == [size |-> c, free |-> FALSE, prev |-> l, next |-> Tail]
           f == e + MetaSize + c
           cs == bs \cup {e}
<1>1. /\ m \in [Node -> Header] /\ bs \subseteq Addr /\ bs \subseteq Node
      /\ e \in HeapStart .. HeapLimit /\ ~m[Head].free /\ ~m[Tail].free
      /\ Head \notin bs /\ Tail \notin bs /\ Head # Tail
      /\ Head \in Node /\ Tail \in Node
  BY Sorts DEF ListOK
<1>2. /\ e \in Nat /\ f \in Nat /\ e < f /\ f <= HeapLimit
      /\ HeapLimit < WordSize /\ HeapStart <= e /\ WordSize \in Nat
      /\ HeapLimit \in Nat /\ HeapStart \in Nat
  BY <1>1, Sorts
<1>3. e \in Addr /\ e \in Node /\ e # Head /\ e # Tail
  BY <1>2, Sorts DEF Addr
<1>4. e \notin bs
  <2> SUFFICES ASSUME e \in bs PROVE FALSE
    OBVIOUS
  <2>1. e < EndOf(m, e) /\ EndOf(m, e) <= e /\ EndOf(m, e) \in Nat
    BY ListFacts
  <2>2. QED
    BY <1>2, <2>1
<1>5. /\ \A x \in bs \cup {Head} :
            m[x].next \in bs \cup {Tail} /\ m[m[x].next].prev = x
      /\ \A x \in bs \cup {Tail} :
            m[x].prev \in bs \cup {Head} /\ m[m[x].prev].next = x
  BY DEF ListOK, Linked
<1>6. l \in bs \cup {Head} /\ l \in Node /\ l # e /\ l # Tail
      /\ m[l].next = Tail
  <2>1. l \in bs \cup {Head} /\ m[l].next = Tail
    BY <1>5
  <2> HIDE DEF l
  <2>2. QED
    BY <1>1, <1>3, <1>4, <2>1
<1>7. m[l] \in Header /\ m[Tail] \in Header
  BY <1>1, <1>6
<1> HIDE DEF l
<1>8. o = [m EXCEPT ![e] = E, ![l] = [m[l] EXCEPT !.next = e],
                    ![Tail] = [m[Tail] EXCEPT !.prev = e]]
  BY <1>1, <1>3, <1>6, <1>7 DEF Appended, l
<1>9. E \in Header /\ [m[l] EXCEPT !.next = e] \in Header
      /\ [m[Tail] EXCEPT !.prev = e] \in Header
  <2>1. c \in Word
    BY <1>2, Sorts DEF Word
  <2>2. QED
    BY <1>1, <1>3, <1>6, <1>7, <2>1 DEF Header
<1> HIDE DEF o
<1>10. o \in [Node -> Header]
  BY <1>1, <1>3, <1>6, <1>8, <1>9
<1>11. o[e] = E /\ o[l] = [m[l] EXCEPT !.next = e]
       /\ o[Tail] = [m[Tail] EXCEPT !.prev = e]
       /\ \A x \in Node \ {e, l, Tail} : o[x] = m[x]
  BY <1>1, <1>3, <1>6, <1>8
<1>12. ASSUME NEW x \in bs \cup {Head, Tail}
       PROVE  /\ o[x].size = m[x].size /\ o[x].free = m[x].free
              /\ o[x].next = IF x = l THEN e ELSE m[x].next
              /\ o[x].prev = IF x = Tail THEN e ELSE m[x].prev
              /\ x \in Node /\ x # e
  <2>1. x \in Node /\ x # e
    BY <1>1, <1>3, <1>4
  <2>2. CASE x = l
    BY <1>6, <1>7, <1>11, <2>1, <2>2 DEF Header
  <2>3. CASE x = Tail
    BY <1>6, <1>7, <1>11, <2>1, <2>3 DEF Header
  <2>4. CASE x # l /\ x # Tail
    BY <1>11, <2>1, <2>4
  <2>5. QED
    BY <2>2, <2>3, <2>4
<1>13. /\ o[e].size = c /\ o[e].free = FALSE /\ o[e].next = Tail
       /\ o[e].prev = l /\ EndOf(o, e) = f
  BY <1>11, <1>2, Sorts DEF EndOf
<1>14. ASSUME NEW x \in cs \cup {Head}
       PROVE  o[x].next \in cs \cup {Tail} /\ o[o[x].next].prev = x
  <2>1. CASE x = e
    BY <1>12, <1>13, <2>1
  <2>2. CASE x = l
    BY <1>6, <1>12, <1>13, <2>2
  <2>3. CASE x # e /\ x # l
    <3>1. x \in bs \cup {Head}
      BY <2>3
    <3>2. o[x].next = m[x].next
      BY <1>12, <2>3, <3>1
    <3>3. m[x].next # Tail
      BY <1>5, <2>3, <3>1 DEF l
    <3>4. QED
      BY <1>5, <1>12, <3>1, <3>2, <3>3
  <2>4. QED
    BY <2>1, <2>2, <2>3
<1>15. ASSUME NEW x \in cs \cup {Tail}
       PROVE  o[x].prev \in cs \cup {Head} /\ o[o[x].prev].next = x
  <2>1. CASE x = e
    BY <1>6, <1>12, <1>13, <2>1
  <2>2. CASE x = Tail
    BY <1>12, <1>13, <2>2
  <2>3. CASE x # e /\ x # Tail
    <3>1. x \in bs
      BY <2>3
    <3>2. o[x].prev = m[x].prev /\ m[x].prev \in bs \cup {Head}
      BY <1>5, <1>12, <2>3, <3>1
    <3>3. m[x].prev # l
      BY <1>5, <1>6, <2>3, <3>1
    <3>4. QED
      BY <1>5, <1>12, <3>1, <3>2, <3>3
  <2>4. QED
    BY <2>1, <2>2, <2>3
<1>16. Linked(o, cs)
  BY <1>14, <1>15 DEF Linked
<1>17. ASSUME NEW x \in bs
       PROVE  /\ EndOf(o, x) = EndOf(m, x) /\ EndOf(m, x) <= e
              /\ EndOf(m, x) \in Nat /\ x \in Nat /\ x < e
              /\ (m[x].next = Tail <=> EndOf(m, x) = e)
              /\ m[x].next # Tail => m[x].next = EndOf(m, x)
  <2>1. EndOf(o, x) = EndOf(m, x)
    BY <1>12 DEF EndOf
  <2>2. /\ EndOf(m, x) <= e /\ x < EndOf(m, x) /\ x \in Nat
        /\ EndOf(m, x) \in Nat
        /\ (m[x].next = Tail <=> EndOf(m, x) = e)
        /\ m[x].next # Tail => m[x].next = EndOf(m, x)
    BY ListFacts
  <2>3. QED
    BY <1>2, <2>1, <2>2
<1>18. ASSUME NEW x \in cs
       PROVE  /\ EndOf(o, x) <= f
              /\ o[x].next = IF EndOf(o, x) = f THEN Tail ELSE EndOf(o, x)
  <2>1. CASE x = e
    BY <1>2, <1>13, <2>1
  <2>2. CASE x # e
    <3>1. x \in bs /\ EndOf(o, x) <= f /\ EndOf(o, x) # f
      BY <1>2, <1>17, <2>2
    <3>2. x = l => EndOf(o, x) = e
      BY <1>6, <1>17, <3>1
    <3>3. x # l => m[x].next # Tail
      BY <1>5, <3>1 DEF l
    <3>4. QED
      BY <1>12, <1>17, <3>1, <3>2, <3>3
  <2>3. QED
    BY <2>1, <2>2
<1>19. ASSUME NEW x \in cs, NEW y \in cs, x < y
       PROVE  EndOf(o, x) <= y
  <2>1. CASE x \in bs /\ y \in bs
    <3>1. EndOf(m, x) <= y
      BY <1>19, <2>1 DEF ListOK, Tiles
    <3>2. QED
      BY <1>17, <2>1, <3>1
  <2>2. CASE x \in bs /\ y = e
    BY <1>17, <2>2
  <2>3. CASE x = e
    BY <1>2, <1>17, <1>19, <2>3
  <2>4. QED
    BY <2>1, <2>2, <2>3
<1>20. cs # {} /\ o[Head].next = HeapStart
  <2>1. CASE bs = {}
    <3>1. e = HeapStart
      BY <2>1 DEF ListOK, Tiles
    <3>2. l = Head
      BY <1>6, <2>1
    <3>3. QED
      BY <1>12, <3>1, <3>2
  <2>2. CASE bs # {}
    <3>1. m[Head].next = HeapStart
      BY <2>2 DEF ListOK, Tiles
    <3>2. m[Head].next # Tail
      BY <1>2, <3>1, Sorts
    <3>3. Head # l
      BY <1>6, <3>2
    <3>4. QED
      BY <1>12, <3>1, <3>3
  <2>3. QED
    BY <2>1, <2>2
<1>21. Tiles(o, cs, f)
  BY <1>18, <1>19, <1>20 DEF Tiles
<1>22. ~o[Head].free /\ ~o[Tail].free
  BY <1>1, <1>12
<1>23. cs \subseteq Addr /\ f \in HeapStart .. HeapLimit
  BY <1>1, <1>2, <1>3
<1>24. ListOK(o, cs, f)
  BY <1>10, <1>16, <1>21, <1>22, <1>23 DEF ListOK
<1>25. AppendOf(m, bs, e, c, o)
  BY <1>3, <1>4, <1>12, <1>13, <1>24 DEF AppendOf, l
<1>26. QED
  BY <1>25 DEF o

-----------------------------------------------------------------------------
(* Free blocks.                                                            *)

\* The lists m and o have the same busy blocks, of the same sizes.
SameBusy(m, bs, o, cs) ==
    /\ Busy(o, cs) = Busy(m, bs)
    /\ \A x \in Busy(m, bs) : o[x].size = m[x].size

\* Merging the free block b with its free successor s, which gives the list o:
\* no other block has a free successor because of it.
MergeOf(m, bs, b, s, o) ==
    /\ SameBusy(m, bs, o, bs \ {s})
    /\ o[b].free /\ o[b].next = m[s].next
    /\ \A x \in Offenders(o, bs \ {s}) :
          \/ x # b /\ x \in Offenders(m, bs)
          \/ x = b /\ s \in Offenders(m, bs)

LEMMA MergeOffends ==
    ASSUME NEW m, NEW bs, NEW e, ListOK(m, bs, e),
           NEW b \in bs, m[b].next # Tail, m[b].free, m[m[b].next].free
    PROVE  MergeOf(m, bs, b, m[b].next, MergeNext(m, b))
<1> DEFINE s == m[b].next
           o == MergeNext(m, b)
           cs == bs \ {s}
<1>1. /\ s \in bs /\ s # b /\ m[s].next # b /\ m[s].next \in Node
      /\ \A x \in Node : /\ x # b => o[x].size = m[x].size
                         /\ o[x].free = m[x].free
                         /\ o[x].next = IF x = b THEN m[s].next ELSE m[x].next
  BY MergeFields
<1>2. bs \subseteq Node /\ Tail \in Node
  BY Sorts DEF ListOK
<1>3. \A x \in bs : m[x].next \in bs \cup {Tail} /\ m[m[x].next].prev = x
  BY DEF ListOK, Linked
<1> HIDE DEF o
<1>4. Busy(o, cs) = Busy(m, bs)
  BY <1>1, <1>2 DEF Busy
<1>5. \A x \in Busy(m, bs) : o[x].size = m[x].size
  BY <1>1, <1>2 DEF Busy
<1>6. o[b].free /\ o[b].next = m[s].next
  BY <1>1, <1>2
<1>7. ASSUME NEW x \in Offenders(o, cs)
      PROVE  \/ x # b /\ x \in Offenders(m, bs)
             \/ x = b /\ s \in Offenders(m, bs)
  <2>1. x \in bs /\ x \in Node /\ o[x].free /\ o[o[x].next].free
    BY <1>2 DEF Offenders
  <2>2. CASE x = b
    <3>1. m[m[s].next].free
      BY <1>1, <1>6, <2>1, <2>2
    <3>2. QED
      BY <1>1, <2>2, <3>1 DEF Offenders
  <2>3. CASE x # b
    <3>1. o[x].next = m[x].next /\ m[x].next \in Node
      BY <1>1, <1>2, <1>3, <2>1, <2>3
    <3>2. QED
      BY <1>1, <2>1, <2>3, <3>1 DEF Offenders
  <2>4. QED
    BY <2>2, <2>3
<1>8. QED
  BY <1>4, <1>5, <1>6, <1>7 DEF o, SameBusy, MergeOf

\* The last merge of free and of malloc: when only c may have a free
\* successor, no block has one afterwards.
LEMMA LastMerge ==
    ASSUME NEW m, NEW bs, NEW e, ListOK(m, bs, e),
           NEW c \in bs, m[c].free, Offenders(m, bs) \subseteq {c},
           NEW o, o = IF NextFree(m, c) THEN MergeNext(m, c) ELSE m,
           NEW cs, cs = bs \ (IF NextFree(m, c) THEN {m[c].next} ELSE {})
    PROVE  /\ ListOK(o, cs, e) /\ Offenders(o, cs) = {}
           /\ SameBusy(m, bs, o, cs)
<1>1. CASE ~NextFree(m, c)
  <2>1. o = m /\ cs = bs
    BY <1>1
  <2>2. c \notin Offenders(m, bs)
    BY <1>1 DEF NextFree, Offenders
  <2>3. QED
    BY <2>1, <2>2 DEF SameBusy
<1>2. CASE NextFree(m, c)
  <2> DEFINE s == m[c].next
  <2>1. o = MergeNext(m, c) /\ cs = bs \ {s} /\ m[s].free
    BY <1>2 DEF NextFree
  <2>2. s # Tail
    BY <2>1 DEF ListOK
  <2>3. s \in bs /\ s # c
    BY <2>2, MergeFields
  <2>4. ListOK(o, cs, e)
    BY <2>1, <2>2, MergeKeepsList
  <2>5. /\ SameBusy(m, bs, o, cs)
        /\ \A x \in Offenders(o, cs) :
              \/ x # c /\ x \in Offenders(m, bs)
              \/ x = c /\ s \in Offenders(m, bs)
    <3>1. MergeOf(m, bs, c, s, o)
      BY <2>1, <2>2, MergeOffends
    <3>2. QED
      BY <2>1, <3>1 DEF MergeOf
  <2>6. Offenders(o, cs) = {}
    BY <2>3, <2>5
  <2>7. QED
    BY <2>4, <2>5, <2>6
<1>3. QED
  BY <1>1, <1>2

\* free(b) makes the list o, cs of the list m, bs.
Released(m, bs, e, b, o, cs) ==
    /\ ListOK(o, cs, e) /\ Offenders(o, cs) = {}
    /\ Busy(o, cs) = Busy(m, bs) \ {b}
    /\ \A x \in Busy(o, cs) : o[x].size = m[x].size

\* free: the block is released and merged with its free neighbours.
LEMMA FreedList ==
    ASSUME NEW m, NEW bs, NEW e, ListOK(m, bs, e), Offenders(m, bs) = {},
           NEW b \in bs, ~m[b].free
    PROVE  Released(m, bs, e, b, Freed(m, b), FreedBlocks(m, bs, b))
<1> DEFINE m1 == SetFree(m, b, TRUE)
           p == m1[b].prev
           m2 == IF PrevFree(m1, b) THEN MergePrev(m1, b) ELSE m1
           c == IF PrevFree(m1, b) THEN p ELSE b
           b2 == bs \ (IF PrevFree(m1, b) THEN {b} ELSE {})
           o == IF NextFree(m2, c) THEN MergeNext(m2, c) ELSE m2
           cs == b2 \ (IF NextFree(m2, c) THEN {m2[c].next} ELSE {})
<1>1. /\ ListOK(m1, bs, e) /\ m1[b].free = TRUE
      /\ \A x \in Node : /\ m1[x].size = m[x].size
                         /\ m1[x].prev = m[x].prev
                         /\ m1[x].next = m[x].next
                         /\ x # b => m1[x].free = m[x].free
  BY FreeFields
<1>2. /\ bs \subseteq Node /\ Tail \in Node /\ Head \in Node
      /\ Tail \notin bs /\ Head \notin bs /\ ~m[Head].free
  BY Sorts DEF ListOK
<1>3. /\ \A x \in bs : m[x].next \in bs \cup {Tail} /\ m[m[x].next].prev = x
      /\ \A x \in bs : m[x].prev \in bs \cup {Head} /\ m[m[x].prev].next = x
  BY DEF ListOK, Linked
<1>4. m[b].next # b /\ m[b].prev # b /\ p = m[b].prev
  <2>1. b < EndOf(m, b) /\ b \in Nat /\ EndOf(m, b) \in Nat
        /\ (m[b].next # Tail => m[b].next = EndOf(m, b))
    BY ListFacts
  <2>2. m[b].next # b
    BY <1>2, <2>1
  <2>3. QED
    BY <1>1, <1>2, <1>3, <2>2
<1> HIDE DEF m1
<1>5. Busy(m1, bs) = Busy(m, bs) \ {b}
  BY <1>1, <1>2 DEF Busy
<1>6. Offenders(m1, bs) \subseteq {b, p}
  <2> SUFFICES ASSUME NEW x \in Offenders(m1, bs), x # b PROVE x = p
    OBVIOUS
  <2>1. x \in bs /\ x \in Node /\ m[x].free /\ m1[m[x].next].free
    BY <1>1, <1>2 DEF Offenders
  <2>2. ~m[m[x].next].free
    BY <2>1 DEF Offenders
  <2>3. m[x].next \in Node
    BY <1>2, <1>3, <2>1
  <2>4. m[x].next = b
    BY <1>1, <2>1, <2>2, <2>3
  <2>5. QED
    BY <1>3, <1>4, <2>1, <2>4
<1>7. PrevFree(m1, b) <=> PrevFree(m, b)
  <2>1. p \in Node /\ p # b
    BY <1>2, <1>3, <1>4
  <2>2. QED
    BY <1>1, <1>4, <2>1 DEF PrevFree
<1>8. /\ ListOK(m2, b2, e) /\ c \in b2 /\ m2[c].free
      /\ Offenders(m2, b2) \subseteq {c}
      /\ SameBusy(m1, bs, m2, b2)
      /\ m2[c].next = m[b].next
      /\ m2[m[b].next].free = m[m[b].next].free
  <2>0. m[b].next \in Node /\ m1[m[b].next].free = m[m[b].next].free
    BY <1>1, <1>2, <1>3, <1>4
  <2>1. CASE ~PrevFree(m1, b)
    <3>1. m2 = m1 /\ c = b /\ b2 = bs
      BY <2>1
    <3>2. p \notin Offenders(m1, bs)
      BY <2>1 DEF PrevFree, Offenders
    <3>3. SameBusy(m1, bs, m1, bs)
      BY DEF SameBusy
    <3> HIDE DEF m2, c, b2
    <3>4. QED
      BY <1>1, <1>2, <1>6, <2>0, <3>1, <3>2, <3>3
  <2>2. CASE PrevFree(m1, b)
    <3>1. m2 = MergePrev(m1, b) /\ c = p /\ b2 = bs \ {b} /\ m1[p].free
      BY <2>2 DEF PrevFree
    <3>2. p # Head
      BY <1>1, <3>1 DEF ListOK
    <3>3. p \in bs /\ m1[p].next = b /\ MergePrev(m1, b) = MergeNext(m1, p)
      BY <1>1, <3>2, MergePrevIsNext
    <3>4. m1[p].next # Tail
      BY <1>2, <3>3
    <3>5. ListOK(m2, b2, e)
      BY <1>1, <3>1, <3>3, <3>4, MergeKeepsList
    <3>6. /\ SameBusy(m1, bs, m2, b2)
          /\ m2[p].free /\ m2[p].next = m1[b].next
          /\ \A x \in Offenders(m2, b2) :
                \/ x # p /\ x \in Offenders(m1, bs)
                \/ x = p /\ b \in Offenders(m1, bs)
      <4>1. m1[p].free /\ m1[m1[p].next].free
        BY <1>1, <3>1, <3>3
      <4> HIDE DEF p, m2, b2
      <4>2. MergeOf(m1, bs, p, m1[p].next, MergeNext(m1, p))
        BY <1>1, <3>3, <3>4, <4>1, MergeOffends
      <4>3. MergeOf(m1, bs, p, b, m2)
        BY <3>1, <3>3, <4>2
      <4>4. QED
        BY <3>1, <4>3 DEF MergeOf
    <3>7. \A x \in Node : m2[x].free = m1[x].free
      BY <1>1, <3>1, <3>3, <3>4, MergeFields
    <3>8. b \notin Offenders(m2, b2)
      BY <3>1 DEF Offenders
    <3>9. p \in b2
      BY <1>4, <3>1, <3>3
    <3> HIDE DEF m2, c, b2, p
    <3>10. QED
      BY <1>1, <1>2, <1>6, <2>0, <3>1, <3>5, <3>6, <3>7, <3>8, <3>9
  <2>3. QED
    BY <2>1, <2>2
<1> HIDE DEF m2, c, b2
<1>9. /\ ListOK(o, cs, e) /\ Offenders(o, cs) = {}
      /\ SameBusy(m2, b2, o, cs)
  BY <1>8, LastMerge
<1>10. Freed(m, b) = o
  BY DEF Freed, m1, m2, c
<1>11. FreedBlocks(m, bs, b) = cs
  BY <1>7, <1>8 DEF FreedBlocks, NextFree, b2
<1> HIDE DEF o, cs
<1>12. Busy(o, cs) = Busy(m, bs) \ {b}
  BY <1>5, <1>8, <1>9 DEF SameBusy
<1>13. \A x \in Busy(o, cs) : o[x].size = m[x].size
  <2> SUFFICES ASSUME NEW x \in Busy(o, cs) PROVE o[x].size = m[x].size
    OBVIOUS
  <2>1. x \in Busy(m1, bs) /\ x \in Busy(m2, b2) /\ x \in Node
    BY <1>2, <1>8, <1>9 DEF SameBusy, Busy
  <2>2. QED
    BY <1>1, <1>8, <1>9, <2>1 DEF SameBusy
<1>14. QED
  BY <1>9, <1>10, <1>11, <1>12, <1>13 DEF Released

\* malloc takes block b for c bytes, which makes the list o, cs of m, bs.
Reserved(m, bs, e, b, c, o, cs) ==
    /\ ListOK(o, cs, e) /\ Offenders(o, cs) = {}
    /\ Busy(o, cs) = Busy(m, bs) \cup {b}
    /\ \A x \in Busy(m, bs) : o[x].size = m[x].size
    /\ o[b].size >= c

\* malloc: a free block is taken, and split when it is large enough.
LEMMA TakenList ==
    ASSUME NEW m, NEW bs, NEW e, ListOK(m, bs, e), Offenders(m, bs) = {},
           NEW b \in bs, m[b].free, NEW c \in Nat, m[b].size >= c
    PROVE  Reserved(m, bs, e, b, c, Taken(m, b, c), TakenBlocks(m, bs, b, c))
<1> DEFINE m1 == SetFree(m, b, FALSE)
           r == Rest(b, c)
           m2 == Split(m1, b, c)
           b2 == bs \cup {r}
           o == IF NextFree(m2, r) THEN MergeNext(m2, r) ELSE m2
           cs == b2 \ (IF NextFree(m2, r) THEN {m2[r].next} ELSE {})
<1>1. /\ ListOK(m1, bs, e) /\ m1[b].free = FALSE
      /\ \A x \in Node : /\ m1[x].size = m[x].size
                         /\ m1[x].prev = m[x].prev
                         /\ m1[x].next = m[x].next
                         /\ x # b => m1[x].free = m[x].free
  <2>1. FALSE \in BOOLEAN
    OBVIOUS
  <2> HIDE DEF r, m2, b2, o, cs
  <2>2. QED
    BY <2>1, FreeFields DEF m1
<1>2. /\ bs \subseteq Node /\ Tail \in Node /\ b \in Node
      /\ \A x \in bs : m[x].next \in bs \cup {Tail}
  BY Sorts DEF ListOK, Linked
<1> HIDE DEF m1
<1>3. Busy(m1, bs) = Busy(m, bs) \cup {b}
  BY <1>1, <1>2 DEF Busy
<1>4. Offenders(m1, bs) = {}
  <2> SUFFICES ASSUME NEW x \in Offenders(m1, bs) PROVE FALSE
    OBVIOUS
  <2>1. x \in bs /\ x \in Node /\ x # b /\ m1[x].free /\ m1[m[x].next].free
    BY <1>1, <1>2 DEF Offenders
  <2>2. m[x].next \in Node /\ m[x].next # b
    BY <1>1, <1>2, <2>1
  <2>3. m[x].free /\ m[m[x].next].free
    BY <1>1, <2>1, <2>2
  <2>4. QED
    BY <2>1, <2>3 DEF Offenders
<1>5. CanSplit(m1, b, c) <=> CanSplit(m, b, c)
  BY <1>1, <1>2 DEF CanSplit
<1>6. CASE ~CanSplit(m, b, c)
  <2>1. Taken(m, b, c) = m1 /\ TakenBlocks(m, bs, b, c) = bs
    BY <1>6 DEF Taken, TakenBlocks, m1
  <2>2. \A x \in Busy(m, bs) : m1[x].size = m[x].size
    BY <1>1, <1>2 DEF Busy
  <2>3. m1[b].size >= c
    BY <1>1, <1>2
  <2>4. Reserved(m, bs, e, b, c, m1, bs)
    BY <1>1, <1>3, <1>4, <2>2, <2>3 DEF Reserved
  <2>5. QED
    BY <2>1, <2>4
<1>7. CASE CanSplit(m, b, c)
  <2>1. ListOK(m2, b2, e) /\ SplitOf(m1, bs, b, c, r, m2)
    BY <1>1, <1>5, <1>7, SplitKeepsList, SplitFields
  <2> HIDE DEF m2, r
  <2>2. /\ r \in Addr /\ r \notin bs /\ m[b].next # b /\ m[b].next # r
        /\ m[b].next \in Node /\ m2[b].size = c /\ m2[r].free = TRUE
        /\ \A x \in Node :
              /\ x \notin {b, r} => m2[x].size = m[x].size
              /\ x # r => m2[x].free = m1[x].free
              /\ m2[x].next = IF x = b THEN r ELSE
                              IF x = r THEN m[b].next ELSE m[x].next
    BY <1>1, <1>2, <2>1 DEF SplitOf
  <2>3. r \in Node /\ r # Tail
    BY <2>2, Sorts
  <2>4. Busy(m2, b2) = Busy(m1, bs)
    BY <1>2, <2>2 DEF Busy
  <2>5. Offenders(m2, b2) \subseteq {r}
    <3> SUFFICES ASSUME NEW x \in Offenders(m2, b2), x # r PROVE FALSE
      OBVIOUS
    <3>1. x \in bs /\ x \in Node /\ m2[x].free /\ m2[m2[x].next].free
      BY <1>2 DEF Offenders
    <3>2. m1[x].free /\ x # b
      BY <1>1, <2>2, <3>1
    <3>3. m2[x].next = m[x].next /\ m[x].next \in Node /\ m[x].next # r
      BY <1>2, <2>2, <2>3, <3>1, <3>2
    <3>4. m1[m1[x].next].free
      BY <1>1, <2>2, <3>1, <3>3
    <3>5. QED
      BY <1>4, <3>1, <3>2, <3>4 DEF Offenders
  <2>6. r \in b2 /\ m2[r].free
    BY <2>2
  <2>7. /\ ListOK(o, cs, e) /\ Offenders(o, cs) = {}
        /\ SameBusy(m2, b2, o, cs)
    BY <2>1, <2>5, <2>6, LastMerge
  <2>8. m2[r].next = m[b].next /\ (NextFree(m2, r) <=> NextFree(m, b))
    <3>1. r # b /\ m2[r].next = m[b].next
      BY <2>2, <2>3
    <3>2. m2[m[b].next].free = m[m[b].next].free
      BY <1>1, <2>2
    <3>3. QED
      BY <3>1, <3>2 DEF NextFree
  <2>9. Taken(m, b, c) = o
    BY <1>7 DEF Taken, m1, m2, r
  <2>10. TakenBlocks(m, bs, b, c) = cs
    BY <1>7, <2>8 DEF TakenBlocks, r
  <2> HIDE DEF o, cs
  <2>11. Busy(o, cs) = Busy(m, bs) \cup {b}
    BY <1>3, <2>4, <2>7 DEF SameBusy
  <2>12. \A x \in Busy(m, bs) : o[x].size = m[x].size
    <3> SUFFICES ASSUME NEW x \in Busy(m, bs) PROVE o[x].size = m[x].size
      OBVIOUS
    <3>1. x \in Busy(m2, b2) /\ x \in Node /\ x # b /\ x # r
      BY <1>2, <1>3, <2>2, <2>4 DEF Busy
    <3>2. QED
      BY <2>2, <2>7, <3>1 DEF SameBusy
  <2>13. o[b].size >= c
    <3>1. b \in Busy(m2, b2)
      BY <1>3, <2>4
    <3>2. o[b].size = c
      BY <2>2, <2>7, <3>1 DEF SameBusy
    <3>3. QED
      BY <3>2
  <2>14. Reserved(m, bs, e, b, c, o, cs)
    BY <2>7, <2>11, <2>12, <2>13 DEF Reserved
  <2>15. QED
    BY <2>9, <2>10, <2>14
<1>8. QED
  BY <1>6, <1>7

-----------------------------------------------------------------------------
(* The invariant.                                                          *)

\* Callers do not ask for so much that the size, rounded up and with a header
\* added, wraps around, and do not call realloc(p, 0), which frees p twice.
SaneRequests ==
    /\ 0 \notin Sizes
    /\ \A c \in Sizes : c + SizeT + MetaSize <= WordSize
    /\ \A c \in Counts : c[1] * c[2] + SizeT + MetaSize <= WordSize

\* Every live allocation lies in a busy block.
UserOK ==
    \A p \in DOMAIN user :
        /\ p - MetaSize \in Busy(meta, blocks)
        /\ user[p] <= meta[p - MetaSize].size

\* Every busy block belongs to somebody.
BusyOK ==
    \A b \in Busy(meta, blocks) :
        b + MetaSize \in DOMAIN user \/ (pc = "realloc" /\ b = block)

\* The running call: its block is in the list, what it frees is allocated.
CallOK ==
    /\ pc = "idle" => old = NULL
    /\ old # NULL => old \in DOMAIN user /\ request # 0
    /\ pc \in {"walk", "grow"} =>
          request <= size /\ size + MetaSize < WordSize
    /\ pc = "walk" => block \in blocks \cup {Head}
    /\ pc = "realloc" => /\ old # NULL /\ block \in Busy(meta, blocks)
                         /\ block + MetaSize \notin DOMAIN user
                         /\ request <= meta[block].size

BreakOK ==
    /\ End <= brk /\ brk \in HeapStart .. HeapLimit
    /\ alloc_end = 0 => brk = HeapStart /\ blocks = {}

ListInv == ListOK(meta, blocks, End) /\ Offenders(meta, blocks) = {}

HeapInv ==
    /\ TypeOK /\ ListInv /\ UserOK /\ BusyOK /\ CallOK /\ BreakOK

LEMMA AlignFacts ==
    ASSUME NEW c \in Nat, c + SizeT + MetaSize <= WordSize
    PROVE  Align(c) \in Nat /\ c <= Align(c) /\ Align(c) + MetaSize < WordSize
<1>1. SizeT \in Nat \ {0} /\ MetaSize \in Nat \ {0} /\ WordSize \in Nat
  BY MallocAssumption
<1>2. (c % SizeT) \in 0 .. SizeT - 1
  BY <1>1
<1> DEFINE r == c % SizeT
<1>3. r \in 0 .. SizeT - 1
  BY <1>2
<1> HIDE DEF r
<1>4. r # 0 => Plus(c, SizeT - r) = c + (SizeT - r)
  BY <1>1, <1>3 DEF Plus
<1>5. Align(c) = IF r # 0 THEN Plus(c, SizeT - r) ELSE c
  BY DEF Align, r
<1>6. QED
  BY <1>1, <1>3, <1>4, <1>5

LEMMA HeapBegins == Init => HeapInv
<1> SUFFICES ASSUME Init PROVE HeapInv
  OBVIOUS
<1>1. NoMeta \in Header
  BY Sorts DEF NoMeta, Header, Word
<1>2. meta \in [Node -> Header] /\ \A x \in Node : meta[x] = NoMeta
  BY <1>1 DEF Init
<1>3. alloc_end = 0 /\ brk = HeapStart /\ End = HeapStart
      /\ HeapStart \in HeapStart .. HeapLimit
  BY Sorts DEF Init, End
<1>4. TypeOK
  <2>1. halted \in BOOLEAN
    BY Zenon DEF Init
  <2>2. 0 \in Word
    BY Sorts DEF Word
  <2>3. DOMAIN user = {} /\ blocks = {}
    BY DEF Init
  <2>4. QED
    BY <1>2, <1>3, <2>1, <2>2, <2>3, Sorts DEF Init, TypeOK, Ptr, NULL, Header
<1>5. ListOK(meta, blocks, End)
  <2>1. blocks = {}
    BY DEF Init
  <2>2. Linked(meta, blocks)
    BY <1>2, <2>1, Sorts DEF Linked, NoMeta
  <2>3. Tiles(meta, blocks, End)
    BY <1>3, <2>1 DEF Tiles
  <2>4. ~meta[Head].free /\ ~meta[Tail].free
    BY <1>2, Sorts DEF NoMeta
  <2>5. QED
    BY <1>2, <1>3, <2>1, <2>2, <2>3, <2>4 DEF ListOK
<1>6. Offenders(meta, blocks) = {} /\ Busy(meta, blocks) = {}
  BY DEF Init, Offenders, Busy
<1>7. UserOK /\ BusyOK
  BY <1>6 DEF UserOK, BusyOK, Init
<1>8. CallOK
  BY DEF CallOK, Init
<1>9. BreakOK
  BY <1>3, Sorts DEF BreakOK, Init
<1>10. QED
  BY <1>4, <1>5, <1>6, <1>7, <1>8, <1>9 DEF HeapInv, ListInv

\* An allocated pointer is a block's address and a header away from it.
LEMMA PointerFacts ==
    ASSUME HeapInv, NEW p \in DOMAIN user
    PROVE  /\ p \in Nat /\ p - MetaSize \in blocks /\ p - MetaSize \in Nat
           /\ (p - MetaSize) + MetaSize = p /\ p # NULL
           /\ p - MetaSize \in Busy(meta, blocks)
<1>1. p - MetaSize \in Busy(meta, blocks) /\ p \in Ptr
  BY DEF HeapInv, UserOK, TypeOK
<1>2. p \in Nat
  BY <1>1, Sorts DEF Ptr, NULL
<1>3. p - MetaSize \in blocks /\ p - MetaSize \in Nat
  BY <1>1, Sorts DEF Busy, HeapInv, TypeOK
<1>4. QED
  BY <1>1, <1>2, <1>3, Sorts DEF NULL

\* A call is entered.
LEMMA HeapEntered ==
    ASSUME HeapInv, Idle, NEW c \in Nat, c + SizeT + MetaSize <= WordSize,
           NEW p, p = NULL \/ (p \in DOMAIN user /\ c # 0),
           Enter(c, c, p)
    PROVE  HeapInv'
<1>1. Align(c) \in Nat /\ c <= Align(c) /\ Align(c) + MetaSize < WordSize
  BY AlignFacts
<1>2. /\ pc' = "walk" /\ block' = Head /\ size' = Align(c) /\ request' = c
      /\ old' = p
      /\ UNCHANGED <<meta, alloc_end, brk, halted, user, blocks>>
  BY DEF Enter
<1>3. End' = End
  BY <1>2 DEF End
<1>4. TypeOK'
  <2>1. Align(c) \in Word /\ Head \in Node
    BY <1>1, Sorts DEF Word
  <2>2. p \in Ptr
    BY DEF HeapInv, TypeOK, Ptr
  <2>3. QED
    BY <1>2, <2>1, <2>2 DEF HeapInv, TypeOK
<1>5. ListInv' /\ BreakOK'
  BY <1>2, <1>3 DEF HeapInv, ListInv, BreakOK, Offenders, ListOK, Linked, Tiles,
                    EndOf
<1>6. Busy(meta, blocks)' = Busy(meta, blocks)
  BY <1>2 DEF Busy
<1>7. UserOK'
  BY <1>2, <1>6 DEF HeapInv, UserOK
<1>8. BusyOK'
  BY <1>2, <1>6 DEF HeapInv, BusyOK, CallOK, Idle
<1>9. CallOK'
  BY <1>1, <1>2 DEF CallOK
<1>10. QED
  BY <1>4, <1>5, <1>7, <1>8, <1>9 DEF HeapInv

LEMMA ForgetSame ==
    ASSUME NEW o, NEW cs, NEW e, ListOK(o, cs, e)
    PROVE  /\ ListOK(Forget(o, cs), cs, e)
           /\ Offenders(Forget(o, cs), cs) = Offenders(o, cs)
           /\ Busy(Forget(o, cs), cs) = Busy(o, cs)
           /\ \A x \in cs : Forget(o, cs)[x].size = o[x].size
<1> DEFINE q == Forget(o, cs)
<1>1. ListOK(q, cs, e) /\ \A x \in cs \cup {Head, Tail} : q[x] = o[x]
  BY ForgetKeeps
<1>2. \A x \in cs : o[x].next \in cs \cup {Tail}
  BY DEF ListOK, Linked
<1> HIDE DEF q
<1>3. Offenders(q, cs) = Offenders(o, cs) /\ Busy(q, cs) = Busy(o, cs)
  BY <1>1, <1>2 DEF Offenders, Busy
<1>4. QED
  BY <1>1, <1>3 DEF q

\* The part of free that CallFree and Realloc share: the block of p is released.
LEMMA HeapReleases ==
    ASSUME HeapInv, NEW p \in DOMAIN user,
           blocks' = FreedBlocks(meta, blocks, p - MetaSize),
           meta' = Forget(Freed(meta, p - MetaSize), blocks'),
           UNCHANGED <<alloc_end, brk>>
    PROVE  /\ Released(meta, blocks, End, p - MetaSize, meta', blocks')
           /\ ListInv' /\ BreakOK'
           /\ meta' \in [Node -> Header] /\ blocks' \subseteq Addr
<1> DEFINE b == p - MetaSize
           o == Freed(meta, b)
<1>1. b \in blocks /\ b \in Busy(meta, blocks)
  BY PointerFacts
<1>2. ListOK(meta, blocks, End) /\ Offenders(meta, blocks) = {} /\ ~meta[b].free
  BY <1>1 DEF HeapInv, ListInv, Busy
<1>3. Released(meta, blocks, End, b, o, blocks')
  BY <1>1, <1>2, FreedList
<1> HIDE DEF o, b
<1>4. ListOK(o, blocks', End)
  BY <1>3 DEF Released
<1>5. meta' = Forget(o, blocks')
  BY DEF o, b
<1>6. /\ ListOK(meta', blocks', End)
      /\ Offenders(meta', blocks') = Offenders(o, blocks')
      /\ Busy(meta', blocks') = Busy(o, blocks')
      /\ \A x \in blocks' : meta'[x].size = o[x].size
  BY <1>4, <1>5, ForgetSame
<1>7. Released(meta, blocks, End, b, meta', blocks')
  BY <1>3, <1>6 DEF Released, Busy
<1>8. End' = End
  BY DEF End
<1>9. ListInv'
  BY <1>7, <1>8 DEF Released, ListInv, ListOK, Linked, Tiles, EndOf, Offenders
<1>10. BreakOK'
  BY <1>1, <1>8 DEF HeapInv, BreakOK
<1>11. QED
  BY <1>6, <1>7, <1>9, <1>10 DEF ListOK, b

LEMMA HeapFrees ==
    ASSUME HeapInv, CallFree
    PROVE  HeapInv'
<1>1. PICK p \in DOMAIN user :
         /\ blocks' = FreedBlocks(meta, blocks, p - MetaSize)
         /\ meta' = Forget(Freed(meta, p - MetaSize), blocks')
         /\ user' = [q \in DOMAIN user \ {p} |-> user[q]]
  BY DEF CallFree
<1>2. pc = "idle" /\ UNCHANGED <<alloc_end, brk, pc, callVars, halted>>
  BY DEF CallFree, Idle
<1>3. /\ Released(meta, blocks, End, p - MetaSize, meta', blocks')
      /\ ListInv' /\ BreakOK'
      /\ meta' \in [Node -> Header] /\ blocks' \subseteq Addr
  BY <1>1, <1>2, HeapReleases
<1>4. /\ Busy(meta', blocks') = Busy(meta, blocks) \ {p - MetaSize}
      /\ \A x \in Busy(meta', blocks') : meta'[x].size = meta[x].size
  BY <1>3 DEF Released
<1>5. DOMAIN user' = DOMAIN user \ {p} /\ \A q \in DOMAIN user' : user'[q] = user[q]
  BY <1>1
<1>6. TypeOK'
  BY <1>2, <1>3, <1>5 DEF HeapInv, TypeOK, callVars, Header
<1>7. UserOK'
  <2> SUFFICES ASSUME NEW q \in DOMAIN user'
               PROVE  /\ q - MetaSize \in Busy(meta', blocks')
                      /\ user'[q] <= meta'[q - MetaSize].size
    BY DEF UserOK, Busy
  <2>1. q \in DOMAIN user /\ q # p
    BY <1>5
  <2>2. /\ (q - MetaSize) + MetaSize = q /\ (p - MetaSize) + MetaSize = p
        /\ q - MetaSize \in Busy(meta, blocks)
    BY <2>1, PointerFacts
  <2>3. q - MetaSize \in Busy(meta', blocks')
    BY <1>4, <2>1, <2>2
  <2>4. user'[q] = user[q] /\ user[q] <= meta[q - MetaSize].size
    BY <1>5, <2>1 DEF HeapInv, UserOK
  <2>5. QED
    BY <1>4, <2>3, <2>4
<1>8. BusyOK'
  <2> SUFFICES ASSUME NEW b \in Busy(meta', blocks')
               PROVE  b + MetaSize \in DOMAIN user'
    BY DEF BusyOK, Busy
  <2>1. b \in Busy(meta, blocks) /\ b # p - MetaSize
    BY <1>4
  <2>2. b + MetaSize \in DOMAIN user
    BY <1>2, <2>1 DEF HeapInv, BusyOK
  <2>3. (b + MetaSize) - MetaSize = b
    BY <2>1, Sorts DEF Busy, HeapInv, TypeOK
  <2>4. QED
    BY <1>5, <2>1, <2>2, <2>3
<1>9. CallOK'
  <2>1. pc' = "idle" /\ old' = old /\ old = NULL
    BY <1>2 DEF HeapInv, CallOK, callVars
  <2>2. QED
    BY <2>1 DEF CallOK
<1>10. QED
  BY <1>3, <1>6, <1>7, <1>8, <1>9 DEF HeapInv

\* realloc releases the old block and hands out the new one.
LEMMA HeapReallocs ==
    ASSUME HeapInv, Realloc
    PROVE  HeapInv'
<1>1. pc = "realloc"
  BY DEF Realloc
<1>2. /\ old # NULL /\ old \in DOMAIN user /\ request # 0
      /\ block \in Busy(meta, blocks) /\ block + MetaSize \notin DOMAIN user
      /\ request <= meta[block].size
  BY <1>1 DEF HeapInv, CallOK
<1>3. /\ blocks' = FreedBlocks(meta, blocks, old - MetaSize)
      /\ meta' = Forget(Freed(meta, old - MetaSize), blocks')
  BY <1>2 DEF Realloc
<1> DEFINE u == [q \in DOMAIN user \ {old} |-> user[q]]
           new == block + MetaSize
<1>4. /\ user' = GiveTo(u, block)
      /\ pc' = "idle" /\ block' = Head /\ size' = 0 /\ request' = 0
      /\ old' = NULL /\ UNCHANGED <<alloc_end, brk, halted>>
  BY DEF Realloc, ReallocReturns
<1>5. /\ Released(meta, blocks, End, old - MetaSize, meta', blocks')
      /\ ListInv' /\ BreakOK'
      /\ meta' \in [Node -> Header] /\ blocks' \subseteq Addr
  BY <1>2, <1>3, <1>4, HeapReleases
<1>6. /\ Busy(meta', blocks') = Busy(meta, blocks) \ {old - MetaSize}
      /\ \A x \in Busy(meta', blocks') : meta'[x].size = meta[x].size
  BY <1>5 DEF Released
<1>7. /\ DOMAIN user' = (DOMAIN user \ {old}) \cup {new}
      /\ \A q \in DOMAIN user' :
            user'[q] = IF q = new THEN request ELSE user[q]
  BY <1>4 DEF GiveTo
<1>8. block \in blocks /\ block \in Nat /\ block \in Node
      /\ block + MetaSize <= HeapLimit /\ new \in Nat /\ new - MetaSize = block
  <2>1. block \in blocks
    BY <1>2 DEF Busy
  <2>2. /\ block \in Nat /\ block \in Node /\ meta[block].size \in Nat
        /\ EndOf(meta, block) <= HeapLimit
    BY <2>1, ListFacts DEF HeapInv, ListInv
  <2>3. QED
    BY <2>1, <2>2, Sorts DEF EndOf
<1> HIDE DEF new
<1>9. TypeOK'
  <2>1. new \in Ptr
    BY <1>8, Sorts DEF Ptr, new
  <2>2. \A q \in DOMAIN user' : user'[q] \in Nat /\ q \in Ptr
    BY <1>7, <2>1 DEF HeapInv, TypeOK
  <2>3. 0 \in Word /\ Head \in Node /\ NULL \in Ptr
    BY Sorts DEF Word, Ptr
  <2>4. halted' \in BOOLEAN
    BY <1>4, Zenon DEF HeapInv, TypeOK
  <2>5. QED
    BY <1>4, <1>5, <2>2, <2>3, <2>4 DEF HeapInv, TypeOK, Header
<1>10. block \in Busy(meta', blocks')
  <2>1. (old - MetaSize) + MetaSize = old
    BY <1>2, PointerFacts
  <2>2. QED
    BY <1>2, <1>6, <2>1
<1>11. UserOK'
  <2> SUFFICES ASSUME NEW q \in DOMAIN user'
               PROVE  /\ q - MetaSize \in Busy(meta', blocks')
                      /\ user'[q] <= meta'[q - MetaSize].size
    BY DEF UserOK, Busy
  <2>1. CASE q = new
    BY <1>2, <1>6, <1>7, <1>8, <1>10, <2>1
  <2>2. CASE q # new
    <3>1. q \in DOMAIN user /\ q # old /\ user'[q] = user[q]
      BY <1>7, <2>2
    <3>2. /\ (q - MetaSize) + MetaSize = q
          /\ (old - MetaSize) + MetaSize = old
          /\ q - MetaSize \in Busy(meta, blocks)
      BY <1>2, <3>1, PointerFacts
    <3>3. q - MetaSize \in Busy(meta', blocks')
      BY <1>6, <3>1, <3>2
    <3>4. user[q] <= meta[q - MetaSize].size
      BY <3>1 DEF HeapInv, UserOK
    <3>5. QED
      BY <1>6, <3>1, <3>3, <3>4
  <2>3. QED
    BY <2>1, <2>2
<1>12. BusyOK'
  <2> SUFFICES ASSUME NEW b \in Busy(meta', blocks')
               PROVE  b + MetaSize \in DOMAIN user'
    BY DEF BusyOK, Busy
  <2>1. b \in Busy(meta, blocks) /\ b # old - MetaSize
    BY <1>6
  <2>2. b + MetaSize \in DOMAIN user \/ b = block
    BY <2>1 DEF HeapInv, BusyOK
  <2>3. (b + MetaSize) - MetaSize = b
    BY <2>1, Sorts DEF Busy, HeapInv, TypeOK
  <2>4. QED
    BY <1>7, <2>1, <2>2, <2>3 DEF new
<1>13. CallOK'
  BY <1>4 DEF CallOK
<1>14. QED
  BY <1>5, <1>9, <1>11, <1>12, <1>13 DEF HeapInv

\* malloc returns block b, which was not busy and holds what was asked for.
LEMMA HeapReturns ==
    ASSUME HeapInv, pc \in {"walk", "grow"}, NEW b, b \notin Busy(meta, blocks),
           Reserved(meta, blocks, End', b, size, meta', blocks'),
           End' <= HeapLimit,
           MallocReturns(b), halted' = halted
    PROVE  /\ ListInv' /\ UserOK' /\ BusyOK' /\ CallOK'
           /\ alloc_end' \in {0} \cup HeapStart .. HeapLimit /\
                 brk' \in HeapStart .. HeapLimit => TypeOK'
<1> DEFINE new == b + MetaSize
<1>1. /\ ListOK(meta', blocks', End') /\ Offenders(meta', blocks') = {}
      /\ Busy(meta', blocks') = Busy(meta, blocks) \cup {b}
      /\ \A x \in Busy(meta, blocks) : meta'[x].size = meta[x].size
      /\ meta'[b].size >= size
  BY DEF Reserved
<1>2. ListInv'
  BY <1>1 DEF ListInv, ListOK, Linked, Tiles, EndOf, Offenders
<1>3. b \in blocks' /\ b \in Busy(meta', blocks')
  BY <1>1 DEF Busy
<1>4. /\ b \in Nat /\ b \in Node /\ meta'[b].size \in Nat
      /\ EndOf(meta', b) <= HeapLimit
  BY <1>1, <1>3, ListFacts
<1>5. new \in Nat /\ new <= HeapLimit /\ new - MetaSize = b /\ new # NULL
  BY <1>4, Sorts DEF EndOf, NULL
<1>6. request <= size /\ size \in Nat /\ request \in Nat
      /\ (old # NULL => old \in DOMAIN user /\ request # 0)
  BY Sorts DEF HeapInv, CallOK, TypeOK, Word
<1>7. request <= meta'[b].size
  BY <1>1, <1>4, <1>6
<1>8. new \notin DOMAIN user
  BY <1>5, PointerFacts
<1>9. \A x \in Busy(meta, blocks) : x + MetaSize \in DOMAIN user
  BY DEF HeapInv, BusyOK
<1>10. ASSUME NEW q \in DOMAIN user
       PROVE  /\ q - MetaSize \in Busy(meta', blocks')
              /\ user[q] <= meta'[q - MetaSize].size
  <2>1. q - MetaSize \in Busy(meta, blocks)
        /\ user[q] <= meta[q - MetaSize].size
    BY DEF HeapInv, UserOK
  <2>2. QED
    BY <1>1, <2>1
<1>11. meta' \in [Node -> Header] /\ blocks' \subseteq Addr
  BY <1>1 DEF ListOK
<1>12. 0 \in Word /\ Head \in Node /\ new \in Ptr
  <2> HIDE DEF new
  <2>1. new \in 1 .. HeapLimit
    BY <1>5, Sorts DEF NULL
  <2>2. QED
    BY <2>1, Sorts DEF Word, Ptr
<1>13. halted' \in BOOLEAN
  BY Zenon DEF HeapInv, TypeOK
<1> HIDE DEF new
<1>14. CASE old = NULL
  <2>1. /\ pc' = "idle" /\ block' = Head /\ size' = 0 /\ request' = 0
        /\ user' = GiveTo(user, b) /\ old' = old
    BY <1>14 DEF MallocReturns
  <2>2. /\ DOMAIN user' = DOMAIN user \cup {new}
        /\ \A q \in DOMAIN user' :
              user'[q] = IF q = new THEN request ELSE user[q]
    BY <2>1 DEF GiveTo, new
  <2>3. UserOK'
    <3> SUFFICES ASSUME NEW q \in DOMAIN user'
                 PROVE  /\ q - MetaSize \in Busy(meta', blocks')
                        /\ user'[q] <= meta'[q - MetaSize].size
      BY DEF UserOK, Busy
    <3>1. CASE q = new
      BY <1>3, <1>5, <1>7, <2>2, <3>1
    <3>2. CASE q # new
      BY <1>10, <2>2, <3>2
    <3>3. QED
      BY <3>1, <3>2
  <2>4. BusyOK'
    <3> SUFFICES ASSUME NEW x \in Busy(meta', blocks')
                 PROVE  x + MetaSize \in DOMAIN user'
      BY DEF BusyOK, Busy
    <3>1. QED
      BY <1>1, <1>9, <2>2 DEF new
  <2>5. CallOK'
    BY <1>14, <2>1 DEF CallOK
  <2>6. ASSUME alloc_end' \in {0} \cup HeapStart .. HeapLimit,
               brk' \in HeapStart .. HeapLimit
        PROVE  TypeOK'
    <3>1. \A q \in DOMAIN user' : user'[q] \in Nat /\ q \in Ptr
      BY <1>6, <1>12, <2>2 DEF HeapInv, TypeOK
    <3>2. QED
      BY <1>11, <1>12, <1>13, <2>1, <2>6, <3>1 DEF HeapInv, TypeOK, Header
  <2>7. QED
    BY <1>2, <2>3, <2>4, <2>5, <2>6
<1>15. CASE old # NULL
  <2>1. /\ pc' = "realloc" /\ block' = b /\ UNCHANGED <<size, request, old, user>>
    BY <1>15 DEF MallocReturns
  <2>2. UserOK'
    <3> SUFFICES ASSUME NEW q \in DOMAIN user
                 PROVE  /\ q - MetaSize \in Busy(meta', blocks')
                        /\ user[q] <= meta'[q - MetaSize].size
      BY <2>1 DEF UserOK, Busy
    <3>1. QED
      BY <1>10
  <2>3. BusyOK'
    <3> SUFFICES ASSUME NEW x \in Busy(meta', blocks')
                 PROVE  x + MetaSize \in DOMAIN user \/ x = b
      BY <2>1 DEF BusyOK, Busy
    <3>1. QED
      BY <1>1, <1>9
  <2>4. CallOK'
    <3>1. Busy(meta, blocks)' = Busy(meta', blocks')
      BY DEF Busy
    <3>2. QED
      BY <1>3, <1>6, <1>7, <1>8, <1>15, <2>1, <3>1 DEF CallOK, new
  <2>5. ASSUME alloc_end' \in {0} \cup HeapStart .. HeapLimit,
               brk' \in HeapStart .. HeapLimit
        PROVE  TypeOK'
    BY <1>4, <1>11, <1>13, <2>1, <2>5 DEF HeapInv, TypeOK, Header
  <2>6. QED
    BY <1>2, <2>2, <2>3, <2>4, <2>5
<1>16. QED
  BY <1>14, <1>15

\* One step of the first-fit walk.
LEMMA HeapWalks ==
    ASSUME HeapInv, Walk
    PROVE  HeapInv'
<1> DEFINE b == meta[block].next
           fits == meta[b].free /\ meta[b].size >= size
<1>1. pc = "walk" /\ UNCHANGED <<alloc_end, brk, halted>>
  BY DEF Walk
<1>2. /\ End' = End /\ block \in blocks \cup {Head}
      /\ request <= size /\ size + MetaSize < WordSize /\ size \in Nat
  BY <1>1, Sorts DEF End, HeapInv, CallOK, TypeOK, Word
<1>3. b \in blocks \cup {Tail} /\ b \in Node
  BY <1>2, Sorts DEF HeapInv, ListInv, ListOK, Linked
<1>4. ListOK(meta, blocks, End) /\ Offenders(meta, blocks) = {}
  BY DEF HeapInv, ListInv
<1>5. ASSUME UNCHANGED <<meta, blocks, user, size, old, request>>,
             pc' \in {"walk", "grow"}, block' \in blocks \cup {Head}
      PROVE  HeapInv'
  <2>1. TypeOK'
    BY <1>1, <1>5, Sorts DEF HeapInv, TypeOK
  <2>2. ListInv' /\ BreakOK'
    BY <1>1, <1>2, <1>5 DEF HeapInv, ListInv, BreakOK, Offenders, ListOK,
                            Linked, Tiles, EndOf
  <2>3. Busy(meta, blocks)' = Busy(meta, blocks)
    BY <1>5 DEF Busy
  <2>4. UserOK' /\ BusyOK'
    BY <1>1, <1>5, <2>3 DEF HeapInv, UserOK, BusyOK
  <2>5. CallOK'
    BY <1>1, <1>2, <1>5 DEF HeapInv, CallOK
  <2>6. QED
    BY <2>1, <2>2, <2>4, <2>5 DEF HeapInv
<1>6. CASE b = Tail /\ pc' = "grow" /\ UNCHANGED <<meta, blocks, callVars, user>>
  BY <1>2, <1>5, <1>6 DEF callVars
<1>7. CASE /\ b # Tail /\ block' = b
           /\ UNCHANGED <<meta, blocks, pc, size, old, request, user>>
  BY <1>1, <1>3, <1>5, <1>7
<1>8. CASE /\ b # Tail /\ fits
           /\ blocks' = TakenBlocks(meta, blocks, b, size)
           /\ meta' = Forget(Taken(meta, b, size), blocks')
           /\ MallocReturns(b)
  <2> HIDE DEF b
  <2> DEFINE o == Taken(meta, b, size)
  <2>1. b \in blocks /\ meta[b].free /\ meta[b].size >= size
    BY <1>3, <1>8
  <2>2. Reserved(meta, blocks, End, b, size, o, blocks')
    BY <1>2, <1>4, <1>8, <2>1, TakenList
  <2> HIDE DEF o
  <2>3. ListOK(o, blocks', End)
    BY <2>2 DEF Reserved
  <2>4. meta' = Forget(o, blocks')
    BY <1>8 DEF o
  <2>5. /\ ListOK(meta', blocks', End)
        /\ Offenders(meta', blocks') = Offenders(o, blocks')
        /\ Busy(meta', blocks') = Busy(o, blocks')
        /\ \A x \in blocks' : meta'[x].size = o[x].size
    BY <2>3, <2>4, ForgetSame
  <2>6. \A x \in Busy(meta', blocks') : x \in blocks'
    BY DEF Busy
  <2>7. Reserved(meta, blocks, End, b, size, meta', blocks')
    BY <2>2, <2>5, <2>6 DEF Reserved
  <2>8. b \notin Busy(meta, blocks) /\ End' <= HeapLimit
    BY <1>2, <1>4, <2>1, Sorts DEF Busy, ListOK
  <2>9. /\ ListInv' /\ UserOK' /\ BusyOK' /\ CallOK'
        /\ alloc_end' \in {0} \cup HeapStart .. HeapLimit /\
              brk' \in HeapStart .. HeapLimit => TypeOK'
    BY <1>1, <1>2, <1>8, <2>7, <2>8, HeapReturns
  <2>10. TypeOK'
    BY <1>1, <2>9 DEF HeapInv, TypeOK
  <2>11. BreakOK'
    BY <1>1, <1>2, <2>1 DEF HeapInv, BreakOK
  <2>12. QED
    BY <2>9, <2>10, <2>11 DEF HeapInv
<1>9. QED
  BY <1>6, <1>7, <1>8 DEF Walk

\* The growth loop moves the break only.
LEMMA HeapGrows ==
    ASSUME HeapInv, Grow
    PROVE  HeapInv'
<1>1. /\ pc = "grow" /\ alloc_end' = End
      /\ UNCHANGED <<meta, pc, callVars, user, blocks>>
      /\ \/ brk + SbrkStep <= HeapLimit /\ brk' = brk + SbrkStep
            /\ UNCHANGED halted
         \/ halted' = TRUE /\ UNCHANGED brk
  BY DEF Grow
<1>2. /\ End \in HeapStart .. HeapLimit /\ End <= brk
      /\ brk \in HeapStart .. HeapLimit
  BY DEF HeapInv, ListInv, ListOK, BreakOK
<1>3. SbrkStep \in Nat
  BY MallocAssumption DEF SbrkStep
<1>4. brk' \in HeapStart .. HeapLimit /\ brk <= brk'
  BY <1>1, <1>2, <1>3, Sorts
<1>5. alloc_end' # 0 /\ End' = End
  BY <1>1, <1>2, Sorts DEF End
<1>6. halted' \in BOOLEAN
  BY <1>1, Zenon DEF HeapInv, TypeOK
<1>7. TypeOK'
  BY <1>1, <1>2, <1>4, <1>6 DEF HeapInv, TypeOK, callVars
<1>8. ListInv'
  BY <1>1, <1>5 DEF HeapInv, ListInv, Offenders, ListOK, Linked, Tiles, EndOf
<1>9. BreakOK'
  BY <1>2, <1>4, <1>5, Sorts DEF BreakOK
<1>10. Busy(meta, blocks)' = Busy(meta, blocks)
  BY <1>1 DEF Busy
<1>11. UserOK' /\ BusyOK' /\ CallOK'
  BY <1>1, <1>10 DEF HeapInv, UserOK, BusyOK, CallOK, callVars
<1>12. QED
  BY <1>7, <1>8, <1>9, <1>11 DEF HeapInv

\* A new block at the end of the used heap.
LEMMA HeapAppends ==
    ASSUME HeapInv, Append
    PROVE  HeapInv'
<1> DEFINE f == End + MetaSize + size
<1>1. /\ pc = "grow" /\ ~NeedsRoom
      /\ meta' = Appended(meta, End, size) /\ blocks' = blocks \cup {End}
      /\ alloc_end' = Plus(End, Plus(size, MetaSize))
      /\ MallocReturns(End) /\ UNCHANGED <<brk, halted>>
  BY DEF Append
<1>2. /\ size \in Nat /\ size + MetaSize < WordSize
      /\ End \in HeapStart .. HeapLimit /\ End <= brk
      /\ brk \in HeapStart .. HeapLimit
      /\ ListOK(meta, blocks, End) /\ Offenders(meta, blocks) = {}
  BY <1>1, Sorts DEF HeapInv, CallOK, TypeOK, Word, ListInv, ListOK, BreakOK
<1>3. Plus(size, MetaSize) = size + MetaSize /\ Minus(brk, End) = brk - End
  BY <1>2, Sorts DEF Plus, Minus
<1>4. f <= brk /\ f <= HeapLimit /\ f \in HeapStart .. HeapLimit /\ f # 0
  BY <1>1, <1>2, <1>3, Sorts DEF NeedsRoom
<1>5. alloc_end' = f
  BY <1>1, <1>2, <1>3, <1>4, Sorts DEF Plus
<1>6. End' = f
  BY <1>4, <1>5 DEF End
<1>7. /\ ListOK(meta', blocks', f)
      /\ End \in Addr /\ End \notin blocks
      /\ meta'[End].size = size /\ meta'[End].free = FALSE
      /\ \A x \in blocks \cup {Head, Tail} :
            /\ meta'[x].size = meta[x].size /\ meta'[x].free = meta[x].free
            /\ meta'[x].next = IF x = meta[Tail].prev THEN End ELSE meta[x].next
  <2>1. AppendOf(meta, blocks, End, size, meta')
    BY <1>1, <1>2, <1>4, AppendKeepsList
  <2>2. QED
    BY <1>1, <2>1 DEF AppendOf
<1> HIDE DEF f
<1>8. Busy(meta', blocks') = Busy(meta, blocks) \cup {End}
  BY <1>1, <1>7 DEF Busy
<1>9. Offenders(meta', blocks') = {}
  <2> SUFFICES ASSUME NEW x \in Offenders(meta', blocks') PROVE FALSE
    OBVIOUS
  <2>1. x \in blocks /\ meta[x].free /\ meta'[meta'[x].next].free
    BY <1>1, <1>7 DEF Offenders
  <2>2. meta[x].next \in blocks \cup {Tail}
    BY <1>2, <2>1 DEF ListOK, Linked
  <2>3. meta'[x].next # End
    BY <1>7, <2>1
  <2>4. meta'[x].next = meta[x].next
    BY <1>7, <2>1, <2>3
  <2>5. meta[meta[x].next].free
    BY <1>7, <2>1, <2>2, <2>4
  <2>6. QED
    BY <1>2, <2>1, <2>5 DEF Offenders
<1>10. Reserved(meta, blocks, End', End, size, meta', blocks')
  <2>1. \A x \in Busy(meta, blocks) : meta'[x].size = meta[x].size
    BY <1>7 DEF Busy
  <2>2. meta'[End].size >= size
    BY <1>2, <1>7
  <2>3. QED
    BY <1>6, <1>7, <1>8, <1>9, <2>1, <2>2 DEF Reserved
<1>11. End \notin Busy(meta, blocks) /\ End' <= HeapLimit
  BY <1>4, <1>6, <1>7 DEF Busy
<1>12. /\ ListInv' /\ UserOK' /\ BusyOK' /\ CallOK'
       /\ alloc_end' \in {0} \cup HeapStart .. HeapLimit /\
              brk' \in HeapStart .. HeapLimit => TypeOK'
  BY <1>1, <1>10, <1>11, HeapReturns
<1>13. BreakOK'
  BY <1>1, <1>2, <1>4, <1>5, <1>6 DEF BreakOK
<1>14. TypeOK'
  BY <1>1, <1>2, <1>4, <1>5, <1>12
<1>15. QED
  BY <1>12, <1>13, <1>14 DEF HeapInv

-----------------------------------------------------------------------------
(* The theorems.                                                           *)

LEMMA HeapStep ==
    ASSUME SaneRequests, HeapInv, [Next]_vars
    PROVE  HeapInv'
<1>1. CASE CallMalloc
  <2>1. PICK c \in Sizes : Enter(c, c, NULL)
    BY <1>1 DEF CallMalloc
  <2>2. Idle /\ c \in Nat /\ c + SizeT + MetaSize <= WordSize
    BY <1>1, MallocAssumption DEF CallMalloc, SaneRequests
  <2>3. QED
    BY <2>1, <2>2, HeapEntered
<1>2. CASE CallCalloc
  <2>1. PICK c \in Counts : Enter((c[1] * c[2]) % WordSize, c[1] * c[2], NULL)
    BY <1>2 DEF CallCalloc
  <2> DEFINE k == c[1] * c[2]
  <2>2. Idle /\ k \in Nat /\ k + SizeT + MetaSize <= WordSize
    BY <1>2, MallocAssumption DEF CallCalloc, SaneRequests
  <2> HIDE DEF k
  <2>3. (k % WordSize) = k
    BY <2>2, Sorts
  <2>4. Enter(k, k, NULL)
    BY <2>1, <2>3 DEF k
  <2>5. QED
    BY <2>2, <2>4, HeapEntered
<1>3. CASE CallRealloc
  <2>1. PICK c \in Sizes, p \in DOMAIN user : Enter(c, c, p)
    BY <1>3 DEF CallRealloc
  <2>2. Idle /\ c \in Nat /\ c + SizeT + MetaSize <= WordSize /\ c # 0
    BY <1>3, MallocAssumption DEF CallRealloc, SaneRequests
  <2>3. QED
    BY <2>1, <2>2, HeapEntered
<1>4. CASE CallFree
  BY <1>4, HeapFrees
<1>5. CASE Walk
  BY <1>5, HeapWalks
<1>6. CASE Grow
  BY <1>6, HeapGrows
<1>7. CASE Append
  BY <1>7, HeapAppends
<1>8. CASE Realloc
  BY <1>8, HeapReallocs
<1>9. CASE UNCHANGED vars
  <2>1. TypeOK'
    BY <1>9 DEF HeapInv, TypeOK, vars, callVars
  <2>2. ListInv' /\ BreakOK'
    BY <1>9 DEF HeapInv, ListInv, BreakOK, End, Offenders, ListOK, Linked,
                Tiles, EndOf, vars
  <2>3. Busy(meta, blocks)' = Busy(meta, blocks)
    BY <1>9 DEF Busy, vars
  <2>4. UserOK' /\ BusyOK' /\ CallOK'
    BY <1>9, <2>3 DEF HeapInv, UserOK, BusyOK, CallOK, vars, callVars
  <2>5. QED
    BY <2>1, <2>2, <2>4 DEF HeapInv
<1>10. QED
  BY <1>1, <1>2, <1>3, <1>4, <1>5, <1>6, <1>7, <1>8, <1>9 DEF Next, Call, Run

LEMMA HeapHolds == SaneRequests => (Spec => []HeapInv)
<1> SUFFICES ASSUME SaneRequests PROVE Spec => []HeapInv
  OBVIOUS
<1>1. HeapInv /\ [Next]_vars => HeapInv'
  BY HeapStep
<1>2. QED
  BY <1>1, HeapBegins, PTL DEF Spec

(***************************************************************************)
(* The headers of malloc.c tile the used heap and no block is lost,        *)
(* whatever is allocated, split, merged and released in whatever order.    *)
(***************************************************************************)
THEOREM HeapStaysTiled == SaneRequests => (Spec => []HeapTiled)
<1>1. HeapInv => HeapTiled
  <2> SUFFICES ASSUME HeapInv PROVE HeapTiled
    OBVIOUS
  <2>1. ListOK(meta, blocks, End) /\ TypeOK
    BY DEF HeapInv, ListInv
  <2>2. blocks # {} => End = alloc_end
    BY DEF HeapInv, BreakOK, End
  <2>3. \A b \in blocks : Accounted(b)
    BY DEF HeapInv, BusyOK, Busy, Accounted
  <2>4. ASSUME NEW b \in blocks
        PROVE  /\ meta[b].next = IF BlockEnd(b) = alloc_end THEN Tail
                                 ELSE BlockEnd(b)
               /\ meta[b].next \in blocks \cup {Tail}
               /\ meta[b].prev \in blocks \cup {Head}
               /\ meta[meta[b].next].prev = b
               /\ meta[meta[b].prev].next = b
    BY <2>1, <2>2 DEF ListOK, Linked, Tiles, EndOf, BlockEnd
  <2>5. \A b, c \in blocks : b < c => BlockEnd(b) <= c
    BY <2>1 DEF ListOK, Tiles, EndOf, BlockEnd
  <2>6. blocks # {} => meta[Head].next = HeapStart /\ HeapStart \in blocks
    <3> SUFFICES ASSUME blocks # {}
                 PROVE  meta[Head].next = HeapStart /\ HeapStart \in blocks
      OBVIOUS
    <3>1. meta[Head].next = HeapStart
      BY <2>1 DEF ListOK, Tiles
    <3>2. meta[Head].next \in blocks \cup {Tail}
      BY <2>1 DEF ListOK, Linked
    <3>3. HeapStart # Tail
      BY Sorts
    <3>4. QED
      BY <3>1, <3>2, <3>3
  <2>7. QED
    BY <2>1, <2>3, <2>4, <2>5, <2>6 DEF HeapTiled
<1>2. QED
  BY <1>1, HeapHolds, PTL

(***************************************************************************)
(* What malloc, calloc and realloc hand out lies inside the heap, holds    *)
(* what was asked for and shares no byte, header included, with another    *)
(* live allocation.                                                        *)
(***************************************************************************)
THEOREM AllocationsStayDisjoint ==
    SaneRequests => (Spec => []AllocationsDisjoint)
<1>1. HeapInv => AllocationsDisjoint
  <2> SUFFICES ASSUME HeapInv, NEW p \in DOMAIN user
               PROVE  /\ HeapStart + MetaSize <= p /\ p + user[p] <= brk
                      /\ \A q \in DOMAIN user :
                            p < q => p + user[p] + MetaSize <= q
    BY DEF AllocationsDisjoint
  <2> DEFINE b == p - MetaSize
  <2>1. /\ p \in Nat /\ b \in blocks /\ b \in Nat /\ b + MetaSize = p
        /\ user[p] <= meta[b].size /\ user[p] \in Nat
    BY PointerFacts DEF HeapInv, UserOK, TypeOK
  <2>2. ListOK(meta, blocks, End) /\ End <= brk /\ brk \in Nat
    BY Sorts DEF HeapInv, ListInv, BreakOK
  <2> HIDE DEF b
  <2>3. /\ b \in Addr /\ meta[b].size \in Nat /\ EndOf(meta, b) <= End
        /\ EndOf(meta, b) \in Nat /\ End \in Nat
    BY <2>1, <2>2, ListFacts
  <2>4. EndOf(meta, b) = p + meta[b].size
    BY <2>1, <2>3, Sorts DEF EndOf
  <2>5. HeapStart + MetaSize <= p /\ p + user[p] <= brk
    BY <2>1, <2>2, <2>3, <2>4, Sorts
  <2>6. ASSUME NEW q \in DOMAIN user, p < q
        PROVE  p + user[p] + MetaSize <= q
    <3>1. /\ q \in Nat /\ q - MetaSize \in blocks /\ q - MetaSize \in Nat
      BY PointerFacts
    <3>2. b < q - MetaSize
      BY <2>1, <2>6, <3>1, Sorts
    <3>3. EndOf(meta, b) <= q - MetaSize
      BY <2>1, <2>2, <3>1, <3>2 DEF ListOK, Tiles
    <3>4. QED
      BY <2>1, <2>3, <2>4, <3>1, <3>3, Sorts
  <2>7. QED
    BY <2>5, <2>6
<1>2. QED
  BY <1>1, HeapHolds, PTL

(***************************************************************************)
(* free and the split of malloc never leave two free blocks side by side.  *)
(***************************************************************************)
THEOREM FreeBlocksMerged == SaneRequests => (Spec => []FullyCoalesced)
<1>1. HeapInv => FullyCoalesced
  BY DEF HeapInv, ListInv, Offenders, FullyCoalesced
<1>2. QED
  BY <1>1, HeapHolds, PTL

=============================================================================
