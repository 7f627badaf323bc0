----------------------------- MODULE LinkedList -----------------------------
(***************************************************************************)
(* The doubly linked lists of lib/list.c: list headers with head, tail and *)
(* length, nodes with next and prev.  The operators take and return the    *)
(* state of all lists as one record, so that the callers of list.c (the    *)
(* tree, the path canonicalizer) make one step of several calls.           *)
(***************************************************************************)
EXTENDS Integers, Sequences, FiniteSets, SequencesExt

CONSTANTS
    Lists,   \* the list_t headers
    Items,   \* the list_node_t nodes
    Null

ASSUME ListAssumption == Null \notin Items /\ IsFiniteSet(Items)

VARIABLE list    \* head, tail and length of headers; next and prev of nodes

ItemOrNull == Items \cup {Null}

ListTypeOK ==
    list \in [head : [Lists -> ItemOrNull], tail : [Lists -> ItemOrNull],
              length : [Lists -> Nat],
              next : [Items -> ItemOrNull], prev : [Items -> ItemOrNull]]

\* list_create for every header; nodes start with null links.
NoLists ==
    [head |-> [l \in Lists |-> Null], tail |-> [l \in Lists |-> Null],
     length |-> [l \in Lists |-> 0],
     next |-> [x \in Items |-> Null], prev |-> [x \in Items |-> Null]]

\* The nodes that foreach visits: from head along next.  A chain that does not
\* end is cut after as many nodes as there are.
Walk(start, link) ==
    LET after == [x \in ItemOrNull |-> IF x = Null THEN Null ELSE link[x]]
        at[k \in 1 .. Cardinality(Items) + 1] ==
            IF k = 1 THEN start ELSE after[at[k - 1]]
    IN SubSeq(at, 1, Cardinality({k \in DOMAIN at : at[k] # Null}))

Forward(m, l) == Walk(m.head[l], m.next)
Backward(m, l) == Walk(m.tail[l], m.prev)

-----------------------------------------------------------------------------

\* list_append, for a node that list_insert has just allocated.
ListInsert(m, l, x) ==
    IF m.tail[l] = Null
    THEN [m EXCEPT !.next[x] = Null, !.prev[x] = Null,
                   !.head[l] = x, !.tail[l] = x, !.length[l] = @ + 1]
    ELSE [m EXCEPT !.next = [@ EXCEPT ![x] = Null, ![m.tail[l]] = x],
                   !.prev[x] = m.tail[l],
                   !.tail[l] = x, !.length[l] = @ + 1]

\* list_append_after, for a node that list_insert_after has just allocated.
ListInsertAfter(m, l, before, x) ==
    CASE m.tail[l] = Null -> ListInsert(m, l, x)
      [] m.tail[l] # Null /\ before = Null ->
            [m EXCEPT !.next[x] = m.head[l],
                      !.prev = [@ EXCEPT ![x] = Null, ![m.head[l]] = x],
                      !.head[l] = x, !.length[l] = @ + 1]
      [] m.tail[l] # Null /\ before = m.tail[l] ->
            [m EXCEPT !.next = [@ EXCEPT ![x] = Null, ![before] = x],
                      !.prev[x] = before,
                      !.tail[l] = x, !.length[l] = @ + 1]
      [] OTHER ->
            [m EXCEPT !.next = [@ EXCEPT ![x] = m.next[before], ![before] = x],
                      !.prev = [@ EXCEPT ![m.next[before]] = x, ![x] = before],
                      !.length[l] = @ + 1]

\* A direction of links without x: what pointed to x points past it.
Bypass(link, x, before, after) ==
    [y \in Items |-> IF y = x THEN Null
                     ELSE IF y = before THEN after ELSE link[y]]

\* Fault: the successor keeps its back link.
ListDeleteOneWay(m, l, x) ==
    [m EXCEPT !.head[l] = IF @ = x THEN m.next[x] ELSE @,
              !.tail[l] = IF @ = x THEN m.prev[x] ELSE @,
              !.next = Bypass(@, x, m.prev[x], m.next[x]),
              !.prev[x] = Null,
              !.length[l] = @ - 1]

\* Fault: the head is not compared with the node.
ListDeleteKeepsHead(m, l, x) ==
    [m EXCEPT !.tail[l] = IF @ = x THEN m.prev[x] ELSE @,
              !.next = Bypass(@, x, m.prev[x], m.next[x]),
              !.prev = Bypass(@, x, m.next[x], m.prev[x]),
              !.length[l] = @ - 1]

ListDelete(m, l, x) ==
    [m EXCEPT !.head[l] = IF @ = x THEN m.next[x] ELSE @,
              !.tail[l] = IF @ = x THEN m.prev[x] ELSE @,
              !.next = Bypass(@, x, m.prev[x], m.next[x]),
              !.prev = Bypass(@, x, m.next[x], m.prev[x]),
              !.length[l] = @ - 1]

\* list_find.  A node is its value here.
ListFind(m, l, x) == IF x \in Range(Forward(m, l)) THEN x ELSE Null

\* list_remove's walk: the node at an index below the length.
ListAt(m, l, index) == Forward(m, l)[index + 1]

\* list_destroy, list_free and free: every node that foreach visits, then the
\* header, is given back; the next list_create clears the header.
ListFree(m, l) ==
    [m EXCEPT !.head[l] = Null, !.tail[l] = Null, !.length[l] = 0]

-----------------------------------------------------------------------------

(***************************************************************************)
(* Every list reads the same in both directions, its length is the number  *)
(* of its nodes, and no node is in two lists or twice in one.              *)
(***************************************************************************)
WellLinked ==
    /\ \A l \in Lists : /\ Backward(list, l) = Reverse(Forward(list, l))
                        /\ list.length[l] = Len(Forward(list, l))
                        /\ IsInjective(Forward(list, l))
    /\ \A k, l \in Lists : k # l =>
          Range(Forward(list, k)) \cap Range(Forward(list, l)) = {}

Abstract == INSTANCE ListSeqs WITH seqs <- [l \in Lists |-> Forward(list, l)]

(***************************************************************************)
(* The pointer operations of list.c are the operations on sequences.       *)
(***************************************************************************)
ImplementsSequences == Abstract!Spec

=============================================================================
