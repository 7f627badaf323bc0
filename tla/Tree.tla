-------------------------------- MODULE Tree --------------------------------
(***************************************************************************)
(* The tree of lib/tree.c, under the device manager and the VFS: a node    *)
(* keeps its parent and the list of its children, the tree the number of   *)
(* its nodes.  A node is the value of one list node at a time, so the two  *)
(* are one element here.                                                   *)
(*                                                                         *)
(* Beside the tree there is one list that is used as a stack and a queue,  *)
(* as the path canonicalizer does; its nodes are Elems.                    *)
(*                                                                         *)
(* All of it runs in thread context.  A node is allocated once: the list   *)
(* nodes of removed tree nodes are never freed.                            *)
(***************************************************************************)
EXTENDS LinkedList, FiniteSets, FiniteSetsExt

CONSTANTS
    Nodes,   \* the tree_node_t nodes that may be allocated
    Root,    \* the one that tree_set_root allocates
    Elems,   \* the nodes of the other list
    Stack    \* the other list

ASSUME TreeAssumption ==
    /\ Root \in Nodes /\ Stack \notin Nodes
    /\ Nodes \cap Elems = {}
    /\ Items = Nodes \cup Elems /\ Lists = Nodes \cup {Stack}

VARIABLES
    root,       \* tree->root
    nodes,      \* tree->nodes
    parent,     \* node -> parent
    allocated,  \* tree nodes and elements that are not freed
    fresh       \* tree nodes that are not allocated yet

treeVars == <<root, nodes, parent, fresh>>
vars == <<list, allocated, treeVars>>

TypeOK ==
    /\ ListTypeOK
    /\ root \in {Null, Root} /\ nodes \in Nat
    /\ parent \in [Nodes -> Nodes \cup {Null}]
    /\ allocated \subseteq Items /\ fresh \subseteq Nodes

Init ==
    /\ list = NoLists
    /\ root = Null /\ nodes = 0
    /\ parent = [n \in Nodes |-> Null]
    /\ allocated = {} /\ fresh = Nodes

\* A node and everything that recursion over foreach reaches from it.
Branch(m, n) ==
    LET reach[k \in 0 .. Cardinality(Nodes)] ==
            IF k = 0 THEN {n}
            ELSE UNION {{x} \cup Range(Forward(m, x)) : x \in reach[k - 1]}
    IN reach[Cardinality(Nodes)]

\* tree_count_children adds up the lengths of the children lists.
CountChildren(m, n) == MapThenSumSet(LAMBDA x : m.length[x], Branch(m, n))

\* Fault: the answer for the first child is returned, found or not.
PreorderFirstChild(n) ==
    LET visit[k \in 0 .. Cardinality(Nodes)] ==
            LET below == visit[k - 1]
            IN [x \in Nodes |->
                  IF k = 0 \/ Forward(list, x) = <<>> THEN <<x>>
                  ELSE <<x>> \o below[Forward(list, x)[1]]]
    IN visit[Cardinality(Nodes)][n]

\* The order in which tree_node_find compares the nodes below n.
Preorder(n) ==
    LET visit[k \in 0 .. Cardinality(Nodes)] ==
            LET below == visit[k - 1]
            IN [x \in Nodes |->
                  IF k = 0 THEN <<x>>
                  ELSE <<x>> \o FlattenSeq([i \in 1 .. Len(Forward(list, x)) |->
                                               below[Forward(list, x)[i]]])]
    IN visit[Cardinality(Nodes)][n]

\* tree_node_find: the first of them that is wanted.
TreeNodeFind(n, wanted) ==
    LET order == Preorder(n)
        hits == {i \in DOMAIN order : order[i] \in wanted}
    IN IF hits = {} THEN Null ELSE order[Min(hits)]

\* tree_find_parent: the node that has n among its children.
TreeFindParent(n) ==
    IF root = Null THEN Null
    ELSE TreeNodeFind(root, {p \in Nodes : ListFind(list, p, n) # Null})

-----------------------------------------------------------------------------

TreeSetRoot ==
    /\ root = Null /\ Root \in fresh
    /\ root' = Root /\ nodes' = 1
    /\ allocated' = allocated \cup {Root} /\ fresh' = fresh \ {Root}
    /\ UNCHANGED <<list, parent>>

\* tree_node_insert_child: tree_node_create and tree_node_insert_child_node.
TreeNodeInsertChild(p, n) ==
    /\ root # Null /\ p \in allocated \cap Nodes /\ n \in fresh
    /\ list' = ListInsert(list, p, n)
    /\ parent' = [parent EXCEPT ![n] = p]
    /\ nodes' = nodes + 1
    /\ allocated' = allocated \cup {n} /\ fresh' = fresh \ {n}
    /\ UNCHANGED root

\* Fault: the children of the node are not freed.
TreeNodeRemoveTop(n) ==
    /\ n \in allocated \cap Nodes /\ parent[n] # Null
    /\ ListFind(list, parent[n], n) # Null
    /\ nodes' = nodes - (CountChildren(list, n) + 1)
    /\ list' = ListDelete(list, parent[n], n)
    /\ allocated' = allocated \ {n}
    /\ UNCHANGED <<root, parent, fresh>>

\* tree_node_remove and tree_node_parent_remove, for a node with a parent.
TreeNodeRemove(n) ==
    /\ n \in allocated \cap Nodes /\ parent[n] # Null
    /\ ListFind(list, parent[n], n) # Null
    /\ nodes' = nodes - (CountChildren(list, n) + 1)
    /\ list' = ListDelete(list, parent[n], n)
    /\ allocated' = allocated \ Branch(list, n)
    /\ UNCHANGED <<root, parent, fresh>>

-----------------------------------------------------------------------------
(* The other list.                                                         *)

Push(x) ==
    /\ x \in Elems \ allocated
    /\ list' = ListInsert(list, Stack, x)
    /\ allocated' = allocated \cup {x}
    /\ UNCHANGED treeVars

PushAfter(before, x) ==
    /\ x \in Elems \ allocated
    /\ before \in {Null} \cup Range(Forward(list, Stack))
    /\ list' = ListInsertAfter(list, Stack, before, x)
    /\ allocated' = allocated \cup {x}
    /\ UNCHANGED treeVars

\* The caller frees the node it gets.
Give(x) ==
    /\ list' = ListDelete(list, Stack, x)
    /\ allocated' = allocated \ {x}
    /\ UNCHANGED treeVars

ListPop == list.tail[Stack] # Null /\ Give(list.tail[Stack])

ListDequeue == list.head[Stack] # Null /\ Give(list.head[Stack])

ListRemove(index) ==
    /\ index < list.length[Stack]
    /\ Give(ListAt(list, Stack, index))

FreeStack ==
    /\ list' = ListFree(list, Stack)
    /\ allocated' = allocated \ Range(Forward(list, Stack))
    /\ UNCHANGED treeVars

-----------------------------------------------------------------------------

TreeStep ==
    \/ TreeSetRoot
    \/ \E p, n \in Nodes : TreeNodeInsertChild(p, n)
    \/ \E n \in Nodes : TreeNodeRemove(n)

StackStep ==
    \/ \E x \in Elems : Push(x)
    \/ \E x \in Elems, before \in ItemOrNull : PushAfter(before, x)
    \/ ListPop \/ ListDequeue \/ FreeStack
    \/ \E index \in 0 .. Cardinality(Elems) : ListRemove(index)

Spec == Init /\ [][TreeStep \/ StackStep]_vars

-----------------------------------------------------------------------------
(* Properties.                                                             *)

InTree == IF root = Null THEN {} ELSE Branch(list, root)

\* The children lists and the parent links agree, on which tree_node_remove
\* relies, and the search of tree_find_parent finds what the link says.
ChildrenKnowParents ==
    \A p \in allocated \cap Nodes :
        /\ Range(Forward(list, p)) = {n \in allocated \cap Nodes : parent[n] = p}
        /\ TreeFindParent(p) = parent[p]

(***************************************************************************)
(* The count that tree_node_parent_remove "updates" from the lengths of    *)
(* the lists is the number of nodes that can be reached, and these are     *)
(* exactly the tree nodes that are not freed: no branch leaks, no child    *)
(* list leads to a freed node, and children and parents know each other.   *)
(***************************************************************************)
NodesCounted ==
    /\ TypeOK /\ ChildrenKnowParents
    /\ nodes = Cardinality(InTree) /\ InTree = allocated \cap Nodes

=============================================================================
