---------------------------- MODULE OrderedArray ----------------------------
(***************************************************************************)
(* arch/x86/lib/ordered_array.c with standard_lessthan_predicate.  Nothing *)
(* in the code bounds size by max_size or the index of a removal by size:  *)
(* the calls modelled are the ones that respect both.                      *)
(***************************************************************************)
EXTENDS Integers, FiniteSets

CONSTANTS
    max_size,    \* the cells allocated
    Items        \* the values inserted

ASSUME OrderedArrayAssumption ==
    max_size \in Nat \ {0} /\ Items \subseteq Nat

VARIABLES
    array,       \* the cells; the last one lies behind the allocation
    size,
    held         \* history: how many of each item are in the array

oaVars == <<array, size, held>>

\* create_ordered_array and place_ordered_array; the cell behind the end is
\* someone else's, here 99.
OaInit ==
    /\ array = [k \in 0 .. max_size |-> IF k = max_size THEN 99 ELSE 0]
    /\ size = 0
    /\ held = [item \in Items |-> 0]

less_than(x, y) == x < y

\* Where the scan stops: the first cell that is not less.
Place(item) ==
    CHOOSE k \in 0 .. size :
        /\ k = size \/ ~less_than(array[k], item)
        /\ \A j \in 0 .. k - 1 : less_than(array[j], item)

\* Fault: the cells above are moved only up to size - 1.
InsertLosesLast(item) ==
    /\ size < max_size
    /\ array' = [k \in 0 .. max_size |->
                    CASE k = Place(item) -> item
                      [] k > Place(item) /\ k < size -> array[k - 1]
                      [] OTHER -> array[k]]
    /\ size' = size + 1
    /\ held' = [held EXCEPT ![item] = @ + 1]

\* insert_ordered_array: the cells from there on move up by one.
InsertItem(item) ==
    /\ size < max_size
    /\ array' = [k \in 0 .. max_size |->
                    CASE k = Place(item) -> item
                      [] k > Place(item) /\ k <= size -> array[k - 1]
                      [] OTHER -> array[k]]
    /\ size' = size + 1
    /\ held' = [held EXCEPT ![item] = @ + 1]

\* remove_ordered_array: the cells above move down by one, and the cell behind
\* the last one with them.
RemoveItem(i) ==
    /\ i < size
    /\ array' = [k \in 0 .. max_size |->
                    IF k \in i .. size - 1 THEN array[k + 1] ELSE array[k]]
    /\ size' = size - 1
    /\ held' = [held EXCEPT ![array[i]] = @ - 1]

OaNext ==
    \/ \E item \in Items : InsertItem(item)
    \/ \E k \in 0 .. max_size - 1 : RemoveItem(k)

OaSpec == OaInit /\ [][OaNext]_oaVars

(***************************************************************************)
(* "An always sorted array" (lib/ordered_array.h): below size the cells    *)
(* ascend and hold exactly the items put in and not removed, repeated ones *)
(* included, and the memory behind the allocation keeps its value.         *)
(***************************************************************************)
ArraySorted ==
    /\ \A k \in 0 .. size - 2 : array[k] <= array[k + 1]
    /\ \A item \in Items :
          Cardinality({k \in 0 .. size - 1 : array[k] = item}) = held[item]
    /\ array[max_size] = 99

=============================================================================
