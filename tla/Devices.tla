------------------------------ MODULE Devices -------------------------------
(***************************************************************************)
(* The device manager of device.c on top of the tree of lib/tree.c: the    *)
(* device tree, searched by name and by address, and the status that       *)
(* device_start and device_stop keep.  It runs in thread context beside    *)
(* the other user of the lists, the path canonicalizer's stack.            *)
(*                                                                         *)
(* Callers insert a device record that is not in the tree, and remove one  *)
(* that is, other than the root: the code would follow a null pointer      *)
(* otherwise.  Nothing makes the names of devices differ.  kmain has the   *)
(* call of device_manager_start commented out; drivers call device_start   *)
(* from their own initialisation.                                          *)
(***************************************************************************)
EXTENDS Tree

CONSTANTS
    Devs,          \* the device_t records
    dev_root,      \* the one at the root
    name,          \* their names, not necessarily different ones
    Statics,       \* what device_manager_insert_kernel inserts, in order:
                   \* pairs of a device and its parent
    Driven,        \* devices whose driver has start and stop functions
    Unstoppable    \* those whose stop function reports failure (the PIT)

ASSUME DevicesAssumption ==
    /\ IsFiniteSet(Devs) /\ Null \notin Devs
    /\ dev_root \in Devs /\ Driven \subseteq Devs /\ Unstoppable \subseteq Driven
    /\ Statics \in Seq(Devs \X Devs)
    /\ \A k \in 1 .. Len(Statics) :
          /\ Statics[k][1] # dev_root
          /\ \A j \in 1 .. Len(Statics) : Statics[j][1] = Statics[k][1] => j = k

VARIABLES
    value,      \* tree node -> device
    inserted,   \* how many of Statics device_manager_start has inserted
    status,     \* device -> status
    under       \* history: device in the tree -> device it was put under

devVars == <<value, inserted, status, under>>
devAll == <<vars, devVars>>

Statuses == {"UNSET", "HALTED", "ONLINE", "ABORTED"}

DevTypeOK ==
    /\ value \in [Nodes -> Devs \cup {Null}]
    /\ inserted \in 0 .. Len(Statics)
    /\ status \in [Devs -> Statuses]
    /\ DOMAIN under \subseteq Devs /\ Range(under) \subseteq Devs \cup {Null}

DevInit ==
    /\ Init
    /\ value = [n \in Nodes |-> Null] /\ inserted = 0
    /\ status = [d \in Devs |-> "UNSET"]
    /\ under = [d \in {} |-> Null]

-----------------------------------------------------------------------------
(* The search.                                                             *)

\* tree_find: the first node whose device is in the set.
TreeFind(wanted) == TreeNodeFind(root, {n \in Nodes : value[n] \in wanted})

DeviceSearchNode(nm) == TreeFind({d \in Devs : name[d] = nm})

DeviceSearchTreeNode(d) == TreeFind({d})

-----------------------------------------------------------------------------
(* The device tree.                                                        *)

\* device_manager_insert: the parent is looked up by its name, and the first
\* device that has the name is taken; without one nothing happens.
Insert(d, p) ==
    LET at == DeviceSearchNode(name[p])
    IN \/ at = Null /\ UNCHANGED <<vars, value, under>>
       \/ /\ at # Null
          /\ \E n \in Nodes : /\ TreeNodeInsertChild(at, n)
                              /\ value' = [value EXCEPT ![n] = d]
          /\ under' = [e \in DOMAIN under \cup {d} |->
                          IF e = d THEN value[at] ELSE under[e]]

DeviceManagerStart ==
    /\ inserted = 0
    /\ TreeSetRoot
    /\ value' = [value EXCEPT ![Root] = dev_root]
    /\ under' = [d \in {dev_root} |-> Null]
    /\ UNCHANGED <<inserted, status>>

DeviceManagerInsertKernel ==
    /\ root # Null /\ inserted < Len(Statics)
    /\ Insert(Statics[inserted + 1][1], Statics[inserted + 1][2])
    /\ inserted' = inserted + 1
    /\ UNCHANGED status

\* device_manager_start runs to its end before anything else is called.
Started == root # Null /\ inserted = Len(Statics)
Idle == root = Null \/ Started

DeviceManagerInsert(d, p) ==
    /\ Started /\ d \notin DOMAIN under
    /\ Insert(d, p)
    /\ UNCHANGED <<inserted, status>>

\* The devices that were put below d, directly or not.
Below(d) ==
    LET reach[k \in 0 .. Cardinality(Devs)] ==
            IF k = 0 THEN {d}
            ELSE reach[k - 1] \cup
                     {e \in DOMAIN under : under[e] \in reach[k - 1]}
    IN reach[Cardinality(Devs)]

DeviceManagerRemove(d) ==
    /\ Started /\ d \in DOMAIN under \ {dev_root}
    /\ TreeNodeRemove(DeviceSearchTreeNode(d))
    /\ under' = [e \in DOMAIN under \ Below(d) |-> under[e]]
    /\ UNCHANGED <<value, inserted, status>>

-----------------------------------------------------------------------------
(* Starting and stopping.                                                  *)

\* A start function may fail, as none of the three drivers' does today.
DeviceStart(d) ==
    /\ Idle /\ d \in Driven /\ status[d] # "ONLINE"
    /\ \E result \in {"ONLINE", "ABORTED"} :
          status' = [status EXCEPT ![d] = result]
    /\ UNCHANGED <<vars, value, inserted, under>>

\* A driver that refuses to stop leaves the device online.
DeviceStop(d) ==
    /\ Idle /\ d \in Driven /\ status[d] = "ONLINE"
    /\ status' = [status EXCEPT ![d] =
                     IF d \in Unstoppable THEN "ONLINE" ELSE "HALTED"]
    /\ UNCHANGED <<vars, value, inserted, under>>

-----------------------------------------------------------------------------

DevNext ==
    \/ DeviceManagerStart
    \/ DeviceManagerInsertKernel
    \/ \E d, p \in Devs : DeviceManagerInsert(d, p)
    \/ \E d \in Devs : DeviceManagerRemove(d)
    \/ \E d \in Devs : DeviceStart(d)
    \/ \E d \in Devs : DeviceStop(d)
    \/ Idle /\ StackStep /\ UNCHANGED devVars

DevSpec == DevInit /\ [][DevNext]_devAll

-----------------------------------------------------------------------------
(* Properties.                                                             *)

(***************************************************************************)
(* The searches agree with what callers did.  A device that was put into   *)
(* the tree, and neither removed nor placed below a device that was, is    *)
(* found by its address, under the node of the device that the insertion   *)
(* found; no other device is.  The search for a name finds such a device   *)
(* of that name exactly if there is one, and so the one meant if no other  *)
(* device in the tree shares its name.                                     *)
(***************************************************************************)
DevicesFound ==
    /\ DevTypeOK
    /\ root # Null =>
         \A d \in Devs :
            LET n     == DeviceSearchTreeNode(d)
                m     == DeviceSearchNode(name[d])
                Named == {e \in DOMAIN under : name[e] = name[d]}
            IN /\ d \in DOMAIN under <=> n # Null
               /\ n # Null => value[n] = d
               /\ Named # {} <=> m # Null
               /\ m # Null => value[m] \in Named
               /\ d \in DOMAIN under \ {dev_root} => value[parent[n]] = under[d]

=============================================================================
