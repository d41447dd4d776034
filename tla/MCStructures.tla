----------------------------- MODULE MCStructures ----------------------------
(***************************************************************************)
(* The linked structures of phase 1 side by side for TLC: the active       *)
(* semaphore list with its process queues, and the process trees.  They    *)
(* link a pcb by fields of their own, so that an operation on one means    *)
(* nothing to the other: in a behaviour one of them is used.               *)
(***************************************************************************)
EXTENDS Asl, ProcTree

CONSTANT InUse    \* bound on the pcbs the semaphore list is used with

VARIABLE used     \* "asl" or "trees"

StructuresInit ==
    /\ used \in {"asl", "trees"}
    /\ AslInit /\ TreeInit

StructuresNext ==
    \/ used = "asl" /\ AslNext /\ Cardinality(Pcb) - Len(Chain') <= InUse /\ UNCHANGED treeVars
    \/ used = "trees" /\ TreeNext /\ UNCHANGED aslVars

StructuresSpec ==
    StructuresInit /\ [][StructuresNext /\ UNCHANGED used]_<<used, treeVars, aslVars>>

Interchangeable == Permutations(Pcb) \cup Permutations(Queue)
=============================================================================
