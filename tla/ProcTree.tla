------------------------------ MODULE ProcTree ------------------------------
(***************************************************************************)
(* The process trees of phase1/pcb.c, pointer by pointer: p_child is the   *)
(* youngest child, p_leftSib and p_rightSib link the children of one       *)
(* parent from the youngest to the oldest and back.                        *)
(***************************************************************************)
EXTENDS PcbTable

VARIABLES p_prnt, p_child, p_leftSib, p_rightSib

treeVars == <<p_prnt, p_child, p_leftSib, p_rightSib>>

Nowhere == [p \in Pcb |-> NULL]

TreeInit == p_prnt = Nowhere /\ p_child = Nowhere /\ p_leftSib = Nowhere /\ p_rightSib = Nowhere

emptyChild(p) == p_child[p] = NULL
emptyParent(p) == p_prnt[p] = NULL

\* p has come from allocPcb, as in main and sys1, so it is nobody's child,
\* and has no children yet: the parent is not below it.
insertChild(prnt, p) ==
    /\ p # prnt /\ emptyParent(p) /\ emptyChild(p)
    /\ p_prnt' = [p_prnt EXCEPT ![p] = prnt]
    /\ p_rightSib' = [p_rightSib EXCEPT ![p] = p_child[prnt]]
    /\ p_leftSib' = [q \in Pcb |-> IF q = p THEN NULL
                                   ELSE IF q = p_child[prnt] THEN p
                                   ELSE p_leftSib[q]]
    /\ p_child' = [p_child EXCEPT ![prnt] = p]

\* cleanUpTheChild: c knows neither parent nor siblings.
CleanedUp(ptrs, c) == [ptrs EXCEPT ![c] = NULL]

\* Mutant: the next child still points to the one that has gone.
removeChild_LeftKept(p) ==
    LET c == p_child[p] IN
    /\ ~emptyChild(p)
    /\ p_child' = [p_child EXCEPT ![p] = p_rightSib[c]]
    /\ p_leftSib' = CleanedUp(p_leftSib, c)
    /\ p_rightSib' = CleanedUp(p_rightSib, c)
    /\ p_prnt' = CleanedUp(p_prnt, c)

\* The first child goes; its right sibling, if any, becomes the first.
removeChild(p) ==
    LET c == p_child[p] IN
    /\ ~emptyChild(p)
    /\ p_child' = [p_child EXCEPT ![p] = p_rightSib[c]]
    /\ p_leftSib' = [q \in Pcb |-> IF q \in {c, p_rightSib[c]} THEN NULL ELSE p_leftSib[q]]
    /\ p_rightSib' = CleanedUp(p_rightSib, c)
    /\ p_prnt' = CleanedUp(p_prnt, c)

\* A last child with a left sibling.
OutLast(p) ==
    /\ p_leftSib[p] # NULL /\ p_rightSib[p] = NULL
    /\ p_rightSib' = CleanedUp([p_rightSib EXCEPT ![p_leftSib[p]] = NULL], p)
    /\ p_leftSib' = CleanedUp(p_leftSib, p)

\* Mutant: the left sibling is linked to itself.
OutMiddle_Crossed(p) ==
    /\ p_leftSib[p] # NULL /\ p_rightSib[p] # NULL
    /\ p_leftSib' = CleanedUp([p_leftSib EXCEPT ![p_rightSib[p]] = p_leftSib[p]], p)
    /\ p_rightSib' = CleanedUp([p_rightSib EXCEPT ![p_leftSib[p]] = p_leftSib[p]], p)

\* One between two.
OutMiddle(p) ==
    /\ p_leftSib[p] # NULL /\ p_rightSib[p] # NULL
    /\ p_leftSib' = CleanedUp([p_leftSib EXCEPT ![p_rightSib[p]] = p_leftSib[p]], p)
    /\ p_rightSib' = CleanedUp([p_rightSib EXCEPT ![p_leftSib[p]] = p_rightSib[p]], p)

outChild(p) ==
    /\ ~emptyParent(p)
    /\ \/ p_leftSib[p] = NULL /\ removeChild(p_prnt[p])
       \/ /\ OutLast(p) \/ OutMiddle(p)
          /\ p_prnt' = CleanedUp(p_prnt, p)
          /\ UNCHANGED p_child

TreeNext ==
    \E p \in Pcb : removeChild(p) \/ outChild(p) \/ \E prnt \in Pcb : insertChild(prnt, p)

TreeSpec == TreeInit /\ [][TreeNext]_treeVars

-----------------------------------------------------------------------------
\* Every variable has its type.
TypeOK ==
    /\ p_prnt \in [Pcb -> Pointer] /\ p_child \in [Pcb -> Pointer]
    /\ p_leftSib \in [Pcb -> Pointer] /\ p_rightSib \in [Pcb -> Pointer]

\* Right siblings point back and have the same parent, and so do left ones.
RightSound ==
    \A p \in Pcb : p_rightSib[p] # NULL =>
        p_leftSib[p_rightSib[p]] = p /\ p_prnt[p_rightSib[p]] = p_prnt[p]
LeftSound ==
    \A p \in Pcb : p_leftSib[p] # NULL =>
        p_rightSib[p_leftSib[p]] = p /\ p_prnt[p_leftSib[p]] = p_prnt[p]

\* The first child is the child without a left sibling, and one without a
\* parent has no siblings.
ChildSound ==
    /\ \A p \in Pcb : p_child[p] # NULL => p_prnt[p_child[p]] = p
    /\ \A p \in Pcb : p_prnt[p] # NULL => (p_leftSib[p] = NULL <=> p_child[p_prnt[p]] = p)
    /\ \A p \in Pcb : p_prnt[p] = NULL => p_leftSib[p] = NULL /\ p_rightSib[p] = NULL

\* The four links of every pcb agree with those of its neighbours, so that a
\* pcb outChild is given can be taken out wherever it is.
LinksSound == RightSound /\ LeftSound /\ ChildSound

\* The children of p, the youngest first, as far as the right links lead.
Children(p) == IF emptyChild(p) THEN <<>> ELSE LinkedFrom(p_rightSib, p_child[p])

\* The trees are those the comments promise.
Trees == INSTANCE Forest WITH kids <- [p \in Pcb |-> Children(p)]
TreesKept == Trees!Spec
=============================================================================
