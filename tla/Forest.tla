------------------------------- MODULE Forest -------------------------------
(***************************************************************************)
(* What the comments of phase1/pcb.c promise of the process trees: every   *)
(* pcb has a list of children, the youngest first.                         *)
(***************************************************************************)
EXTENDS SequencesExt

CONSTANT Pcb

VARIABLE kids    \* the children of each pcb

Init == kids = [p \in Pcb |-> <<>>]

IsChildOf(p, q) == p \in ToSet(kids[q])
IsRoot(p) == \A q \in Pcb : ~IsChildOf(p, q)

insertChild(prnt, p) == IsRoot(p) /\ kids' = [kids EXCEPT ![prnt] = <<p>> \o @]

removeChild(p) == kids[p] # <<>> /\ kids' = [kids EXCEPT ![p] = Tail(@)]

outChild(p) ==
    \E q \in Pcb : \E i \in DOMAIN kids[q] :
        kids[q][i] = p /\ kids' = [kids EXCEPT ![q] = RemoveAt(@, i)]

Next ==
    \E p \in Pcb : removeChild(p) \/ outChild(p) \/ \E prnt \in Pcb : insertChild(prnt, p)

Spec == Init /\ [][Next]_kids
=============================================================================
