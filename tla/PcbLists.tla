------------------------------ MODULE PcbLists ------------------------------
(***************************************************************************)
(* What the comments of phase1/pcb.c promise of the free list and the      *)
(* process queues: a stack, and queues any element may be taken out of.    *)
(***************************************************************************)
EXTENDS SequencesExt

CONSTANTS Pcb, Queue

VARIABLES
    free,     \* the stack of free pcbs, top first
    queue,    \* each process queue, head first
    held      \* the pcbs in neither

lists == <<free, queue, held>>

Init ==
    /\ free \in SetToSeqs(Pcb)
    /\ queue = [q \in Queue |-> <<>>]
    /\ held = {}

allocPcb ==
    /\ free # <<>>
    /\ held' = held \cup {Head(free)} /\ free' = Tail(free)
    /\ UNCHANGED queue

freePcb(p) ==
    /\ p \in held
    /\ held' = held \ {p} /\ free' = <<p>> \o free
    /\ UNCHANGED queue

insertProcQ(q, p) ==
    /\ p \in held
    /\ held' = held \ {p} /\ queue' = [queue EXCEPT ![q] = Append(@, p)]
    /\ UNCHANGED free

removeProcQ(q) ==
    /\ queue[q] # <<>>
    /\ held' = held \cup {Head(queue[q])} /\ queue' = [queue EXCEPT ![q] = Tail(@)]
    /\ UNCHANGED free

outProcQ(q, p) ==
    /\ held' = held \cup {p}
    /\ \E i \in DOMAIN queue[q] : queue[q][i] = p /\ queue' = [queue EXCEPT ![q] = RemoveAt(@, i)]
    /\ UNCHANGED free

Next == \/ allocPcb
        \/ \E p \in Pcb : freePcb(p)
        \/ \E q \in Queue : removeProcQ(q) \/ \E p \in Pcb : insertProcQ(q, p) \/ outProcQ(q, p)

Spec == Init /\ [][Next]_lists
=============================================================================
