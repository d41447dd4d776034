------------------------------ MODULE ProcQueue ------------------------------
(***************************************************************************)
(* The free list and the process queues of phase1/pcb.c, pointer by        *)
(* pointer: a queue is a circle of pcbs doubly linked by p_next and        *)
(* p_prev and known by its tail, the free list a chain by p_next.          *)
(***************************************************************************)
EXTENDS PcbTable

CONSTANT Queue   \* the variables that hold a tail pointer

VARIABLES
    p_next, p_prev,
    pcbFree_h,
    tp,          \* the tail pointers
    held,        \* pcbs allocated and in no queue
    fault        \* "none", or how an operation failed

vars == <<p_next, p_prev, pcbFree_h, tp, held, fault>>

\* initPcbs frees the pcbs of the static array one after the other.
Init ==
    /\ p_next = Freed(Pcb) /\ pcbFree_h = LastFreed(Pcb)
    /\ p_prev = [p \in Pcb |-> NULL]
    /\ tp = [q \in Queue |-> NULL]
    /\ held = {}
    /\ fault = "none"

\* A load or store through NULL traps; nothing else of the operation happens.
Fails(how) == fault' = how /\ UNCHANGED <<p_next, p_prev, pcbFree_h, tp, held>>

allocPcb ==
    /\ pcbFree_h # NULL
    /\ pcbFree_h' = p_next[pcbFree_h]
    /\ p_next' = [p_next EXCEPT ![pcbFree_h] = NULL]
    /\ p_prev' = [p_prev EXCEPT ![pcbFree_h] = NULL]
    /\ held' = held \cup {pcbFree_h}
    /\ UNCHANGED <<tp, fault>>

freePcb(p) ==
    /\ p \in held
    /\ p_next' = [p_next EXCEPT ![p] = pcbFree_h]
    /\ pcbFree_h' = p
    /\ held' = held \ {p}
    /\ UNCHANGED <<p_prev, tp, fault>>

emptyProcQ(q) == tp[q] = NULL

\* The first pcb of a circle: its two pointers and the tail pointer.
InsertFirst(q, p) ==
    /\ p_next' = [p_next EXCEPT ![p] = p]
    /\ p_prev' = [p_prev EXCEPT ![p] = p]

\* Mutant: the old head still points back to the old tail.
InsertLast_HeadKept(q, p) ==
    /\ p_next' = [p_next EXCEPT ![p] = p_next[tp[q]], ![tp[q]] = p]
    /\ p_prev' = [p_prev EXCEPT ![p] = tp[q]]

\* A further one, between tail and head.
InsertLast(q, p) ==
    /\ p_next' = [p_next EXCEPT ![p] = p_next[tp[q]], ![tp[q]] = p]
    /\ p_prev' = [p_prev EXCEPT ![p] = tp[q], ![p_next[tp[q]]] = p]

insertProcQ(q, p) ==
    /\ p \in held
    /\ IF ~emptyProcQ(q) /\ p_next[tp[q]] = NULL
       THEN Fails("trap")
       ELSE /\ IF emptyProcQ(q) THEN InsertFirst(q, p) ELSE InsertLast(q, p)
            /\ tp' = [tp EXCEPT ![q] = p]
            /\ held' = held \ {p}
            /\ UNCHANGED <<pcbFree_h, fault>>

\* cleanPcb.
Cleaned(ptrs, p) == [ptrs EXCEPT ![p] = NULL]

\* Mutant: the tail pointer keeps the last pcb.
TailAfterRemove_Kept(q) == tp

\* The tail pointers when the head of q has gone: NULL after the last pcb.
TailAfterRemove(q) ==
    LET h == p_next[tp[q]] IN IF p_next[h] = h THEN [tp EXCEPT ![q] = NULL] ELSE tp

\* The head of q is unlinked and returned.
Behead(q) ==
    LET t == tp[q]
        h == p_next[t]
    IN /\ tp' = TailAfterRemove(q)
       /\ held' = held \cup {h}
       /\ IF p_next[h] = h
          THEN p_next' = Cleaned(p_next, h) /\ p_prev' = Cleaned(p_prev, h)
          ELSE /\ p_next' = Cleaned([p_next EXCEPT ![t] = p_next[h]], h)
               /\ p_prev' = Cleaned([p_prev EXCEPT ![p_next[h]] = t], h)
       /\ UNCHANGED <<pcbFree_h, fault>>

removeProcQ(q) ==
    /\ ~emptyProcQ(q)
    /\ IF p_next[tp[q]] = NULL THEN Fails("trap") ELSE Behead(q)

-----------------------------------------------------------------------------
\* The loop of isInQ looks at one pcb after the other and ends, without an
\* answer, at NULL or at a pcb that points to itself.
Steps == 1 .. Cardinality(Pcb)

Seen(q, p) ==
    LET f == Behind(p_next, tp[q])
        Ends(n) == f[n] = NULL \/ p_next[f[n]] = f[n]
    IN \E n \in Steps : f[n] = p /\ \A m \in 1 .. n : ~Ends(m)
LoopEnds(q) ==
    LET f == Behind(p_next, tp[q])
    IN \E n \in Steps : f[n] = NULL \/ p_next[f[n]] = f[n]

\* Mutant: the tail is not compared before the loop.
isInQ_TailUnseen(q, p) ==
    IF emptyProcQ(q) THEN "trap"
    ELSE IF Seen(q, p) THEN "true"
    ELSE IF LoopEnds(q) THEN "false" ELSE "hang"

\* What isInQ(tp, p) does.
isInQ(q, p) ==
    IF emptyProcQ(q) THEN "trap"
    ELSE IF tp[q] = p \/ Seen(q, p) THEN "true"
    ELSE IF LoopEnds(q) THEN "false" ELSE "hang"

\* What outProcQ(&tp, p) does, named as in PcbQueue.
Outcome(q, p) ==
    CASE isInQ(q, p) \in {"trap", "hang"} -> isInQ(q, p)
      [] isInQ(q, p) = "false" -> "absent"
      [] OTHER -> IF p_next[tp[q]] = NULL THEN "trap"
                  ELSE IF p_next[p_next[tp[q]]] # p_next[tp[q]] /\ p = tp[q] THEN "dangling"
                  ELSE "removed"

\* p's neighbours are linked to each other.
Unlink(p) ==
    /\ p_next' = Cleaned([p_next EXCEPT ![p_prev[p]] = p_next[p]], p)
    /\ p_prev' = Cleaned([p_prev EXCEPT ![p_next[p]] = p_prev[p]], p)

\* The tail of several is unlinked too, but only a local variable is moved; what
\* is done with such a queue is not followed.
outProcQ(q, p) ==
    CASE Outcome(q, p) \in {"trap", "hang"} -> Fails(Outcome(q, p))
      [] Outcome(q, p) = "absent" -> UNCHANGED vars
      [] OTHER -> IF p_next[p_next[tp[q]]] = p_next[tp[q]]
                  THEN Behead(q)
                  ELSE /\ Unlink(p)
                       /\ held' = held \cup {p}
                       /\ fault' = IF p = tp[q] THEN "dangling" ELSE fault
                       /\ UNCHANGED <<tp, pcbFree_h>>

Operation ==
    \/ allocPcb
    \/ \E p \in Pcb : freePcb(p)
    \/ \E q \in Queue : removeProcQ(q) \/ \E p \in Pcb : insertProcQ(q, p) \/ outProcQ(q, p)

Next == \/ fault = "none" /\ Operation
        \/ fault # "none" /\ UNCHANGED vars

Spec == Init /\ [][Next]_vars

-----------------------------------------------------------------------------
\* The pcbs of q, head first: from the pcb behind the tail to the tail.
Circle(q) ==
    IF emptyProcQ(q) THEN <<>>
    ELSE LET f == Behind(p_next, tp[q])
         IN IF \E n \in Steps : f[n] = tp[q]
            THEN SubSeq([n \in Steps |-> f[n]], 1,
                        CHOOSE n \in Steps : f[n] = tp[q] /\ \A m \in 1 .. n - 1 : f[m] # tp[q])
            ELSE <<>>

\* The free pcbs, top first.
Chain == LinkedFrom(p_next, pcbFree_h)

\* A queue is a circle through its tail, the same one in both directions, and
\* every pcb is in exactly one place, unless a queue has lost its tail.
WellFormed ==
    fault # "dangling" =>
    /\ \A q \in Queue : ~emptyProcQ(q) =>
        /\ Circle(q) # <<>>
        /\ \A p \in ToSet(Circle(q)) : p_next[p] # NULL /\ p_prev[p_next[p]] = p
    /\ IsInjective(Chain) /\ ToSet(Chain) \cap held = {}
    /\ \A q \in Queue : ToSet(Circle(q)) \cap (ToSet(Chain) \cup held) = {}
    /\ \A q, r \in Queue : q # r => ToSet(Circle(q)) \cap ToSet(Circle(r)) = {}
    /\ Pcb = ToSet(Chain) \cup held \cup UNION {ToSet(Circle(q)) : q \in Queue}

\* outProcQ on the pointers does what PcbQueue, which the nucleus is modelled
\* with, says of the sequence.
Sequences_ == INSTANCE PcbQueue
OutcomePredicted ==
    fault = "none" =>
        \A q \in Queue, p \in Pcb : Outcome(q, p) = Sequences_!OutProcQ(Circle(q), p)

\* The queues and the free list are those the comments promise, until a queue
\* loses its tail.
Lists == INSTANCE PcbLists WITH
    free <- Chain,
    queue <- [q \in Queue |-> Circle(q)]
ListsKept == Lists!Init /\ [][fault' = "dangling" \/ Lists!Next]_(Lists!lists)
=============================================================================
