-------------------------------- MODULE Asl --------------------------------
(***************************************************************************)
(* The active semaphore list of phase1/asl.c: the descriptors of the       *)
(* semaphores with a waiting process, singly linked in the order of the    *)
(* semaphores' addresses between two dummies, each the owner of a process  *)
(* queue of ProcQueue; and the stack of the descriptors not in use.        *)
(***************************************************************************)
EXTENDS ProcQueue

CONSTANTS
    SemAdd,    \* addresses of semaphores
    MAXINT

VARIABLES
    s_next, s_semAdd,
    semdFree_h,
    p_semAdd

\* The queues of ProcQueue are those of the descriptors.
Semd == Queue
s_procQ == tp

ASL_h == "front"
end == "end"
Node == Semd \cup {ASL_h, end}

\* The table has MAXPROC + 2 descriptors, and there are MAXPROC pcbs.
ASSUME SemdAssumption ==
    /\ IsFiniteSet(Semd) /\ Cardinality(Semd) = Cardinality(Pcb)
    /\ ASL_h \notin Semd /\ end \notin Semd /\ NULL \notin Node
ASSUME SemAddAssumption == MAXINT \in Nat \ {0} /\ SemAdd \subseteq 1 .. MAXINT - 1

\* The table of the descriptors.
Semds == INSTANCE PcbTable WITH Pcb <- Node

asl == <<s_next, s_semAdd, semdFree_h>>
aslVars == <<asl, p_semAdd, vars>>

AslInit ==
    /\ Init
    /\ s_next = [d \in Node |-> CASE d = ASL_h -> end
                                  [] d = end -> NULL
                                  [] OTHER -> Semds!Freed(Semd)[d]]
    /\ semdFree_h = Semds!LastFreed(Semd)
    /\ s_semAdd = [d \in Node |-> IF d = end THEN MAXINT ELSE 0]
    /\ p_semAdd = [p \in Pcb |-> NULL]

\* Mutant: the search goes one descriptor too far.
Passes_TooFar(d, a) == s_next[s_next[d]] # NULL /\ s_semAdd[s_next[d]] <= a

\* The search for a goes on from d.
Passes(d, a) == s_next[s_next[d]] # NULL /\ s_semAdd[s_next[d]] < a

\* The last descriptor in the list whose semaphore comes before a.
findParent(a) ==
    LET f == Semds!Behind(s_next, ASL_h)
    IN f[CHOOSE n \in 0 .. Cardinality(Semd) : ~Passes(f[n], a) /\ \A m \in 0 .. n - 1 : Passes(f[m], a)]

Child(a) == s_next[findParent(a)]
IsActive(a) == s_semAdd[Child(a)] = a

\* Mutant: the new descriptor goes to the front, whatever its semaphore.
Activate_InFront(a, prnt) ==
    /\ semdFree_h' = s_next[semdFree_h]
    /\ s_next' = [s_next EXCEPT ![semdFree_h] = s_next[ASL_h], ![ASL_h] = semdFree_h]
    /\ s_semAdd' = [s_semAdd EXCEPT ![semdFree_h] = a]

\* popFree, and its descriptor made the child of prnt.  Its queue is empty: the
\* queue was when the descriptor was freed.
Activate(a, prnt) ==
    /\ semdFree_h' = s_next[semdFree_h]
    /\ s_next' = [s_next EXCEPT ![semdFree_h] = s_next[prnt], ![prnt] = semdFree_h]
    /\ s_semAdd' = [s_semAdd EXCEPT ![semdFree_h] = a]

\* Returns TRUE, and does nothing, without a descriptor for a new semaphore.
NoDescriptor(a) == ~IsActive(a) /\ semdFree_h = NULL

insertBlocked(a, p) ==
    /\ p \in held /\ ~NoDescriptor(a)
    /\ p_semAdd' = [p_semAdd EXCEPT ![p] = a]
    /\ IF IsActive(a)
       THEN insertProcQ(Child(a), p) /\ UNCHANGED asl
       ELSE insertProcQ(semdFree_h, p) /\ Activate(a, findParent(a))

\* Mutant: the descriptor is not pushed onto the free ones.
Deactivate_Lost(a) ==
    /\ s_next' = [s_next EXCEPT ![findParent(a)] = s_next[Child(a)]]
    /\ UNCHANGED semdFree_h

\* The list goes round the descriptor of a, which pushFree takes.
Deactivate(a) ==
    /\ s_next' = [s_next EXCEPT ![findParent(a)] = s_next[Child(a)], ![Child(a)] = semdFree_h]
    /\ semdFree_h' = Child(a)

\* roHelper(f, a, p) for an active a, f the action on the queue of its descriptor.
roHelper(f, a) ==
    /\ f
    /\ IF s_procQ'[Child(a)] = NULL
       THEN Deactivate(a) /\ UNCHANGED s_semAdd
       ELSE UNCHANGED asl
    /\ UNCHANGED p_semAdd

removeBlocked(a) == IsActive(a) /\ roHelper(removeProcQ(Child(a)), a)

outBlocked(p) ==
    LET a == p_semAdd[p] IN
    a # NULL /\ IsActive(a) /\ roHelper(outProcQ(Child(a), p), a)

\* allocPcb clears the semaphore's address of the pcb.
AslAllocPcb ==
    /\ allocPcb
    /\ p_semAdd' = [p_semAdd EXCEPT ![pcbFree_h] = NULL]
    /\ UNCHANGED asl

AslFreePcb(p) == freePcb(p) /\ UNCHANGED <<asl, p_semAdd>>

AslNext ==
    \/ /\ fault = "none"
       /\ \/ AslAllocPcb
          \/ \E p \in Pcb : AslFreePcb(p) \/ outBlocked(p)
          \/ \E a \in SemAdd : removeBlocked(a) \/ \E p \in Pcb : insertBlocked(a, p)
    \/ fault # "none" /\ UNCHANGED aslVars

AslSpec == AslInit /\ [][AslNext]_aslVars

-----------------------------------------------------------------------------
Active == Semds!LinkedFrom(s_next, ASL_h)
Free == Semds!LinkedFrom(s_next, semdFree_h)

\* The list is sorted from dummy to dummy, and every descriptor is either in
\* it or free.
Sorted ==
    /\ Head(Active) = ASL_h /\ Last(Active) = end
    /\ \A i \in 1 .. Len(Active) - 1 : s_semAdd[Active[i]] < s_semAdd[Active[i + 1]]
    /\ IsInjective(Active \o Free)
    /\ ToSet(Active \o Free) = Node

\* The list is sound, a descriptor is active exactly while a process waits in
\* its queue, and the waiting process knows the semaphore; the queue that has
\* lost its tail excepted.
ListSound ==
    /\ Sorted
    /\ fault # "dangling" =>
        /\ \A d \in Semd : d \in ToSet(Active) <=> Circle(d) # <<>>
        /\ \A d \in Semd : \A p \in ToSet(Circle(d)) : p_semAdd[p] = s_semAdd[d]

\* A process that is about to wait always finds a descriptor: insertBlocked
\* never answers TRUE, on which sys4, sys7 and sys8 PANIC.
DescriptorLeft == fault = "none" /\ held # {} => \A a \in SemAdd : ~NoDescriptor(a)

\* To its callers the list is one queue for every semaphore, until a queue loses
\* its tail.
WaitingFor(a) == LET d == Child(a) IN IF s_semAdd[d] = a THEN Circle(d) ELSE <<>>
Queues == INSTANCE PcbLists WITH
    Queue <- SemAdd,
    free <- Chain,
    queue <- [a \in SemAdd |-> WaitingFor(a)]
QueuesKept == Queues!Init /\ [][fault' = "dangling" \/ Queues!Next]_(Queues!lists)
=============================================================================
