---------------------------- MODULE ProcessLife ----------------------------
(***************************************************************************)
(* What the nucleus promises its processes, without its counters, its      *)
(* ready queues or its tree: processes that are born, run one at a time,   *)
(* wait and die; semaphores with permits and a queue first come, first     *)
(* served; events (the clock, the devices) to wait for; and a machine that *)
(* stops when nobody can go on, or fails and says no more.                 *)
(***************************************************************************)
EXTENDS Integers, PcbQueue

CONSTANTS
    Proc, Test,
    UserSem,    \* the semaphores of the processes
    Event       \* what the nucleus lets a process wait for

VARIABLES
    alive,
    running,    \* the process that runs, if any
    queue,      \* the processes that wait for each semaphore and event
    permits,    \* the V's of each semaphore no P has used
    verdict     \* "none", or why the machine stopped

life == <<alive, running, queue, permits, verdict>>

Init ==
    /\ alive = {Test} /\ running = {}
    /\ queue = [s \in UserSem \cup Event |-> <<>>]
    /\ permits \in [UserSem -> Nat]
    /\ verdict = "none"

Waits(p, S) == \E s \in S : p \in ToSet(queue[s])

Create(c) ==
    /\ running # {} /\ c \notin alive
    /\ alive' = alive \cup {c}
    /\ UNCHANGED <<running, queue, permits, verdict>>

Run(p) ==
    /\ verdict = "none" /\ running = {}
    /\ p \in alive /\ ~Waits(p, UserSem \cup Event)
    /\ running' = {p}
    /\ UNCHANGED <<alive, queue, permits, verdict>>

Preempt == running' = {} /\ UNCHANGED <<alive, queue, permits, verdict>>

\* The running process joins the queue of s.
Join(s) ==
    /\ queue' = [queue EXCEPT ![s] = InsertProcQ(@, CHOOSE p \in running : TRUE)]
    /\ running' = {}

Passeren(s) ==
    /\ running # {}
    /\ IF permits[s] > 0
       THEN permits' = [permits EXCEPT ![s] = @ - 1] /\ UNCHANGED <<running, queue>>
       ELSE Join(s) /\ UNCHANGED permits
    /\ UNCHANGED <<alive, verdict>>

Verhogen(s) ==
    /\ running # {}
    /\ IF queue[s] = <<>>
       THEN permits' = [permits EXCEPT ![s] = @ + 1] /\ UNCHANGED queue
       ELSE queue' = [queue EXCEPT ![s] = Tail(@)] /\ UNCHANGED permits
    /\ UNCHANGED <<alive, running, verdict>>

WaitFor(e) == running # {} /\ Join(e) /\ UNCHANGED <<alive, permits, verdict>>

\* An event lets the first of its queue go on, or everybody; the interrupt may
\* end the turn of the running process.
Happens(e) ==
    /\ queue[e] # <<>>
    /\ \/ queue' = [queue EXCEPT ![e] = Tail(@)]
       \/ queue' = [queue EXCEPT ![e] = <<>>]
    /\ running' = running \/ running' = {}
    /\ UNCHANGED <<alive, permits, verdict>>

\* One process dies, by its own call or an ancestor's: it leaves its queue, and
\* its P is undone.
Leave(q, p) == IF p \in ToSet(q) THEN Without(q, p) ELSE q
Die(p) ==
    /\ running # {} /\ p \in alive
    /\ alive' = alive \ {p}
    /\ running' = running \ {p}
    /\ queue' = [s \in UserSem \cup Event |-> Leave(queue[s], p)]
    /\ UNCHANGED <<permits, verdict>>

Halt ==
    /\ alive = {}
    /\ verdict' = "halted"
    /\ UNCHANGED <<alive, running, queue, permits>>

Deadlock ==
    /\ alive # {} /\ \A p \in alive : Waits(p, UserSem)
    /\ verdict' = "deadlock"
    /\ UNCHANGED <<alive, running, queue, permits>>

\* The machine may fail, on a P it cannot finish or within a call of its own; who
\* runs then is left open.
Fail ==
    /\ verdict = "none" /\ verdict' = "failed"
    /\ running' \in SUBSET Proc
    /\ \/ UNCHANGED permits
       \/ \E s \in UserSem : permits' = [permits EXCEPT ![s] = @ - 1]
    /\ UNCHANGED <<alive, queue>>

Next ==
    \/ \E p \in Proc : Create(p) \/ Run(p) \/ Die(p)
    \/ \E s \in UserSem : Passeren(s) \/ Verhogen(s)
    \/ \E e \in Event : WaitFor(e) \/ Happens(e)
    \/ Preempt \/ Halt \/ Deadlock \/ Fail

Spec == Init /\ [][Next]_life
=============================================================================
