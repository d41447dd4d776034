---------------------------- MODULE ProcessCalls ----------------------------
(***************************************************************************)
(* What a process may ask of the nucleus and what comes of it, whoever     *)
(* runs when: the interface at which the support level, written against    *)
(* it, meets the nucleus, which provides it.  Without the turns of         *)
(* ProcessLife: any process that waits for nothing may make the next call. *)
(***************************************************************************)
EXTENDS Integers, PcbQueue

CONSTANTS
    Proc, Test,
    UserSem,    \* the semaphores of the processes
    Event       \* what the nucleus lets a process wait for

VARIABLES
    alive,
    queue,      \* the processes that wait for each semaphore and event
    permits,    \* the V's of each semaphore no P has used
    verdict     \* "none", or why the machine stopped

calls == <<alive, queue, permits, verdict>>

Init ==
    /\ alive = {Test}
    /\ queue = [s \in UserSem \cup Event |-> <<>>]
    /\ permits \in [UserSem -> Nat]
    /\ verdict = "none"

WaitsFor(p, S) == \E s \in S : p \in ToSet(queue[s])

\* SYS1.
Create(child) ==
    /\ child \notin alive
    /\ alive' = alive \cup {child}
    /\ UNCHANGED <<queue, permits, verdict>>

Join(p, s) == queue' = [queue EXCEPT ![s] = InsertProcQ(@, p)]

\* SYS4.
Passeren(p, s) ==
    /\ UNCHANGED <<alive, verdict>>
    /\ IF permits[s] > 0
       THEN permits' = [permits EXCEPT ![s] = @ - 1] /\ UNCHANGED queue
       ELSE Join(p, s) /\ UNCHANGED permits

\* SYS3.
Verhogen(s) ==
    /\ UNCHANGED <<alive, verdict>>
    /\ IF queue[s] = <<>>
       THEN permits' = [permits EXCEPT ![s] = @ + 1] /\ UNCHANGED queue
       ELSE queue' = [queue EXCEPT ![s] = Tail(@)] /\ UNCHANGED permits

\* SYS7, SYS8.
WaitFor(p, e) == UNCHANGED <<alive, permits, verdict>> /\ Join(p, e)

\* SYS2, or a trap nobody handles: one process of the subtree dies and leaves its
\* queue; the machine may stop with the last.
Leave(q, d) == IF d \in ToSet(q) THEN Without(q, d) ELSE q
Die(d) ==
    /\ d \in alive /\ alive' = alive \ {d}
    /\ queue' = [s \in UserSem \cup Event |-> Leave(queue[s], d)]
    /\ \/ UNCHANGED verdict
       \/ alive' = {} /\ verdict' = "halted"
    /\ UNCHANGED permits

Call(p) ==
    /\ verdict = "none" /\ p \in alive /\ ~WaitsFor(p, UserSem \cup Event)
    /\ \/ \E q \in Proc : Create(q) \/ Die(q)
       \/ \E s \in UserSem : Passeren(p, s) \/ Verhogen(s)
       \/ \E e \in Event : WaitFor(p, e)

\* A tick lets all go on that wait for it, a device the first.
Happens(e) ==
    /\ UNCHANGED <<alive, permits, verdict>>
    /\ queue[e] # <<>>
    /\ \/ queue' = [queue EXCEPT ![e] = Tail(@)]
       \/ queue' = [queue EXCEPT ![e] = <<>>]

Halt ==
    /\ alive = {} /\ verdict' = "halted"
    /\ UNCHANGED <<alive, queue, permits>>

\* PANIC of the scheduler.
Deadlock ==
    /\ alive # {} /\ \A p \in alive : WaitsFor(p, UserSem)
    /\ verdict' = "deadlock"
    /\ UNCHANGED <<alive, queue, permits>>

\* The machine may fail, on a P it cannot finish or within a call of its own.
Fail ==
    /\ verdict = "none" /\ verdict' = "failed"
    /\ \/ UNCHANGED permits
       \/ \E s \in UserSem : permits' = [permits EXCEPT ![s] = @ - 1]
    /\ UNCHANGED <<alive, queue>>

Next ==
    \/ \E p \in Proc : Call(p)
    \/ \E e \in Event : Happens(e)
    \/ Halt \/ Deadlock \/ Fail

Spec == Init /\ [][Next]_calls
=============================================================================
