------------------------------ MODULE Nucleus ------------------------------
(***************************************************************************)
(* The nucleus: scheduler, system calls and interrupts over one state, the *)
(* properties that make it correct, and the fairness of its hardware.      *)
(***************************************************************************)
EXTENDS Scheduler, Syscalls, Interrupts

Schedule == Dispatch \/ Recharge \/ NothingReady \/ ScheduleAstray

Sys2 == TakeChild \/ RetireCurrent \/ RetireReady \/ RetireBlocked

Syscall ==
    \/ CreateProcess \/ NoFreePcb \/ TerminateProcess
    \/ \E s \in UserSem : Verhogen(s) \/ Passeren(s)
    \/ \E type \in VectorTypes : SpecifyVector(type)
    \/ GetCpuTime \/ WaitForClock
    \/ \E d \in Device : CommandDevice(d) \/ WaitForIO(d)
    \/ CallAstray

Exception == TlbException \/ ProgramTrap \/ UserModeSyscall \/ HighSyscall

Interrupt == ProcTimer \/ IntervalTimer \/ DeviceInterrupt \/ InterruptAstray

\* HALT, PANIC, the endless loops, and what is not followed any further.
Stop == kpc \in Stopped /\ UNCHANGED vars

Next == \/ Schedule \/ Sys2 \/ NestedTrap \/ Syscall \/ Exception \/ Interrupt
        \/ \E d \in Device : DeviceDone(d)
        \/ Stop

Spec == Init /\ [][Next]_vars

(***************************************************************************)
(* The nucleus's own code runs to its end (interrupts are off), a device   *)
(* finishes what it was told to do, the local timer of a process that      *)
(* keeps running expires, and interrupts that come back as often as those  *)
(* of the interval timer and of an unacknowledged device are taken.  A     *)
(* process need not do anything.                                           *)
(***************************************************************************)
Fairness ==
    /\ WF_vars(Schedule \/ Sys2 \/ NestedTrap)
    /\ WF_vars(ProcTimer)
    /\ SF_vars(IntervalTimer)
    /\ SF_vars(DeviceInterrupt)
    /\ \A d \in Device : WF_vars(DeviceDone(d))

FairSpec == Spec /\ Fairness

-----------------------------------------------------------------------------
\* Every variable has its type.
TypeOK ==
    /\ kpc \in {"run", "schedule", "terminate", "trap", "wait"} \cup Stopped
    /\ currentProc \in Proc \cup {NULL}
    /\ mlpq \in [0 .. 2 -> Seq(Proc)]
    /\ blocked \in [Sem -> Seq(Proc)]
    /\ stray \in StrayTails
    /\ semVal \in [Sem -> Int]
    /\ pcb \in [Proc -> PcbFields]
    /\ kids \in [Proc -> Seq(Proc)]
    /\ free \subseteq Proc
    /\ procCnt \in Int /\ softBlockCnt \in Int
    /\ dying \in Seq(Proc)
    /\ busy \subseteq Device /\ pending \subseteq Device
    /\ request \in [Proc -> Device \cup {NULL}]

Live == Proc \ free

\* The process the processor works for, if there is one.
Active == IF kpc \in {"schedule", "wait", "halted", "deadlock"} THEN {}
          ELSE {currentProc} \ {NULL}

Queues == {mlpq[i] : i \in 0 .. 2} \cup {blocked[s] : s \in Sem}
Waiting(S) == UNION {ToSet(blocked[s]) : s \in S}

\* As long as no tail is stray a pcb is in one place: on the free list, running,
\* or once in one queue.  Each handler unlinks and links pcbs by hand, in several
\* steps.
OnePlace == Intact =>
    /\ \A q \in Queues : IsInjective(q)
    /\ \A i, j \in 0 .. 2 : i # j => ToSet(mlpq[i]) \cap ToSet(mlpq[j]) = {}
    /\ \A s, t \in Sem : s # t => ToSet(blocked[s]) \cap ToSet(blocked[t]) = {}
    /\ LET inReady == UNION {ToSet(mlpq[i]) : i \in 0 .. 2} IN
       /\ inReady \cap Waiting(Sem) = {}
       /\ Active \cap (inReady \cup Waiting(Sem)) = {}
       /\ inReady \cup Waiting(Sem) \cup Active = Live

\* The nucleus has neither followed a stray tail nor given up in a P for which no
\* descriptor was left.
OnCourse == kpc \notin {"astray", "panic"}

\* As long as it is on course, the two counters the scheduler decides by are those
\* of the live processes and of the processes that wait for the clock or a device,
\* whichever of them a stray tail has cut off.
CountsExact == OnCourse =>
    /\ procCnt = Cardinality(Live)
    /\ softBlockCnt = Cardinality(Waiting(DeviceSem))

\* As long as it is on course, a semaphore of the processes tells how many wait:
\* its value is minus that number, and nobody waits while it is not negative.  A
\* kill that leaves a stray tail increments it like any other.
SemaphoresExact == OnCourse =>
    \A s \in UserSem : IF blocked[s] = <<>> THEN semVal[s] >= 0
                       ELSE semVal[s] = - Len(blocked[s])

\* So does every semaphore of the nucleus, which only V's what was P'd.
DeviceSemaphoresExact == \A s \in DeviceSem : semVal[s] = - Len(blocked[s])

\* No wakeup is lost: a process waits for a device exactly while the device
\* works or its interrupt is waiting to be taken.
NoLostWakeup == \A d \in Device : blocked[WaitSem(d)] = <<>> <=> Idle(d)

\* An idle scheduler that has not been led astray gives up only when it is right:
\* HALT when no process is left, PANIC when every process waits for another.
StopIsRight ==
    /\ kpc = "halted" => Live = {}
    /\ kpc = "deadlock" => Live # {} /\ Live = Waiting(UserSem)

\* So it is when it waits: an interrupt that wakes a process is still to come.
VerdictIsRight ==
    /\ StopIsRight
    /\ kpc = "wait" => \/ blocked[ClockSem] # <<>>
                       \/ \E d \in busy \cup pending : blocked[WaitSem(d)] # <<>>

\* Every queue keeps a tail pointer that leads to it (outProcQ: "Update the process
\* queue's tail pointer if necessary").  The nucleus never loops for ever, never runs
\* out of semaphore descriptors, and traps on its own pointers only within a SYS2,
\* which prgTrapHandler then begins again.
NucleusSound ==
    /\ Intact /\ kpc \notin {"hung", "astray", "panic"}
    /\ kpc = "trap" => dying # <<>> /\ currentProc # NULL

\* SYS2: "all progenies of this process are terminated as well".  Whenever
\* a process runs or the nucleus stops, nobody's ancestors are gone.
NoOrphans ==
    kpc \in {"run", "wait", "deadlock"} => \A p \in Live \ {Test} : \E q \in Live : p \in ToSet(kids[q])

\* The tree is made of live processes, each the child of one process at most.
TreeSound ==
    /\ \A p \in Proc : IsInjective(kids[p]) /\ (kids[p] # <<>> => p \in Live)
    /\ \A p, q \in Proc : p # q => ToSet(kids[p]) \cap ToSet(kids[q]) = {}
    /\ \A p \in Proc : ToSet(kids[p]) \subseteq Live

\* getDevNum "returns the device number of the highest priority device in the
\* bitMap": the lowest number with an interrupt on the line.
HighestPriorityDevice ==
    pending # {} => LET nums == {d.num : d \in {e \in pending : e.line = Line}}
                    IN DevNum \in nums /\ \A n \in nums : DevNum <= n

-----------------------------------------------------------------------------
\* A process that waits for a device is made ready again, in the queue of
\* highest priority.
IOCompletes ==
    \A p \in Proc, d \in Device :
        p \in ToSet(blocked[WaitSem(d)]) ~> p \in ToSet(mlpq[0])

\* So is a process that waits for the pseudo-clock.
ClockWakes ==
    \A p \in Proc : p \in ToSet(blocked[ClockSem]) ~> p \in ToSet(mlpq[0])

\* No process starves that the queue of highest priority is for.  One that has
\* used up a quantum may be there when it was woken, and goes down to MLPQ[1]
\* when the scheduler gives it a new one.
TopPriorityRuns ==
    \A p \in Proc : p \in ToSet(mlpq[0]) /\ pcb[p].totalProcTime < QUANTUM
                    ~> (kpc = "run" /\ currentProc = p) \/ p \in free
=============================================================================
