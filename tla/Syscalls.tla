------------------------------ MODULE Syscalls ------------------------------
(***************************************************************************)
(* phase2/exceptions.c: the eight system calls of the nucleus and the      *)
(* pass-up-or-die exceptions.  Every action is one exception raised by the *)
(* running process, with the whole handler; sys2, which recurses over the  *)
(* children and may itself trap, is a machine of its own.                  *)
(***************************************************************************)
EXTENDS NucleusState

\* SYS1.  The new process takes any free pcb: which one pcbFree_h points to is
\* abstracted.  The result is stored in the old area after moveState saved it,
\* so neither 0 nor -1 reaches the caller.
CreateProcess ==
    /\ Running /\ TargetSound(FreshPcb)
    /\ \E c \in free :
        /\ pcb' = [Saved EXCEPT ![c] = FreshPcb]
        /\ kids' = [kids EXCEPT ![currentProc] = <<c>> \o @]
        /\ mlpq' = PutInQ(mlpq, c, FreshPcb, FALSE)
        /\ free' = free \ {c}
        /\ request' = [request EXCEPT ![c] = NULL]
    /\ procCnt' = procCnt + 1
    /\ UNCHANGED <<kpc, currentProc, blocked, semVal, stray, softBlockCnt, dying, busy,
                   pending>>

NoFreePcb == Running /\ free = {} /\ Resume(Saved) /\ UNCHANGED devices

\* c is ready, has entered the nucleus since it was created or woken (so that
\* moveState has overrun its p_semAdd) and has no children.
Entered(c) == pcb[c].p_semAdd = NewAreaAsid /\ kids[c] = <<>>

\* When a process may die: in a workload without KillTrees, when all its
\* children have entered the nucleus.  Those of phase 3's test have, since
\* test waits for a V of each.
MayDie == KillTrees \/ \A c \in ToSet(kids[currentProc]) : Entered(c)

TerminateProcess == Running /\ MayDie /\ CallSys2(Saved) /\ UNCHANGED devices

-----------------------------------------------------------------------------
\* The process that V wakes leaves a sound queue for another.
WakesSoundly(s) ==
    SomeoneWaits(semVal[s] + 1) =>
        SemSound(s) /\ (blocked[s] # <<>> => TargetSound(pcb[Head(blocked[s])]))

\* SYS3 on a semaphore of the processes.  Without a process to remove the
\* handler stores through the NULL removeBlocked returned.
Verhogen(s) ==
    /\ Running
    /\ semVal[s] < MaxSem
    /\ WakesSoundly(s)
    /\ semVal' = [semVal EXCEPT ![s] = @ + 1]
    /\ IF SomeoneWaits(semVal[s] + 1) /\ blocked[s] # <<>>
       THEN LET p == Head(blocked[s]) IN
            /\ blocked' = [blocked EXCEPT ![s] = Tail(@)]
            /\ pcb' = [Saved EXCEPT ![p].p_semAdd = NULL]
            /\ mlpq' = PutInQ(mlpq, p, pcb[p], FALSE)
       ELSE pcb' = Saved /\ UNCHANGED <<blocked, mlpq>>
    /\ kpc' = IF SomeoneWaits(semVal[s] + 1) /\ blocked[s] = <<>> THEN "trap" ELSE kpc
    /\ UNCHANGED <<currentProc, stray, tree, softBlockCnt, dying, devices>>

\* insertBlocked finds no free descriptor: initASL makes as many as there are
\* pcbs.
NoSemd(s) ==
    /\ ~HasSemd(s)
    /\ Cardinality({t \in Sem : HasSemd(t)}) >= Cardinality(Proc)

\* The blocked process, charged for the time since it was dispatched; only
\* sys7 charges totalProcTime as well.
Charge(r, time, toTotal) ==
    [r EXCEPT !.timeLeft = @ - time,
              !.totalProcTime = IF toTotal THEN @ + time ELSE @]

\* insertBlocked does not link the process behind a stray tail.
JoinsSoundly(s) == semVal[s] - 1 < 0 => SemSound(s)

\* The P operation of sys4, sys7 and sys8.
P(s, soft, toTotal) ==
    /\ JoinsSoundly(s)
    /\ semVal' = [semVal EXCEPT ![s] = @ - 1]
    /\ IF semVal[s] - 1 >= 0
       THEN pcb' = Saved /\ UNCHANGED <<kpc, currentProc, blocked, softBlockCnt>>
       ELSE \E time \in Elapsed :
            IF NoSemd(s)
            THEN /\ kpc' = "panic"
                 /\ pcb' = [Saved EXCEPT ![currentProc] = Charge(@, time, toTotal)]
                 /\ UNCHANGED <<currentProc, blocked, softBlockCnt>>
            ELSE /\ pcb' = [Saved EXCEPT ![currentProc] =
                               [Charge(@, time, toTotal) EXCEPT !.p_semAdd = s]]
                 /\ blocked' = [blocked EXCEPT ![s] = InsertProcQ(@, currentProc)]
                 /\ softBlockCnt' = softBlockCnt + (IF soft THEN 1 ELSE 0)
                 /\ currentProc' = NULL
                 /\ kpc' = "schedule"
    /\ UNCHANGED <<mlpq, stray, tree, dying>>

\* SYS4, SYS7 and SYS8.
Passeren(s) == Running /\ P(s, FALSE, FALSE) /\ UNCHANGED devices

\* sys2 does not give back the P of a process that waited for the clock, so
\* kills drive the semaphore down until the next tick sets it to 0: a bound,
\* never met where nobody waiting is killed.
ClockFloor == - Cardinality(Proc)

WaitForClock ==
    /\ Running
    /\ semVal[ClockSem] > ClockFloor
    /\ P(ClockSem, TRUE, TRUE)
    /\ UNCHANGED devices

\* A process gives a device a command and waits for it.  phase 3 does both
\* with interrupts off (toggleInterrupts), one process per device at a time
\* (deviceMutex); with EarlyInterrupts the command was an earlier step.
MayWaitFor(d) == IF EarlyInterrupts THEN request[currentProc] = d
                 ELSE Idle(d) /\ blocked[WaitSem(d)] = <<>>

WaitForIO(d) ==
    /\ Running
    /\ MayWaitFor(d)
    /\ busy' = IF EarlyInterrupts THEN busy ELSE busy \cup {d}
    /\ request' = [request EXCEPT ![currentProc] = NULL]
    /\ P(WaitSem(d), TRUE, FALSE)
    /\ UNCHANGED pending

\* The earlier step: a store to the device's command register.
CommandDevice(d) ==
    /\ Running /\ EarlyInterrupts
    /\ request[currentProc] = NULL
    /\ Idle(d) /\ blocked[WaitSem(d)] = <<>>
    /\ busy' = busy \cup {d}
    /\ request' = [request EXCEPT ![currentProc] = d]
    /\ UNCHANGED <<kpc, currentProc, ready, pcb, tree, softBlockCnt, dying, pending>>

\* A queue operation of one of these system calls goes through a stray tail.
CallAstray ==
    /\ Running
    /\ \/ free # {} /\ ~TargetSound(FreshPcb)
       \/ \E s \in UserSem : semVal[s] < MaxSem /\ ~WakesSoundly(s)
       \/ \E s \in UserSem \cup {ClockSem} : ~JoinsSoundly(s)
       \/ \E d \in Device : ~JoinsSoundly(WaitSem(d)) /\ MayWaitFor(d)
    /\ GoAstray

-----------------------------------------------------------------------------
\* SYS5: a second vector for the same type of exception is answered by SYS2.
SpecifyVector(type) ==
    /\ Running
    /\ IF type \in pcb[currentProc].sysCallFlag
       THEN MayDie /\ CallSys2(Saved)
       ELSE Resume([Saved EXCEPT ![currentProc].sysCallFlag = @ \cup {type}])
    /\ UNCHANGED devices

\* SYS6: the result goes into the caller's saved state.
GetCpuTime == Running /\ Resume(Saved) /\ UNCHANGED devices

\* passUpOrDieHelper: the process continues at its own handler, or dies.
PassUpOrDie(type, saved) ==
    /\ Running
    /\ IF type \in pcb[currentProc].sysCallFlag
       THEN Resume(saved)
       ELSE MayDie /\ CallSys2(saved)
    /\ UNCHANGED devices

TlbException == PassUpOrDie(TLBTYPE, Saved)
HighSyscall == PassUpOrDie(SYSTYPE, Saved)

\* prgTrapHandler does not save the state of the process; a SYS1 to SYS8 from
\* user mode comes to it after sysCallHandler has.
ProgramTrap == PassUpOrDie(PRGMTYPE, pcb)
UserModeSyscall == PassUpOrDie(PRGMTYPE, Saved)

-----------------------------------------------------------------------------
(***************************************************************************)
(* sys2.  dying holds the arguments of its active calls, the innermost     *)
(* last.                                                                   *)
(***************************************************************************)
Doomed == dying[Len(dying)]

\* The loop: removeChild, and sys2 on the child.
TakeChild ==
    /\ kpc = "terminate"
    /\ kids[Doomed] # <<>>
    /\ dying' = Append(dying, Head(kids[Doomed]))
    /\ kids' = [kids EXCEPT ![Doomed] = Tail(@)]
    /\ UNCHANGED <<kpc, currentProc, ready, pcb, free, procCnt, softBlockCnt, devices>>

\* The end of a call: count, free, and return to the caller.  The handler that
\* made the first call goes on to the scheduler, which reads no currentProc
\* before it writes it (sys5 sets it to NULL, line 133 compares instead).
Bury(p) ==
    /\ procCnt' = procCnt - 1
    /\ free' = free \cup {p}
    /\ dying' = SubSeq(dying, 1, Len(dying) - 1)
    /\ kpc' = IF Len(dying) = 1 THEN "schedule" ELSE kpc

\* outProcQ does not return, or is led astray.
GoesWrong(outcome) ==
    /\ kpc' = IF outcome = "hang" THEN "hung" ELSE outcome
    /\ UNCHANGED <<ready, tree, softBlockCnt, dying>>

Returns == {"removed", "dangling", "absent"}

\* outProcQ on a queue with a stray tail: as long as that pcb is free isInQ runs
\* down the free list to its NULL.
OutAt(q, tail) == IF tail = NULL THEN OutProcQ(q, Doomed)
                  ELSE IF tail \in free THEN "absent" ELSE "astray"

\* Doomed leaves the queue it is in; it does so by being freed if the queue was
\* cut off from its tail before.
Leave(q) == IF Doomed \in ToSet(q) THEN Without(q, Doomed) ELSE q

\* currentProc leaves its parent.
OutChild(p) ==
    [q \in Proc |-> IF p \in ToSet(kids[q]) THEN Without(kids[q], p) ELSE kids[q]]

RetireCurrent ==
    /\ kpc = "terminate" /\ kids[Doomed] = <<>>
    /\ Doomed = currentProc
    /\ kids' = OutChild(Doomed)
    /\ Bury(Doomed)
    /\ UNCHANGED <<currentProc, ready, pcb, softBlockCnt, devices>>

\* A process that does not look blocked is sought in one ready queue after the
\* other, until outProcQ does not return NULL.
SearchEnds == {i \in 0 .. 2 : OutAt(mlpq[i], stray.ready[i]) # "absent"}
FoundAt == IF SearchEnds = {} THEN 2
           ELSE CHOOSE i \in SearchEnds : \A j \in SearchEnds : i <= j

RetireReady ==
    /\ kpc = "terminate" /\ kids[Doomed] = <<>>
    /\ Doomed # currentProc /\ pcb[Doomed].p_semAdd = NULL
    /\ LET outcome == OutAt(mlpq[FoundAt], stray.ready[FoundAt]) IN
       IF outcome \in Returns
       THEN /\ mlpq' = [i \in 0 .. 2 |-> Leave(mlpq[i])]
            /\ stray' = IF outcome = "dangling"
                        THEN [stray EXCEPT !.ready[FoundAt] = Doomed] ELSE stray
            /\ Bury(Doomed)
            /\ UNCHANGED <<blocked, semVal, kids, softBlockCnt>>
       ELSE GoesWrong(outcome)
    /\ UNCHANGED <<currentProc, pcb, devices>>

\* Mutants: the test starts at row 1, and the test is always true.
OnDevice_FromRow1(s) == s \in (DeviceSem \ {ClockSem}) \cup PastLookup
OnDevice_Always(s) == TRUE

\* The test that p_semAdd is a device semaphore runs to deviceLookup[7][8],
\* nine words past the end of the array.
OnDevice(s) == s \in DeviceSem \cup PastLookup

\* One that does is removed from the queue of its semaphore.  The address
\* moveState left in p_semAdd is no semaphore: outBlocked finds nothing and
\* the increment stores to an address that traps.
RetireBlocked ==
    /\ kpc = "terminate" /\ kids[Doomed] = <<>>
    /\ Doomed # currentProc /\ pcb[Doomed].p_semAdd # NULL
    /\ LET s == pcb[Doomed].p_semAdd
           outcome == IF s \notin Sem THEN "trap"
                      ELSE IF ~HasSemd(s) THEN "absent"
                      ELSE OutAt(blocked[s], stray.blocked[s])
       IN IF outcome \in Returns
          THEN /\ blocked' = [blocked EXCEPT ![s] = Leave(@)]
               /\ stray' = IF outcome = "dangling"
                           THEN [stray EXCEPT !.blocked[s] = Doomed] ELSE stray
               /\ IF OnDevice(s)
                  THEN softBlockCnt' = softBlockCnt - 1 /\ UNCHANGED semVal
                  ELSE semVal' = [semVal EXCEPT ![s] = @ + 1] /\ UNCHANGED softBlockCnt
               /\ Bury(Doomed)
               /\ UNCHANGED <<mlpq, kids>>
          ELSE GoesWrong(outcome)
    /\ UNCHANGED <<currentProc, pcb, devices>>

\* A trap inside the nucleus enters prgTrapHandler like any other: it blames
\* the current process, and without one it traps again, for ever.
NestedTrap ==
    /\ kpc = "trap"
    /\ \/ /\ currentProc = NULL
          /\ kpc' = "hung"
          /\ UNCHANGED <<currentProc, ready, pcb, tree, softBlockCnt, dying>>
       \/ /\ currentProc # NULL /\ PRGMTYPE \in pcb[currentProc].sysCallFlag
          /\ kpc' = "run"
          /\ dying' = <<>>
          /\ UNCHANGED <<currentProc, ready, pcb, tree, softBlockCnt>>
       \/ /\ currentProc # NULL /\ PRGMTYPE \notin pcb[currentProc].sysCallFlag
          /\ CallSys2(pcb)
    /\ UNCHANGED devices
=============================================================================
