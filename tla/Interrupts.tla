----------------------------- MODULE Interrupts -----------------------------
(***************************************************************************)
(* phase2/interrupts.c.  An interrupt is taken when a process runs or the  *)
(* nucleus waits; the handlers run with interrupts off, so each is a step. *)
(***************************************************************************)
EXTENDS NucleusState

Interruptible == kpc \in {"run", "wait"}

\* The pcbs once ioTrapHandler has saved the process it interrupted.  (It does
\* so again before it looks at timeLeft, to the same effect.)
AfterEntry == IF currentProc = NULL THEN pcb ELSE Saved

\* The end of a handler, given the queues and pcbs it made: the interrupted
\* process goes on if it has time left, and to a ready queue otherwise.
Return(queues, saved) ==
    IF currentProc # NULL /\ saved[currentProc].timeLeft > 0
    THEN kpc' = "run" /\ mlpq' = queues
    ELSE /\ kpc' = "schedule"
         /\ mlpq' = IF currentProc = NULL THEN queues
                    ELSE PutInQ(queues, currentProc, saved[currentProc], FALSE)

\* Mutant: p_semAdd is not cleared.
Woken_StillBlocked(r, time) == [r EXCEPT !.timeLeft = @ - time]

\* A process that waited for the clock or a device, charged for the time the
\* handler took.
Woken(r, time) == [r EXCEPT !.p_semAdd = NULL, !.timeLeft = @ - time]

\* putInQ finds a queue for the interrupted process, if it comes to that.
ReturnsSoundly ==
    currentProc # NULL /\ AfterEntry[currentProc].timeLeft <= 0 =>
        TargetSound(AfterEntry[currentProc])

-----------------------------------------------------------------------------
\* Line 1, the processor's local timer.
Expired == [Saved[currentProc] EXCEPT !.totalProcTime = @ + QUANTUM]

ProcTimer ==
    /\ Interruptible
    /\ currentProc # NULL => TargetSound(Expired)
    /\ IF currentProc = NULL
       THEN UNCHANGED <<pcb, mlpq>>
       ELSE /\ pcb' = [pcb EXCEPT ![currentProc] = Expired]
            /\ mlpq' = PutInQ(mlpq, currentProc, Expired, FALSE)
    /\ currentProc' = NULL
    /\ kpc' = "schedule"
    /\ UNCHANGED <<blocked, semVal, stray, tree, softBlockCnt, dying, devices>>

\* Mutants: the loop goes round once more, for the NULL that ended it; only one
\* process is woken, as by any other V.
TickWakes_PastEnd == IF SomeoneWaits(semVal[ClockSem] + 1)
                     THEN Append(blocked[ClockSem], NULL) ELSE <<>>
TickWakes_One == IF SomeoneWaits(semVal[ClockSem] + 1) /\ blocked[ClockSem] # <<>>
                 THEN SubSeq(blocked[ClockSem], 1, 1) ELSE <<>>

\* Line 2, the interval timer: a tick of the pseudo-clock wakes every process
\* that waits for it.  Each goes to MLPQ[0], since waitedForIO is TRUE.
TickWakes == IF SomeoneWaits(semVal[ClockSem] + 1) THEN blocked[ClockSem] ELSE <<>>

TicksSoundly ==
    /\ SomeoneWaits(semVal[ClockSem] + 1) => SemSound(ClockSem)
    /\ TickWakes # <<>> => ReadySound(0)
    /\ ReturnsSoundly

IntervalTimer ==
    /\ Interruptible /\ TicksSoundly
    /\ \E time \in Elapsed :
        LET saved == [p \in Proc |-> IF p \in ToSet(TickWakes)
                                     THEN Woken(AfterEntry[p], time)
                                     ELSE AfterEntry[p]]
        IN /\ pcb' = saved
           /\ Return([mlpq EXCEPT ![0] = @ \o TickWakes], saved)
    /\ softBlockCnt' = softBlockCnt - Len(TickWakes)
    /\ blocked' = [blocked EXCEPT ![ClockSem] = IF TickWakes = <<>> THEN @ ELSE <<>>]
    /\ semVal' = [semVal EXCEPT ![ClockSem] = 0]
    /\ UNCHANGED <<currentProc, stray, tree, dying, devices>>

-----------------------------------------------------------------------------
\* A device finishes its command and raises its interrupt.
DeviceDone(d) ==
    /\ kpc \notin Stopped
    /\ d \in busy
    /\ busy' = busy \ {d}
    /\ pending' = pending \cup {d}
    /\ UNCHANGED <<kpc, currentProc, ready, pcb, tree, softBlockCnt, dying, request>>

\* getLineNumber: the lowest line with an interrupt.
Line == CHOOSE l \in 3 .. 7 : /\ \E d \in pending : d.line = l
                              /\ \A d \in pending : l <= d.line

\* getDevNum compares the bit map with one bit at a time, so two devices of
\* one line make no match.
DevNum == LET nums == {d.num : d \in {e \in pending : e.line = Line}}
          IN IF Cardinality(nums) = 1 THEN CHOOSE n \in nums : TRUE ELSE -1

\* The device register block ioTrapHandler computes from line and number; with
\* number -1 it is that of device 7 on the line before.
RegisterOf(line, num) == DEVPERINT * (line - 3) + num

\* terminalIntr takes the transmitter when t_transm_command > 1: from the
\* command to its acknowledgement.
Transmits(num) == \E d \in busy \cup pending : d.line = 7 /\ d.num = num /\ ~d.recv

\* Mutant: the handler counts the lines from 2.
Acknowledged_Line2 ==
    {d \in pending : RegisterOf(d.line, d.num) = RegisterOf(Line + 1, DevNum)}

\* The interrupt the handler's store acknowledges; one to a busy device is lost.
Acknowledged ==
    {d \in pending :
        /\ RegisterOf(d.line, d.num) = RegisterOf(Line, DevNum)
        /\ Line = 7 => d.recv = ~Transmits(DevNum)}

\* Mutant: the waiting process is removed but the semaphore not incremented.
IncrementDevice_Stuck(s) == semVal

\* V operation on a device semaphore; counts above MaxSem are not told apart.
IncrementDevice(s) == [semVal EXCEPT ![s] = IF @ >= MaxSem THEN @ ELSE @ + 1]

SignalsSoundly ==
    LET s == IntrSem(Line, DevNum) IN
    SemSound(s) /\ (blocked[s] # <<>> => ReadySound(0) /\ ReturnsSoundly)

\* Lines 3 to 7.  Without a waiting process the status is stored through NULL
\* before the interrupt is acknowledged.
DeviceInterrupt ==
    /\ Interruptible
    /\ pending # {}
    /\ SignalsSoundly
    /\ LET s == IntrSem(Line, DevNum)
           p == Head(blocked[s])
       IN /\ semVal' = IncrementDevice(s)
          /\ IF blocked[s] = <<>>
             THEN /\ kpc' = "trap"
                  /\ pcb' = AfterEntry
                  /\ UNCHANGED <<mlpq, blocked, softBlockCnt, pending>>
             ELSE /\ \E time \in Elapsed :
                        LET saved == [AfterEntry EXCEPT ![p] = Woken(@, time)] IN
                        /\ pcb' = saved
                        /\ Return(PutInQ(mlpq, p, saved[p], TRUE), saved)
                  /\ blocked' = [blocked EXCEPT ![s] = Tail(@)]
                  /\ softBlockCnt' = softBlockCnt - 1
                  /\ pending' = pending \ Acknowledged
    /\ UNCHANGED <<currentProc, stray, tree, dying, busy, request>>

\* A queue operation of one of the handlers goes through a stray tail.
InterruptAstray ==
    /\ Interruptible
    /\ \/ currentProc # NULL /\ ~TargetSound(Expired)
       \/ ~TicksSoundly
       \/ pending # {} /\ ~SignalsSoundly
    /\ GoAstray
=============================================================================
