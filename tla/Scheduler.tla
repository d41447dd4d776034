----------------------------- MODULE Scheduler -----------------------------
(***************************************************************************)
(* phase2/scheduler.c: the multi-level queue.  scheduler() calls itself    *)
(* after it has given a process a new quantum; each call is one step here, *)
(* and interrupts are off during all of them.                              *)
(***************************************************************************)
EXTENDS NucleusState

\* nextProc takes the head of the first queue whose tail pointer is not NULL.
NonEmpty == {i \in 0 .. 2 : mlpq[i] # <<>> \/ ~ReadySound(i)}
NextQueue == CHOOSE i \in NonEmpty : \A j \in NonEmpty : i <= j
NextProc == Head(mlpq[NextQueue])

\* Mutant: the head is read (headProcQ) but not removed.
AfterNextProc_Peek == mlpq

AfterNextProc == [mlpq EXCEPT ![NextQueue] = Tail(@)]

\* The chosen process still has time: it runs.
Dispatch ==
    /\ kpc = "schedule"
    /\ NonEmpty # {} /\ ReadySound(NextQueue)
    /\ pcb[NextProc].timeLeft >= 1
    /\ currentProc' = NextProc
    /\ mlpq' = AfterNextProc
    /\ kpc' = "run"
    /\ UNCHANGED <<blocked, semVal, stray, pcb, tree, softBlockCnt, dying, devices>>

\* It has none: it gets a new quantum and goes to the back of a queue.
Recharge ==
    /\ kpc = "schedule"
    /\ NonEmpty # {} /\ ReadySound(NextQueue)
    /\ pcb[NextProc].timeLeft < 1 /\ TargetSound(pcb[NextProc])
    /\ currentProc' = NextProc
    /\ pcb' = [pcb EXCEPT ![NextProc].timeLeft = QUANTUM]
    /\ mlpq' = PutInQ(AfterNextProc, NextProc, pcb[NextProc], FALSE)
    /\ UNCHANGED <<kpc, blocked, semVal, stray, tree, softBlockCnt, dying, devices>>

\* nextProc goes through a stray tail, or putInQ does after it.
ScheduleAstray ==
    /\ kpc = "schedule"
    /\ NonEmpty # {}
    /\ ReadySound(NextQueue) =>
          pcb[NextProc].timeLeft < 1 /\ ~TargetSound(pcb[NextProc])
    /\ GoAstray

\* Mutant: the test for a deadlock comes first.
IdleState_DeadlockFirst == IF softBlockCnt = 0 THEN "deadlock"
                           ELSE IF procCnt = 0 THEN "halted" ELSE "wait"

\* What to do without a ready process: HALT, PANIC or WAIT.
IdleState == IF procCnt = 0 THEN "halted"
             ELSE IF softBlockCnt = 0 THEN "deadlock" ELSE "wait"

NothingReady ==
    /\ kpc = "schedule"
    /\ NonEmpty = {}
    /\ currentProc' = NULL
    /\ kpc' = IdleState
    /\ UNCHANGED <<ready, pcb, tree, softBlockCnt, dying, devices>>
=============================================================================
