------------------------------- MODULE Loader -------------------------------
(***************************************************************************)
(* phase3/initProc.c: test() creates the user processes and waits for      *)
(* their end; professor() and readAndStore() prepare each and copy its     *)
(* tape to disk 0, block i to cylinder i, under the head of the process.   *)
(***************************************************************************)
EXTENDS SupportState

\* test(): semaphores, swap pool and page tables, before the first child.
\* The places of test() are its loops: child i is created, end i awaited.
Init ==
    /\ kernel = "up" /\ masked = NULL /\ currentStatus = "real"
    /\ pc = [p \in Proc |-> IF p = Test THEN "create" ELSE "unborn"]
    /\ io = [p \in Proc |-> "command"]
    /\ status = [p \in Proc |-> "real"]
    /\ sem = [s \in Semaphore |-> IF s = masterSem THEN 0 ELSE 1]
    /\ blocked = [s \in Semaphore \cup {Clock} \cup Device |-> <<>>]
    /\ local = [p \in Proc |-> Unused]
    /\ tlbNew = [a \in Asid |-> "unset"]
    /\ swamp = [f \in Frame |-> NULL] /\ victim = 0
    /\ pte = [a \in Asid |-> [p \in Page |-> NULL]] /\ tlb = {}
    /\ ram = [f \in Frame |-> Blank]
    /\ disk = [c \in Page |-> [a \in Asid |-> Blank]] /\ arm = 0
    /\ buffer = [a \in Asid |-> Blank] /\ tapePos = [a \in Asid |-> 0]
    /\ busy = [d \in Device |-> NULL]
    /\ reply = [a \in Asid |-> [line \in {"disk", "tape", "printer", "terminal"} |-> TRUE]]

\* The loop counter i of test().
Counted == local[Test].count
Count(p, n) == local' = [local EXCEPT ![p].count = n]

\* One round of the first loop: SYS1 for the child with asid i + 1.
CreateChild ==
    /\ At(Test, "create")
    /\ pc' = [pc EXCEPT ![Counted + 1] = "professor",
                        ![Test] = IF Counted + 1 < MAXUPROC THEN "create" ELSE "await"]
    /\ Count(Test, IF Counted + 1 < MAXUPROC THEN Counted + 1 ELSE 0)
    /\ Resumes(Test)
    /\ UNCHANGED <<waiting, tlbNew, paging>> /\ NoIO

\* Mutants: one P too many, one too few.
Awaited_TooMany == Counted + 1 > MAXUPROC
Awaited_TooFew == Counted + 2 >= MAXUPROC

\* The last child that is waited for.
Awaited == Counted + 1 = MAXUPROC

\* One round of the second: "wait for the other procs to finish".
AwaitChild ==
    /\ At(Test, "await")
    /\ P(Test, masterSem)
    /\ Goto(Test, IF Awaited THEN "sys2" ELSE "await")
    /\ Count(Test, Counted + 1)
    /\ UNCHANGED <<tlbNew, paging>> /\ NoIO

\* SYS2 at the end of test().  A child may be left between its V and its own
\* SYS2.  moveState has overrun its p_semAdd, so sys2 takes it out of the tree and
\* traps on it; prgTrapHandler ends test() alone, and the child goes on (the
\* nucleus's part of this is TerminateProcess, NestedTrap in Syscalls).
EndTest ==
    /\ At(Test, "sys2")
    /\ Dies(Test)
    /\ UNCHANGED <<masked, currentStatus, io, status, waiting, local, tlbNew, paging,
                   storage, devices>>

-----------------------------------------------------------------------------
\* professor(): three SYS5 calls, then readAndStore.
SetVectors(a) ==
    /\ At(a, "professor")
    /\ tlbNew' = [tlbNew EXCEPT ![a] = "handler"]
    /\ Goto(a, "tape") /\ Resumes(a)
    /\ UNCHANGED <<waiting, local, paging>> /\ NoIO

currentPage(a) == local[a].count

ReadTape(a) == DoIO(a, "tape", Tape(a), Tape(a), [op |-> "readTape", asid |-> a], "seekLock")

\* Mutant: the semaphore of the disk is not taken.
LockDisk_Free(a, from, to) ==
    /\ At(a, from)
    /\ Resumes(a) /\ Goto(a, to)
    /\ UNCHANGED <<waiting, local, tlbNew, paging>> /\ NoIO

\* A P or V of disk 0's semaphore and the step to the next statement.
LockDisk(a, from, to) ==
    /\ At(a, from)
    /\ P(a, diskMutex) /\ Goto(a, to)
    /\ UNCHANGED <<local, tlbNew, paging>> /\ NoIO

UnlockDisk(a, from, to) ==
    /\ At(a, from)
    /\ V(a, diskMutex) /\ Goto(a, to)
    /\ UNCHANGED <<local, tlbNew, paging>> /\ NoIO

\* Mutant: cylinders are counted from 1.
Seek_OneBased(cylinder) == [op |-> "seek", cylinder |-> cylinder + 1]

\* The commands to disk 0: a cylinder, and the buffer of a process.
Seek(cylinder) == [op |-> "seek", cylinder |-> cylinder]
WriteBuffer(a) == [op |-> "writeBuffer", asid |-> a]

\* The disk's part of a round: the semaphore is given back between the seek
\* and the write, and nothing is written when the seek failed.
StoreBlock(a) ==
    \/ LockDisk(a, "seekLock", "seek")
    \/ DoIO(a, "seek", Disk0, Disk0, Seek(currentPage(a)), "seekUnlock")
    \/ UnlockDisk(a, "seekUnlock", IF Ready(a, "disk") THEN "storeLock" ELSE "stored")
    \/ LockDisk(a, "storeLock", "store")
    \/ DoIO(a, "store", Disk0, Disk0, WriteBuffer(a), "storeUnlock")
    \/ UnlockDisk(a, "storeUnlock", "stored")

\* Mutant: the loop ends one block early.
MoreToRead_Short(a) == tapePos[a] + 1 < Blocks[a]

\* d_data1 of the tape is EOB unless its last block was read.
MoreToRead(a) == tapePos[a] < Blocks[a]

\* The end of a round.
NextBlock(a) ==
    /\ At(a, "stored")
    /\ IF MoreToRead(a) /\ Ready(a, "tape")
       THEN Goto(a, "tape") /\ Count(a, currentPage(a) + 1)
       ELSE Goto(a, "start") /\ Count(a, 0)
    /\ Resumes(a)
    /\ UNCHANGED <<waiting, tlbNew, paging>> /\ NoIO

ReadAndStore(a) == ReadTape(a) \/ StoreBlock(a) \/ NextBlock(a)

\* makeState and LDST: the program starts, with everything on.
StartProgram(a) ==
    /\ At(a, "start")
    /\ Goto(a, "user") /\ RunsWith(a, "virtual")
    /\ reply' = [reply EXCEPT ![a] = [line \in DOMAIN @ |-> TRUE]]
    /\ UNCHANGED <<kernel, io, currentStatus, busy, storage, waiting, local, tlbNew, paging>>

Test_ == CreateChild \/ AwaitChild \/ EndTest
Professor(a) == SetVectors(a) \/ ReadAndStore(a) \/ StartProgram(a)
=============================================================================
