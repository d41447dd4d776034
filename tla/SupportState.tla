---------------------------- MODULE SupportState ----------------------------
(***************************************************************************)
(* The support level (phase3): test(), the user processes it creates and   *)
(* the handlers that run on their behalf.  The nucleus is reduced to what  *)
(* these use of it: SYS3 and SYS4 on the semaphores of initProc.c, SYS7    *)
(* and SYS8, passing up, and a scheduler that may switch to another        *)
(* process whenever the running one has its interrupts on.                 *)
(*                                                                         *)
(* pc tells where in the source a process is.  status is the part of the   *)
(* status register that matters: "virtual" has interrupts and address      *)
(* translation on, "real" interrupts only, "off" neither (ALL_OFF).        *)
(***************************************************************************)
EXTENDS Integers, FiniteSets, SequencesExt

CONSTANTS
    MAXUPROC,
    NUMOFSWAMP,
    KUSEGPTESIZE,
    Blocks,           \* Blocks[a]: the number of blocks on the tape of a
    NULL,
    TicksPerSecond,   \* 10 in userSyscallHandler
    MaxVersion,       \* bound: how often a page is written to, loading included
    UserCall,         \* workload: SYS calls of a program, [no, s, n]
    Segment,          \* workload: the segments a program uses
    ProgramErrors,    \* workload: may a program trap or use a bad address?
    FaultAfterCall,   \* workload: may a program page-fault after a SYS call?
    DeviceErrors      \* workload: the commands that may end in an error

Test == 0
Asid == 1 .. MAXUPROC
Proc == {Test} \cup Asid
Page == 0 .. KUSEGPTESIZE - 1
Frame == 0 .. NUMOFSWAMP - 1

\* Devices, by line and number.
Disk0 == <<"disk", 0>>
Tape(a) == <<"tape", a - 1>>
Printer(a) == <<"printer", a - 1>>
Terminal(a) == <<"terminal", a - 1>>
Device == {Disk0} \cup {Tape(a) : a \in Asid} \cup {Printer(a) : a \in Asid}
            \cup {Terminal(a) : a \in Asid}

\* The semaphores; of deviceMutex[7][8] only the element of disk 0 is used.
masterSem == <<"masterSem", 0>>
swampMutex == <<"swampMutex", 0>>
diskMutex == <<"deviceMutex", 0>>
Semaphore == {masterSem, swampMutex, diskMutex}
Clock == <<"clock", 0>>

\* Where a user string lies: in a page of segment 2, or at ENDOS or below.
EndOS == -1

ASSUME SizeAssumption ==
    /\ MAXUPROC \in 1 .. 8 /\ NUMOFSWAMP \in Nat \ {0} /\ KUSEGPTESIZE \in Nat \ {0}
    /\ Blocks \in [Asid -> 1 .. KUSEGPTESIZE]
    /\ TicksPerSecond \in Nat /\ MaxVersion \in Nat \ {0}
    /\ NULL \notin Proc \cup Frame \cup [asid : Asid, page : Page]
ASSUME WorkloadAssumption ==
    /\ UserCall \subseteq [no : {n \in Nat : n > 8}, s : Page \cup {EndOS}, n : Int]
    /\ Segment \subseteq {2, 3}
    /\ ProgramErrors \in BOOLEAN /\ FaultAfterCall \in BOOLEAN
    /\ DeviceErrors \subseteq {"readTape", "seek", "writeBuffer", "write", "read", "char"}

VARIABLES
    kernel,          \* "up", or how the machine stopped
    masked,          \* the process that runs with interrupts off
    pc, io, status, currentStatus,
    sem, blocked,    \* value of each semaphore; who waits for what, in order
    local,           \* the variables of the handlers of each process
    tlbNew,          \* unew_trap[TLBTYPE] of each process
    swamp, victim,   \* the swap pool and the static of pickAVictim
    pte, tlb,        \* page tables; translations the processor may still use
    ram, disk, arm,  \* frames of the swap pool; [cylinder][head]; disk 0's arm
    buffer, tapePos, \* tape buffers; blocks read from each tape
    busy, reply      \* the command of each device; what SYS8 last returned

machine == <<kernel, masked, currentStatus>>
waiting == <<sem, blocked>>
paging == <<swamp, victim, pte, tlb>>
storage == <<ram, disk, arm, buffer, tapePos>>
devices == <<busy, reply>>
vars == <<machine, pc, io, status, waiting, local, tlbNew, paging, storage, devices>>

\* The content of a block: a page of a process, after so many stores to it.
Content(a, p, v) == [asid |-> a, page |-> p, version |-> v]
Blank == Content(0, 0, 0)

NoFault == [seg |-> 2, page |-> 0, cause |-> 2]
NoCall == [no |-> 0, s |-> 0, n |-> 0]
Unused == [fault |-> NoFault, vic |-> 0, call |-> NoCall, count |-> 0]

-----------------------------------------------------------------------------
Waits(p) == \E s \in DOMAIN blocked : p \in ToSet(blocked[s])

\* Process p is dispatched, or goes on, at this place of the source.
At(p, place) ==
    /\ kernel = "up" /\ masked \in {NULL, p}
    /\ pc[p] = place /\ ~Waits(p)

Goto(p, place) == pc' = [pc EXCEPT ![p] = place]

\* From here p runs with this status; nobody can interrupt it if that is "off".
RunsWith(p, s) ==
    /\ status' = [status EXCEPT ![p] = s]
    /\ masked' = IF s = "off" THEN p ELSE NULL

Resumes(p) == RunsWith(p, status[p])

\* The nucleus takes the processor away from p until s is signalled.
Sleep(p, s) ==
    /\ blocked' = [blocked EXCEPT ![s] = Append(@, p)]
    /\ masked' = NULL
    /\ UNCHANGED status

\* Mutant: the value before the P is tested.
P_TestsFirst(p, s) ==
    /\ sem' = [sem EXCEPT ![s] = @ - 1]
    /\ IF sem[s] < 0 THEN Sleep(p, s) ELSE Resumes(p) /\ UNCHANGED blocked

\* SYS4.
P(p, s) ==
    /\ sem' = [sem EXCEPT ![s] = @ - 1]
    /\ IF sem[s] - 1 < 0 THEN Sleep(p, s) ELSE Resumes(p) /\ UNCHANGED blocked

\* SYS2 of the running process: the scheduler HALTs with the last.
Dies(p) ==
    /\ Goto(p, "ended")
    /\ kernel' = IF \A q \in Proc \ {p} : pc[q] = "ended" THEN "halted" ELSE kernel

\* SYS3: the process that waited longest goes on behind its P.
V(p, s) ==
    /\ sem' = [sem EXCEPT ![s] = @ + 1]
    /\ blocked' = IF sem[s] + 1 <= 0 THEN [blocked EXCEPT ![s] = Tail(@)] ELSE blocked
    /\ Resumes(p)

\* Mutant: the status is saved and not changed.
TurnOff_SaveOnly(p) == currentStatus' = status[p] /\ Resumes(p)

\* toggleInterrupts(TRUE): the status to return to goes into the one global.
TurnOff(p) == currentStatus' = status[p] /\ RunsWith(p, "off")

\* toggleInterrupts(FALSE).
TurnOn(p) == RunsWith(p, currentStatus) /\ UNCHANGED currentStatus

\* The sequence every command to a device is given with: interrupts off,
\* command, SYS8, interrupts as they were.
DoIO(p, place, commanded, awaited, op, then) ==
    /\ At(p, place)
    /\ UNCHANGED <<kernel, sem, local, tlbNew, paging, storage, reply>>
    /\ \/ /\ io[p] = "command"
          /\ TurnOff(p)
          /\ busy' = [busy EXCEPT ![commanded] = IF @ = NULL THEN op ELSE @]
          /\ io' = [io EXCEPT ![p] = "wait"]
          /\ UNCHANGED <<pc, blocked>>
       \/ /\ io[p] = "wait"
          /\ Sleep(p, awaited)
          /\ io' = [io EXCEPT ![p] = "done"]
          /\ UNCHANGED <<pc, currentStatus, busy>>
       \/ /\ io[p] = "done"
          /\ TurnOn(p)
          /\ io' = [io EXCEPT ![p] = "command"]
          /\ Goto(p, then)
          /\ UNCHANGED <<blocked, busy>>

\* What DoIO leaves to say of a step that gives no command.
NoIO == UNCHANGED <<kernel, io, currentStatus, devices, storage>>

\* Did the last command to a device of this line end with status READY?
Ready(p, line) == reply[p][line]
=============================================================================
