---------------------------- MODULE NucleusState ----------------------------
(***************************************************************************)
(* The state of the nucleus (phase2/initial.c, phase1) and the helpers its *)
(* handlers share.  kpc says where control is: a process runs ("run"), the *)
(* nucleus is about to choose one ("schedule"), is inside sys2             *)
(* ("terminate"), has itself trapped ("trap"), waits for an interrupt      *)
(* ("wait"), or has stopped: HALT, PANIC for a deadlock, PANIC for another *)
(* reason, an endless loop.                                                *)
(*                                                                         *)
(* SYS2 can free a pcb that the tail pointer of a queue still names        *)
(* (outProcQ, "dangling").  The code goes on, and so does the model, until *)
(* an operation follows that pointer into the free list: "astray".  What   *)
(* the code does from there on is not modelled, and nothing is claimed of  *)
(* it.                                                                     *)
(***************************************************************************)
EXTENDS Integers, FiniteSets, PcbQueue

CONSTANTS
    Proc,             \* the MAXPROC pcbs
    Test,             \* the pcb main() allocates for test()
    NULL,
    UserSem,          \* semaphores of the processes (SYS3, SYS4)
    Device,           \* the devices in use: [line, num, recv]
    QUANTUM,
    Elapsed,          \* lengths of time a process may be charged for
    NewAreaAsid,      \* s_asid and s_cause of the new-state areas: no code
    NewAreaCause,     \*   writes them
    PastLookup,       \* semaphores linked in the nine words after deviceLookup
    MaxSem,           \* workload: no V above this value
    VectorTypes,      \* workload: exception types SYS5 is called for
    KillTrees,        \* workload: may a process with any children die?
    EarlyInterrupts   \* workload: is a device commanded before SYS8 with
                      \*   interrupts on?

\* deviceLookup[row][col], as an index of the flat array.
DEVPERINT == 8
DeviceLookup(row, col) == DEVPERINT * row + col

ClockSem == DeviceLookup(0, 2)

\* Mutant: row line - 1 and not line - 2.
WaitSem_NextRow(d) == DeviceLookup(d.line - 1, d.num)

\* The semaphore sys8 waits on, and the one ioTrapHandler signals, for devNum
\* on a line.
WaitSem(d) == DeviceLookup(d.line - 2 + (IF d.recv THEN 1 ELSE 0), d.num)
IntrSem(line, devNum) == DeviceLookup(line - 2, devNum)

\* The entries of deviceLookup these devices can reach; getDevNum may return -1.
DeviceSem == {ClockSem} \cup {WaitSem(d) : d \in Device}
                \cup {IntrSem(d.line, d.num) : d \in Device}
                \cup {IntrSem(d.line, -1) : d \in Device}
Sem == DeviceSem \cup UserSem

TLBTYPE == 0
PRGMTYPE == 1
SYSTYPE == 2
ExceptionType == {TLBTYPE, PRGMTYPE, SYSTYPE}

ASSUME ProcAssumption == Test \in Proc /\ IsFiniteSet(Proc) /\ NULL \notin Proc
ASSUME SemAssumption ==
    /\ UserSem \cap DeviceSem = {}
    /\ PastLookup \subseteq UserSem
    /\ NULL \notin Sem /\ NewAreaAsid \notin Sem /\ NewAreaAsid # NULL
ASSUME TimeAssumption ==
    QUANTUM \in Nat \ {0} /\ Elapsed \subseteq Nat /\ NewAreaCause \in Int
ASSUME DeviceAssumption ==
    /\ Device \subseteq [line : 3 .. 7, num : 0 .. 7, recv : BOOLEAN]
    /\ \A d \in Device : d.recv => d.line = 7
ASSUME WorkloadAssumption ==
    /\ MaxSem \in Nat /\ VectorTypes \subseteq ExceptionType
    /\ KillTrees \in BOOLEAN /\ EarlyInterrupts \in BOOLEAN

VARIABLES
    kpc,            \* where control is
    currentProc,
    mlpq,           \* MLPQ: the three ready queues
    blocked,        \* the ASL: the queue of each semaphore
    stray,          \* the pcb freed as the tail of each of these queues
    semVal,         \* the value of each semaphore
    pcb,            \* the fields of each pcb the nucleus reads
    kids,           \* the children of each pcb, p_child first
    free,           \* pcbFree
    procCnt, softBlockCnt,
    dying,          \* the arguments of the active calls of sys2
    busy,           \* devices that carry out a command
    pending,        \* devices whose interrupt is not acknowledged
    request         \* the device a process commanded and has not waited for

ready == <<mlpq, blocked, semVal, stray>>
tree == <<kids, free, procCnt>>
devices == <<busy, pending, request>>
vars == <<kpc, currentProc, ready, pcb, tree, softBlockCnt, dying, devices>>

Stopped == {"halted", "deadlock", "panic", "hung", "astray"}

StrayTails == [ready : [0 .. 2 -> Proc \cup {NULL}], blocked : [Sem -> Proc \cup {NULL}]]

PcbFields == [p_semAdd : Sem \cup {NULL, NewAreaAsid}, totalProcTime : Int,
              timeLeft : Int, sysCallFlag : SUBSET ExceptionType]

\* allocPcb's initial values, with those main() and sys1 then store.
FreshPcb == [p_semAdd |-> NULL, totalProcTime |-> 0, timeLeft |-> QUANTUM,
             sysCallFlag |-> {}]

-----------------------------------------------------------------------------
\* main() stores ALL_OFF in s_status of every new-state area.
NewAreaStatus == 0

\* moveState copies 34 registers where a state_t has 31.  The three words read
\* past an old-state area are s_asid, s_cause and s_status of the new-state
\* area behind it; the three written past p_s are p_semAdd, totalProcTime and
\* timeLeft.
MoveState(r) == [r EXCEPT !.p_semAdd = NewAreaAsid,
                          !.totalProcTime = NewAreaCause,
                          !.timeLeft = NewAreaStatus]

\* Every pcb, after the handler saved the state of the running process.
Saved == [pcb EXCEPT ![currentProc] = MoveState(@)]

\* putInQ.  waitedForIO is only ever TRUE between the two statements of a
\* handler that set it and call putInQ, so it is an argument here.
QueueFor(totalProcTime, waitedForIO) ==
    IF totalProcTime < QUANTUM \/ waitedForIO THEN 0
    ELSE IF totalProcTime < 4 * QUANTUM THEN 1 ELSE 2

PutInQ(q, p, r, waitedForIO) ==
    [q EXCEPT ![QueueFor(r.totalProcTime, waitedForIO)] = InsertProcQ(@, p)]

\* Mutant: the last waiting process is forgotten.
SomeoneWaits_Strict(value) == value < 0

\* The test every V makes on the incremented semaphore.
SomeoneWaits(value) == value <= 0

\* A process is executing instructions: no interrupt is waiting to be taken.
Running == kpc = "run" /\ pending = {}

Idle(d) == d \notin busy \cup pending

(***************************************************************************)
(* A queue with a stray tail: the processes of its sequence are linked to  *)
(* each other but not reached from the pointer, which leads through the    *)
(* freed pcb into the free list.                                           *)
(***************************************************************************)
ReadySound(i) == stray.ready[i] = NULL
SemSound(s) == stray.blocked[s] = NULL
Intact == (\A i \in 0 .. 2 : ReadySound(i)) /\ \A s \in Sem : SemSound(s)

\* putInQ finds a queue for r.
TargetSound(r) == ReadySound(QueueFor(r.totalProcTime, FALSE))

\* A descriptor of the ASL is in use for s.
HasSemd(s) == blocked[s] # <<>> \/ ~SemSound(s)

\* An operation other than outProcQ reads or writes through a stray tail.
GoAstray ==
    /\ kpc' = "astray"
    /\ UNCHANGED <<currentProc, ready, pcb, tree, softBlockCnt, dying, devices>>

\* sys2(p) is called by a handler, with the pcbs as saved.
CallSys2(saved) ==
    /\ kpc' = "terminate"
    /\ dying' = <<currentProc>>
    /\ pcb' = saved
    /\ UNCHANGED <<currentProc, ready, tree, softBlockCnt>>

\* The handler resumes the process it interrupted, with the pcbs as saved.
Resume(saved) ==
    /\ pcb' = saved
    /\ UNCHANGED <<kpc, currentProc, ready, tree, softBlockCnt, dying>>

-----------------------------------------------------------------------------
\* main(): one process, test, is ready; every semaphore of the nucleus is 0.
Init ==
    /\ kpc = "schedule"
    /\ currentProc = NULL
    /\ mlpq = PutInQ([i \in 0 .. 2 |-> <<>>], Test, FreshPcb, FALSE)
    /\ blocked = [s \in Sem |-> <<>>]
    /\ stray = [ready |-> [i \in 0 .. 2 |-> NULL], blocked |-> [s \in Sem |-> NULL]]
    /\ \E init \in [UserSem -> 0 .. MaxSem] :
          semVal = [s \in Sem |-> IF s \in UserSem THEN init[s] ELSE 0]
    /\ pcb = [p \in Proc |-> FreshPcb]
    /\ kids = [p \in Proc |-> <<>>]
    /\ free = Proc \ {Test}
    /\ procCnt = 1
    /\ softBlockCnt = 0
    /\ dying = <<>>
    /\ busy = {} /\ pending = {}
    /\ request = [p \in Proc |-> NULL]
=============================================================================
