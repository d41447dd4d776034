------------------------------- MODULE Support -------------------------------
(***************************************************************************)
(* The support level as a whole: the processes, the devices they use and   *)
(* the clock, and what the level has to get right.                         *)
(***************************************************************************)
EXTENDS UserCalls

\* What a command does to the storage, when it succeeds.
Carry(c) ==
    CASE c.op = "seek" -> arm' = c.cylinder /\ UNCHANGED <<ram, disk, buffer, tapePos>>
      [] c.op = "readTape" ->
            /\ tapePos' = [tapePos EXCEPT ![c.asid] = @ + 1]
            /\ buffer' = [buffer EXCEPT ![c.asid] = Content(c.asid, tapePos[c.asid], 1)]
            /\ UNCHANGED <<ram, disk, arm>>
      [] c.op = "writeBuffer" ->
            /\ disk' = [disk EXCEPT ![arm][c.asid] = buffer[c.asid]]
            /\ UNCHANGED <<ram, arm, buffer, tapePos>>
      [] c.op = "write" ->
            /\ disk' = [disk EXCEPT ![arm][c.asid] = ram[c.frame]]
            /\ UNCHANGED <<ram, arm, buffer, tapePos>>
      [] c.op = "read" ->
            /\ ram' = [ram EXCEPT ![c.frame] = disk[arm][c.asid]]
            /\ UNCHANGED <<disk, arm, buffer, tapePos>>
      [] OTHER -> UNCHANGED storage

\* A device ends its command and its interrupt is taken: ioTrapHandler wakes
\* the process that waits, with the status, or traps when there is none.
DeviceInterrupt(d) ==
    /\ kernel = "up" /\ masked = NULL /\ busy[d] # NULL
    /\ \E ok \in BOOLEAN :
        /\ ok \/ busy[d].op \in DeviceErrors
        /\ IF ok THEN Carry(busy[d]) ELSE UNCHANGED storage
        /\ IF blocked[d] = <<>>
           THEN kernel' = "trap" /\ UNCHANGED <<blocked, reply>>
           ELSE /\ reply' = [reply EXCEPT ![Head(blocked[d])][d[1]] = ok]
                /\ blocked' = [blocked EXCEPT ![d] = Tail(@)]
                /\ UNCHANGED kernel
    /\ busy' = [busy EXCEPT ![d] = NULL]
    /\ UNCHANGED <<masked, currentStatus, pc, io, status, sem, local, tlbNew, paging>>

\* The pseudo-clock ticks: every process in SYS7 goes on.
Tick ==
    /\ kernel = "up" /\ masked = NULL /\ blocked[Clock] # <<>>
    /\ blocked' = [blocked EXCEPT ![Clock] = <<>>]
    /\ UNCHANGED <<machine, pc, io, status, sem, local, tlbNew, paging, storage, devices>>

Alive == {p \in Proc : pc[p] \notin {"unborn", "ended"}}

\* The scheduler finds every process waiting for another: PANIC.
Deadlock ==
    /\ kernel = "up" /\ Alive # {}
    /\ \A p \in Alive : \E s \in Semaphore : p \in ToSet(blocked[s])
    /\ kernel' = "deadlock"
    /\ UNCHANGED <<masked, currentStatus, pc, io, status, waiting, local, tlbNew, paging,
                   storage, devices>>

Stop == kernel # "up" /\ UNCHANGED vars

Program(a) == (\E p \in Page : Store(a, p)) \/ PageFault(a) \/ Call(a) \/ ProgramTrap(a)
Handlers(a) == TLBHandler(a) \/ SyscallHandler(a)

Next == \/ Test_
        \/ \E a \in Asid : Professor(a) \/ Program(a) \/ Handlers(a)
        \/ \E d \in Device : DeviceInterrupt(d)
        \/ Tick \/ Deadlock \/ Stop

Spec == Init /\ [][Next]_vars

(***************************************************************************)
(* Code runs, devices finish, the clock ticks; a program need not do       *)
(* anything.                                                               *)
(***************************************************************************)
Fairness ==
    /\ WF_vars(Test_) /\ WF_vars(Tick) /\ WF_vars(Deadlock)
    /\ \A a \in Asid : WF_vars(Professor(a)) /\ WF_vars(Handlers(a))
    /\ \A d \in Device : WF_vars(DeviceInterrupt(d))

FairSpec == Spec /\ Fairness

\* A later state of the same machine: every program has started, none has
\* executed an instruction yet.
AllLoaded ==
    /\ kernel = "up" /\ masked = NULL /\ currentStatus = "real"
    /\ pc = [p \in Proc |-> IF p # Test THEN "user" ELSE IF MAXUPROC = 1 THEN "sys2" ELSE "await"]
    /\ io = [p \in Proc |-> "command"]
    /\ status = [p \in Proc |-> IF p = Test THEN "real" ELSE "virtual"]
    /\ sem = [s \in Semaphore |-> IF s = masterSem THEN -1 ELSE 1]
    /\ blocked = [s \in Semaphore \cup {Clock} \cup Device |->
                     IF s = masterSem THEN <<Test>> ELSE <<>>]
    /\ local = [p \in Proc |-> IF p = Test THEN [Unused EXCEPT !.count = 1] ELSE Unused]
    /\ tlbNew = [a \in Asid |-> "handler"]
    /\ swamp = [f \in Frame |-> NULL] /\ victim = 0
    /\ pte = [a \in Asid |-> [p \in Page |-> NULL]] /\ tlb = {}
    /\ ram = [f \in Frame |-> Blank]
    /\ disk = [c \in Page |-> [a \in Asid |-> IF c < Blocks[a] THEN Content(a, c, 1) ELSE Blank]]
    /\ \E a \in Asid : arm = Blocks[a] - 1
    /\ buffer = [a \in Asid |-> Content(a, Blocks[a] - 1, 1)]
    /\ tapePos = Blocks
    /\ busy = [d \in Device |-> NULL]
    /\ reply = [a \in Asid |-> [line \in {"disk", "tape", "printer", "terminal"} |-> TRUE]]

LoadedSpec == AllLoaded /\ [][Next]_vars

-----------------------------------------------------------------------------
Statuses == {"off", "real", "virtual"}
Faults == [seg : {2, 3}, page : Page, cause : {2, 14}]
Contents == [asid : {0} \cup Asid, page : Page, version : 0 .. MaxVersion]

\* Every variable has its type.
TypeOK ==
    /\ kernel \in {"up", "halted", "panic", "astray", "trap", "deadlock"}
    /\ masked \in Proc \cup {NULL}
    /\ currentStatus \in Statuses /\ status \in [Proc -> Statuses]
    /\ DOMAIN pc = Proc /\ io \in [Proc -> {"command", "wait", "done"}]
    /\ sem \in [Semaphore -> Int]
    /\ blocked \in [Semaphore \cup {Clock} \cup Device -> Seq(Proc)]
    /\ local \in [Proc -> [fault : Faults, vic : Frame, call : UserCall \cup {NoCall},
                            count : Nat]]
    /\ tlbNew \in [Asid -> {"unset", "handler", "overrun"}]
    /\ swamp \in [Frame -> [asid : Asid, page : Page] \cup {NULL}] /\ victim \in Frame
    /\ pte \in [Asid -> [Page -> Frame \cup {NULL}]] /\ tlb \subseteq Asid \X Page \X Frame
    /\ ram \in [Frame -> Contents] /\ disk \in [Page -> [Asid -> Contents]]
    /\ arm \in Page /\ buffer \in [Asid -> Contents] /\ tapePos \in [Asid -> Nat]
    /\ DOMAIN busy = Device /\ reply \in [Asid -> [{"disk", "tape", "printer", "terminal"} -> BOOLEAN]]

\* Where a process is between the P and the V of a mutex.
DiskPlaces == {"seek", "seekUnlock", "store", "storeUnlock", "outSeek", "outWrite", "outUnlock",
               "inSeek", "inRead", "inUnlock", "PANIC"}
SwampPlaces == {"victim", "writeOut", "outSeek", "outWrite", "outUnlock", "mask", "readOut",
                "inSeek", "inRead", "inUnlock", "update", "swampUnlock", "PANIC"}

Inside(places) == {a \in Asid : pc[a] \in places}
Holders(s, places) == Inside(places) \ ToSet(blocked[s])

\* One process at a time uses the disk, and one the swap pool.  Both mutexes
\* count exactly who is inside and who waits, whoever has ended.
MutexExact(s, places) ==
    /\ Cardinality(Holders(s, places)) <= 1
    /\ sem[s] = 1 - Cardinality(Inside(places))
    /\ sem[s] = 1 <=> Holders(s, places) = {}
DiskMutexExact == MutexExact(diskMutex, DiskPlaces)
SwampMutexExact == MutexExact(swampMutex, SwampPlaces)

\* A command to a device and the SYS8 for it are one: whenever a device works
\* somebody waits for it, or nobody else can run until somebody does; its
\* interrupt never comes early.  And nobody waits for an idle device.
NoLostWakeup ==
    /\ kernel # "trap"
    /\ \A d \in Device :
        /\ busy[d] # NULL => \/ Len(blocked[d]) = 1
                             \/ masked # NULL /\ io[masked] = "wait"
        /\ busy[d] = NULL => blocked[d] = <<>>

\* A device is given a command when it has none.
CommandsReachDevice ==
    \A a \in Inside({"seek", "store", "outSeek", "outWrite", "inSeek", "inRead"}) :
        io[a] = "command" /\ ~Waits(a) => busy[Disk0] = NULL

\* The swap pool, the page tables and the TLB agree whenever no fault is being
\* served: a frame belongs to one page, a valid page has one frame, and no
\* translation outlives its entry.
FramesExact ==
    /\ tlb = Cleared(pte)
    /\ sem[swampMutex] = 1 =>
        \A f \in Frame, a \in Asid, p \in Page :
            pte[a][p] = f <=> swamp[f] = [asid |-> a, page |-> p]

\* A fault on a legal address has been served when the program goes on: its page is
\* there.
FaultServed ==
    \A a \in Asid : pc[a] = "LDST" => Resident(a, fault(a).seg, fault(a).page)

\* test() waits for ever only when a child has ended without the V.
NeverDeadlocks == kernel # "deadlock"

\* The scheduler gives up only when fewer V's came on masterSem than children
\* have ended: nothing but a child that ends without its V stops the others.
DeadlockIsRight ==
    kernel = "deadlock" =>
        sem[masterSem] + local[Test].count < Cardinality({a \in Asid : pc[a] = "ended"})

\* A child that has announced its end, or is gone.
Ending == {"terminate", "ended"}

\* test() is through its last P only when no child has anything left to do but
\* to end itself: its SYS2 cuts no program short, a refused SYS16 or not.
NoChildCutShort ==
    pc[Test] \in {"sys2", "ended"} /\ ~Waits(Test) => \A a \in Asid : pc[a] \in Ending

\* SYS5: the area given is "the processor state area that is to be taken as the
\* new processor state": a page fault always starts userTLBHandler in it.
FaultReachesHandler == [][\A a \in Asid : PageFault(a) => pc'[a] = "tlb"]_vars

-----------------------------------------------------------------------------
\* A page is in a frame while its entry is valid or it is on its way out; else
\* it is where the disk has it.
LeavingPlaces == {"writeOut", "outSeek", "outWrite", "PANIC"}
Leaving(a, p) == {h \in Inside(LeavingPlaces) : swamp[vic(h)] = [asid |-> a, page |-> p]}
ContentOf(a, p) ==
    IF pte[a][p] # NULL THEN ram[pte[a][p]]
    ELSE IF Leaving(a, p) # {} THEN ram[vic(CHOOSE h \in Leaving(a, p) : TRUE)]
    ELSE disk[p][a]

Loading == {"unborn", "professor", "tape", "seekLock", "seek", "seekUnlock", "storeLock", "store",
            "storeUnlock", "stored", "start"}

\* What is neither a blank block nor a version of the page it should be.
Foreign == -1

VersionOf(a, p) ==
    LET c == ContentOf(a, p) IN
    IF c \in {Blank, Content(a, p, c.version)} THEN c.version ELSE Foreign

Memory == INSTANCE UserMemory WITH
    mem <- [a \in Asid |-> [p \in Page |-> VersionOf(a, p)]],
    started <- {a \in Asid : pc[a] \notin Loading}

\* Through loading, page faults and evictions a program sees the memory it was
\* promised.
MemoryKept == Memory!Spec

\* The same from the state in which every program has started.
MemoryStaysKept == [][Memory!Next]_(Memory!memory)

\* The V's no P has used (negative if a P went on without one); why the machine
\* stopped, as far as the nucleus decides.
Permits == [s \in Semaphore |-> sem[s] + Len(blocked[s])]
Verdict == IF kernel = "up" THEN "none"
           ELSE IF kernel \in {"halted", "deadlock"} THEN kernel ELSE "failed"

Calls == INSTANCE ProcessCalls WITH
    UserSem <- Semaphore, Event <- {Clock} \cup Device,
    alive <- Alive, queue <- blocked, permits <- Permits, verdict <- Verdict

\* The support level asks of the nucleus only what that provides, when a process
\* may ask it, and gets no more from it: births, P and V, waiting and deaths are
\* those of the interface, in every interleaving.
CallsKept == Calls!Spec

\* When all programs have announced their end by SYS18, test() ends and the
\* machine HALTs, whichever of test() and the programs gets to its SYS2 first.
TestEnds == (\A a \in Asid : pc[a] \in Ending) ~> kernel = "halted"

\* A page fault is served, or ends its program or (an error of the disk) the machine.
FaultEnds ==
    \A a \in Asid : pc[a] = "tlb" ~> pc[a] \in {"user", "terminate"} \/ kernel = "panic"
=============================================================================
