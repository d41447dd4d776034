---------------------------- MODULE SupportProofs ----------------------------
(***************************************************************************)
(* TLAPS proofs about the support level, for one to eight user processes,  *)
(* any number of pages and frames and any workload: the two mutexes        *)
(* exclude and never deadlock, the swap pool agrees with the page tables,  *)
(* no wake-up by a device is lost, and the level keeps to the interface of *)
(* the nucleus.                                                            *)
(***************************************************************************)
EXTENDS SupportInv, PcbQueueProofs, FiniteSetTheorems

Mutexes == {diskMutex, swampMutex}

\* test() alone waits for the V's on masterSem.
Master ==
    \/ sem[masterSem] >= 0 /\ blocked[masterSem] = <<>>
    \/ sem[masterSem] = -1 /\ blocked[masterSem] = <<Test>>

Inv == StateType /\ Master /\ LockInv

\* A step from one place to another that neither enters nor leaves a part in
\* which the swap pool is used, and starts no fault.
SameKind(from, to) ==
    /\ from \in SwampPlaces <=> to \in SwampPlaces
    /\ from \in TakenPlaces <=> to \in TakenPlaces
    /\ to \in FaultPlaces => from \in FaultPlaces
    /\ to \in CallPlaces => from \in CallPlaces
    /\ from = "victim" => to = "victim"

\* Process a takes a step; its variables may change.
Moves(a) ==
    /\ DOMAIN pc' = Proc /\ pc[a] # "unborn"
    /\ \A b \in Proc \ {a} : pc'[b] = pc[b] /\ local'[b] = local[b]
    /\ local' \in [Proc -> Locals]

\* No frame is taken or entered in the swap pool, and no fault starts.
KeepsFrames(a) ==
    /\ pc[a] \in TakenPlaces <=> pc'[a] \in TakenPlaces
    /\ pc'[a] \in FaultPlaces => pc[a] \in FaultPlaces
    /\ pc'[a] \in TakenPlaces => local'[a].vic = local[a].vic
    /\ pc'[a] \in FaultPlaces => local'[a].fault = local[a].fault
    /\ UNCHANGED paging

\* The step is of the kind that changes nothing about the swap pool.
QuietStep(a) ==
    /\ Moves(a) /\ SameKind(pc[a], pc'[a])
    /\ pc'[a] \in TakenPlaces => local'[a].vic = local[a].vic
    /\ pc'[a] \in FaultPlaces => local'[a].fault = local[a].fault

\* The other variables keep their types.
RestTyped ==
    /\ sem' \in [Semaphore -> Int]
    /\ blocked' \in [Semaphore \cup {Clock} \cup Device -> Seq(Proc)]
    /\ tlbNew' \in [Asid -> {"unset", "handler", "overrun"}]
    /\ swamp' \in [Frame -> [asid : Asid, page : Page] \cup {NULL}] /\ victim' \in Frame
    /\ pte' \in [Asid -> [Page -> Frame \cup {NULL}]]

Quiet(s) == sem'[s] = sem[s] /\ blocked'[s] = blocked[s]

\* Nothing happens to the mutex of the swap pool, or anything wrong to the rest.
QuietLocks ==
    /\ sem' \in [Semaphore -> Int]
    /\ blocked' \in [Semaphore \cup {Clock} \cup Device -> Seq(Proc)]
    /\ Quiet(swampMutex) /\ Mutex(diskMutex, DiskPlaces)' /\ Master'

-----------------------------------------------------------------------------
\* Who and what there is.
LEMMA Universe ==
    /\ Test \in Proc /\ Test \notin Asid /\ Asid \subseteq Proc
    /\ Semaphore \cap ({Clock} \cup Device) = {}
    /\ Mutexes \subseteq Semaphore /\ masterSem \in Semaphore \ Mutexes
    /\ diskMutex # swampMutex
    /\ \A a \in Asid : Tape(a) \in Device /\ Printer(a) \in Device /\ Terminal(a) \in Device
    /\ Disk0 \in Device /\ Printer(1) \in Device
    /\ 0 \in Page /\ 0 \in Frame
<1>1. MAXUPROC \in Nat \ {0} /\ NUMOFSWAMP \in Nat \ {0} /\ KUSEGPTESIZE \in Nat \ {0}
  BY SizeAssumption
<1>2. Test \in Proc /\ Test \notin Asid /\ Asid \subseteq Proc /\ 1 \in Asid
  BY <1>1 DEF Test, Asid, Proc
<1>3. Semaphore \cap ({Clock} \cup Device) = {}
  BY DEF Semaphore, masterSem, swampMutex, diskMutex, Clock, Device, Disk0, Tape, Printer,
         Terminal
<1>4. /\ Mutexes \subseteq Semaphore /\ masterSem \in Semaphore \ Mutexes
      /\ diskMutex # swampMutex
  BY DEF Mutexes, Semaphore, masterSem, swampMutex, diskMutex
<1>5. /\ Disk0 \in Device /\ Printer(1) \in Device
      /\ \A a \in Asid : Tape(a) \in Device /\ Printer(a) \in Device /\ Terminal(a) \in Device
  BY <1>2 DEF Device
<1>6. 0 \in Page /\ 0 \in Frame
  BY <1>1 DEF Page, Frame
<1> QED  BY <1>2, <1>3, <1>4, <1>5, <1>6

LEMMA UnusedType == Unused \in Locals
  BY Universe DEF Unused, Locals, NoFault

\* A step that leaves a mutex and who is inside alone.
LEMMA MutexQuiet ==
    ASSUME NEW s, NEW places, Mutex(s, places), sem'[s] = sem[s], blocked'[s] = blocked[s],
           \A b \in Asid : pc'[b] \in places <=> pc[b] \in places
    PROVE  Mutex(s, places)'
<1>1. Inside(places)' = Inside(places)
  BY DEF Inside
<1> QED  BY <1>1 DEF Mutex

\* P by a process outside, which is inside from then on.
LEMMA MutexP ==
    ASSUME StateType, NEW s \in Mutexes, NEW places, Mutex(s, places), NEW a \in Asid,
           pc[a] \notin places, P(a, s), pc'[a] \in places,
           \A b \in Asid \ {a} : pc'[b] = pc[b]
    PROVE  Mutex(s, places)'
<1> DEFINE q == blocked[s]
<1>1. q \in Seq(Proc) /\ s \in Semaphore /\ sem[s] \in Int /\ a \in Proc
  BY Universe DEF StateType
<1>2. Inside(places)' = Inside(places) \cup {a} /\ a \notin Inside(places)
  BY DEF Inside
<1>3. Len(q) \in Nat
  BY <1>1, LenProperties
<1>4. CASE sem[s] = 1 /\ q = <<>> /\ Inside(places) = {}
  <2>1. sem'[s] = 0 /\ blocked'[s] = <<>>
    BY <1>1, <1>4 DEF P, StateType
  <2>2. ToSet(<<>>) = {} /\ IsInjective(<<>>) /\ Len(<<>>) = 0
    BY DEF ToSet, IsInjective
  <2>3. Inside(places)' = {a} \cup ToSet(blocked'[s]) /\ a \in Asid \ ToSet(blocked'[s])
    BY <1>2, <1>4, <2>1, <2>2
  <2>4. IsInjective(blocked'[s])
    BY <2>1, <2>2
  <2>5. Len(blocked'[s]) = 0 /\ \A n \in Nat : n = 0 => 0 = - n
    BY <2>1, <2>2
  <2>6. sem'[s] = - Len(blocked'[s])
    BY <2>1, <2>5
  <2> QED  BY <2>3, <2>4, <2>6 DEF Mutex
<1>5. CASE sem[s] = - Len(q) /\ \E h \in Asid \ ToSet(q) : Inside(places) = {h} \cup ToSet(q)
  <2>1. PICK h \in Asid \ ToSet(q) : Inside(places) = {h} \cup ToSet(q)
    BY <1>5
  <2>2. sem'[s] = sem[s] - 1 /\ blocked'[s] = Append(q, a)
    BY <1>1, <1>3, <1>5 DEF P, StateType, Sleep
  <2>3. a \notin ToSet(q) /\ a # h
    BY <1>2, <2>1
  <2>4. IsInjective(q)
    BY DEF Mutex
  <2>5. /\ Len(blocked'[s]) = Len(q) + 1
        /\ ToSet(blocked'[s]) = ToSet(q) \cup {a} /\ IsInjective(blocked'[s])
    BY <1>1, <2>2, <2>3, <2>4, InsertQueue DEF InsertProcQ
  <2>6. sem'[s] = - Len(blocked'[s])
    BY <1>1, <1>3, <1>5, <2>2, <2>5
  <2>7. h \in Asid \ ToSet(blocked'[s]) /\ Inside(places)' = {h} \cup ToSet(blocked'[s])
    BY <1>2, <2>1, <2>3, <2>5
  <2> QED  BY <2>5, <2>6, <2>7 DEF Mutex
<1> QED  BY <1>4, <1>5 DEF Mutex

\* V by the process inside, which leaves: the first of the others has the mutex.
LEMMA MutexV ==
    ASSUME StateType, NEW s \in Mutexes, NEW places, Mutex(s, places), NEW a \in Asid,
           ~Waits(a), pc[a] \in places, V(a, s), pc'[a] \notin places,
           \A b \in Asid \ {a} : pc'[b] = pc[b]
    PROVE  Mutex(s, places)' /\ (sem[s] + 1 <= 0 => blocked[s] # <<>>)
<1> DEFINE q == blocked[s]
<1>1. q \in Seq(Proc) /\ s \in Semaphore /\ sem[s] \in Int /\ s \in DOMAIN blocked
  BY Universe DEF StateType
<1>2. Inside(places)' = Inside(places) \ {a} /\ a \in Inside(places)
  BY DEF Inside
<1>3. Len(q) \in Nat /\ (q = <<>> <=> Len(q) = 0)
  BY <1>1, LenProperties, QueueElements
<1>4. a \notin ToSet(q)
  BY <1>1 DEF Waits
<1>5. /\ sem[s] = - Len(q) /\ IsInjective(q)
      /\ Inside(places) = {a} \cup ToSet(q)
  BY <1>2, <1>4 DEF Mutex
<1>6. CASE q = <<>>
  <2>1. sem'[s] = 1 /\ blocked'[s] = <<>>
    BY <1>1, <1>3, <1>5, <1>6 DEF V, StateType
  <2>2. ToSet(q) = {}
    BY <1>1, <1>6, QueueElements
  <2>3. Inside(places)' = {}
    BY <1>2, <1>5, <2>2
  <2> QED  BY <1>5, <1>6, <2>1, <2>3 DEF Mutex
<1>7. CASE q # <<>>
  <2>1. sem'[s] = sem[s] + 1 /\ blocked'[s] = Tail(q)
    BY <1>1, <1>3, <1>5, <1>7 DEF V, StateType
  <2>2. /\ Head(q) \in ToSet(q) /\ Len(Tail(q)) = Len(q) - 1
        /\ IsInjective(Tail(q)) /\ ToSet(Tail(q)) = ToSet(q) \ {Head(q)}
    BY <1>1, <1>5, <1>7, RemoveQueue
  <2>3. Head(q) \in Asid
    BY <1>5, <2>2 DEF Inside
  <2>4. sem'[s] = - Len(blocked'[s])
    BY <1>1, <1>3, <1>5, <2>1, <2>2
  <2>5. Inside(places)' = {Head(q)} \cup ToSet(blocked'[s]) /\ Head(q) \notin ToSet(blocked'[s])
    BY <1>2, <1>4, <1>5, <2>1, <2>2
  <2> QED  BY <1>7, <2>1, <2>2, <2>3, <2>4, <2>5 DEF Mutex
<1> QED  BY <1>6, <1>7

-----------------------------------------------------------------------------
\* A step of a process keeps the types and who is still to be born.
LEMMA StepShape ==
    ASSUME Inv, NEW a \in Asid, Moves(a), RestTyped PROVE StateType' /\ Births'
<1>1. StateType'
  BY DEF StateType, Moves, RestTyped
<1>2. Births'
  <2>1. Test # a /\ Test \in Proc /\ Asid \subseteq Proc
    BY Universe
  <2>2. pc'[Test] = pc[Test] /\ local'[Test] = local[Test]
    BY <2>1 DEF Moves
  <2>3. Births
    BY DEF Inv, LockInv
  <2> QED  BY <2>1, <2>2, <2>3 DEF Births, Counted, Moves
<1> QED  BY <1>1, <1>2

\* Who is where, when one process moves.
LEMMA OneMoves ==
    ASSUME NEW a \in Asid, Moves(a), NEW places, pc[a] \in places <=> pc'[a] \in places
    PROVE  /\ \A b \in Asid : pc'[b] \in places <=> pc[b] \in places
           /\ Inside(places)' = Inside(places)
BY Universe DEF Moves, Inside

\* The swap pool agrees with the page tables as long as nobody changes them.
LEMMA FramesKept ==
    ASSUME FrameInv, NEW a \in Asid, Moves(a), KeepsFrames(a), VectorLost', WaitsAtVictim'
    PROVE  FrameInv'
<1>1. Asid \subseteq Proc
  BY Universe
<1>2. Taken' = Taken
  <2>1. Inside(TakenPlaces)' = Inside(TakenPlaces)
    BY OneMoves DEF KeepsFrames
  <2>2. \A b \in Inside(TakenPlaces) : vic(b)' = vic(b)
    BY <1>1, <2>1 DEF Moves, KeepsFrames, Inside, vic
  <2> QED  BY <2>1, <2>2 DEF Taken
<1>3. PoolAgrees'
  BY <1>2 DEF FrameInv, PoolAgrees, KeepsFrames, paging, Cleared
<1>4. FaultStands'
  <2>1. ASSUME NEW b \in Inside(FaultPlaces)'
        PROVE  b \in Inside(FaultPlaces) /\ fault(b)' = fault(b)
    BY <1>1, <2>1 DEF Moves, KeepsFrames, Inside, fault
  <2> QED  BY <2>1 DEF FrameInv, FaultStands, KeepsFrames, paging
<1> QED  BY <1>3, <1>4 DEF FrameInv

\* Who waits for the swap pool goes on waiting.
LEMMA WaitersStay ==
    ASSUME Inv, FrameInv, NEW a \in Asid, Moves(a), pc[a] = "victim" => pc'[a] = "victim",
           Quiet(swampMutex)
    PROVE  WaitsAtVictim'
<1>1. blocked'[swampMutex] = blocked[swampMutex] /\ blocked[swampMutex] \in Seq(Proc)
  BY Universe DEF Quiet, Mutexes, Inv, StateType
<1>2. ASSUME NEW b \in ToSet(blocked[swampMutex]) PROVE pc'[b] = "victim"
  <2>1. b \in Proc /\ pc[b] = "victim"
    BY <1>1, QueueElements DEF FrameInv, WaitsAtVictim
  <2> QED  BY <2>1 DEF Moves
<1> QED  BY <1>1, <1>2 DEF WaitsAtVictim

\* A quiet step of a process preserves the first invariant, and the second if
\* it does not give the process back its vector.
LEMMA Quietly ==
    ASSUME Inv, NEW a \in Asid, QuietStep(a), QuietLocks, UNCHANGED paging,
           tlbNew' \in [Asid -> {"unset", "handler", "overrun"}]
    PROVE  Inv' /\ (FrameInv /\ VectorLost' => FrameInv')
<1>1. Moves(a) /\ KeepsFrames(a)
  BY DEF QuietStep, SameKind, KeepsFrames
<1>2. RestTyped
  BY DEF Inv, StateType, RestTyped, QuietLocks, paging
<1>3. Mutex(swampMutex, SwampPlaces)'
  <2>1. Mutex(swampMutex, SwampPlaces)
    BY DEF Inv, LockInv
  <2>2. \A b \in Asid : pc'[b] \in SwampPlaces <=> pc[b] \in SwampPlaces
    BY <1>1, OneMoves DEF QuietStep, SameKind
  <2>3. sem'[swampMutex] = sem[swampMutex] /\ blocked'[swampMutex] = blocked[swampMutex]
    BY DEF QuietLocks, Quiet
  <2> QED  BY <2>1, <2>2, <2>3, MutexQuiet
<1>4. Inv'
  BY <1>1, <1>2, <1>3, StepShape DEF Inv, LockInv, QuietLocks
<1>5. ASSUME FrameInv, VectorLost' PROVE FrameInv'
  <2>1. WaitsAtVictim'
    BY <1>1, <1>5, WaitersStay DEF QuietStep, SameKind, QuietLocks
  <2> QED  BY <1>1, <1>5, <2>1, FramesKept
<1> QED  BY <1>4, <1>5

\* A step that leaves the vectors alone.
LEMMA VectorsQuiet ==
    ASSUME NEW a \in Asid, QuietStep(a), UNCHANGED tlbNew, VectorLost PROVE VectorLost'
BY Universe DEF QuietStep, Moves, SameKind, VectorLost, Inside

LEMMA QuietlyPaged ==
    ASSUME Inv, NEW a \in Asid, QuietStep(a), QuietLocks, UNCHANGED <<paging, tlbNew>>
    PROVE  Inv' /\ (FrameInv => FrameInv')
<1>1. tlbNew' \in [Asid -> {"unset", "handler", "overrun"}]
  BY DEF Inv, StateType
<1>2. VectorLost => VectorLost'
  BY VectorsQuiet
<1> QED  BY <1>1, <1>2, Quietly DEF FrameInv

\* A step that leaves the disk's mutex and who uses the disk alone.
LEMMA DiskQuiet ==
    ASSUME Inv, NEW a \in Asid, Moves(a), pc[a] \in DiskPlaces <=> pc'[a] \in DiskPlaces,
           Quiet(diskMutex)
    PROVE  Mutex(diskMutex, DiskPlaces)'
<1>1. Mutex(diskMutex, DiskPlaces)
  BY DEF Inv, LockInv
<1>2. \A b \in Asid : pc'[b] \in DiskPlaces <=> pc[b] \in DiskPlaces
  BY OneMoves
<1>3. sem'[diskMutex] = sem[diskMutex] /\ blocked'[diskMutex] = blocked[diskMutex]
  BY DEF Quiet
<1> QED  BY <1>1, <1>2, <1>3, MutexQuiet

\* A step that calls the nucleus for nothing.
LEMMA Alone ==
    ASSUME Inv, NEW a \in Asid, QuietStep(a), pc[a] \in DiskPlaces <=> pc'[a] \in DiskPlaces,
           UNCHANGED waiting
    PROVE  QuietLocks
<1>1. UNCHANGED <<sem, blocked>>
  BY DEF waiting
<1>2. Mutex(diskMutex, DiskPlaces)'
  BY <1>1, DiskQuiet DEF Quiet, QuietStep
<1> QED  BY <1>1, <1>2 DEF Inv, StateType, QuietLocks, Quiet, Master

-----------------------------------------------------------------------------
\* SYS7 and SYS8 leave the semaphores alone.
LEMMA SleepOn ==
    ASSUME StateType, NEW p \in Proc, NEW s \in {Clock} \cup Device, Sleep(p, s)
    PROVE  /\ blocked' \in [Semaphore \cup {Clock} \cup Device -> Seq(Proc)]
           /\ \A m \in Semaphore : blocked'[m] = blocked[m]
<1>1. s \notin Semaphore /\ s \in Semaphore \cup {Clock} \cup Device
  BY Universe
<1>2. Append(blocked[s], p) \in Seq(Proc)
  BY <1>1, InsertQueue DEF StateType, InsertProcQ
<1> QED  BY <1>1, <1>2 DEF Sleep, StateType

\* A command to a device, its SYS8 or the way back.
LEMMA DoIOQuiet ==
    ASSUME Inv, NEW a \in Asid, NEW place, NEW commanded, NEW awaited \in Device, NEW op,
           NEW then, DoIO(a, place, commanded, awaited, op, then),
           SameKind(place, then), place # "unborn", place \in DiskPlaces <=> then \in DiskPlaces
    PROVE  Inv' /\ (FrameInv => FrameInv')
<1>1. StateType /\ Master /\ a \in Proc /\ place = pc[a]
  BY Universe DEF Inv, DoIO, At
<1>2. UNCHANGED <<sem, local, tlbNew, paging>>
  BY DEF DoIO
<1>3. \/ UNCHANGED <<pc, blocked>>
      \/ Sleep(a, awaited) /\ UNCHANGED pc
      \/ Goto(a, then) /\ UNCHANGED blocked
  BY DEF DoIO
<1>4. pc'[a] \in {place, then} /\ SameKind(place, place)
  BY <1>1, <1>3 DEF Goto, StateType, SameKind
<1>5. QuietStep(a)
  BY <1>1, <1>2, <1>3, <1>4 DEF QuietStep, Moves, StateType, Goto
<1>6. /\ blocked' \in [Semaphore \cup {Clock} \cup Device -> Seq(Proc)]
      /\ \A m \in Semaphore : blocked'[m] = blocked[m]
  BY <1>1, <1>3, SleepOn DEF StateType
<1>7. Quiet(diskMutex) /\ Quiet(swampMutex) /\ Master'
  BY <1>1, <1>2, <1>6, Universe DEF Quiet, Master, Mutexes
<1>8. QuietLocks
  BY <1>1, <1>2, <1>4, <1>5, <1>6, <1>7, DiskQuiet DEF QuietLocks, QuietStep, StateType
<1> QED  BY <1>2, <1>5, <1>8, QuietlyPaged

-----------------------------------------------------------------------------
\* P of a semaphore leaves the others alone.
LEMMA PType ==
    ASSUME StateType, NEW p \in Proc, NEW s \in Semaphore, P(p, s)
    PROVE  /\ sem' \in [Semaphore -> Int]
           /\ blocked' \in [Semaphore \cup {Clock} \cup Device -> Seq(Proc)]
           /\ \A m \in Semaphore \ {s} : Quiet(m)
           /\ sem'[s] = sem[s] - 1
           /\ blocked'[s] = IF sem[s] - 1 < 0 THEN Append(blocked[s], p) ELSE blocked[s]
<1>1. Append(blocked[s], p) \in Seq(Proc)
  BY InsertQueue DEF StateType, InsertProcQ
<1>2. sem' = [sem EXCEPT ![s] = @ - 1] /\ sem[s] \in Int
  BY DEF P, StateType
<1>3. CASE sem[s] - 1 < 0
  <2>1. blocked' = [blocked EXCEPT ![s] = Append(@, p)]
    BY <1>3 DEF P, Sleep
  <2> QED  BY <1>1, <1>2, <1>3, <2>1 DEF StateType, Quiet
<1>4. CASE ~(sem[s] - 1 < 0)
  <2>1. blocked' = blocked
    BY <1>4 DEF P
  <2> QED  BY <1>2, <1>4, <2>1 DEF StateType, Quiet
<1> QED  BY <1>3, <1>4

LEMMA VType ==
    ASSUME StateType, NEW p \in Proc, NEW s \in Semaphore, V(p, s),
           sem[s] + 1 <= 0 => blocked[s] # <<>>
    PROVE  /\ sem' \in [Semaphore -> Int]
           /\ blocked' \in [Semaphore \cup {Clock} \cup Device -> Seq(Proc)]
           /\ \A m \in Semaphore \ {s} : Quiet(m)
           /\ sem'[s] = sem[s] + 1
           /\ blocked'[s] = IF sem[s] + 1 <= 0 THEN Tail(blocked[s]) ELSE blocked[s]
<1>1. blocked[s] # <<>> => Tail(blocked[s]) \in Seq(Proc)
  BY RemoveQueue DEF StateType
<1> QED  BY <1>1 DEF V, StateType, Quiet

\* A step that only goes elsewhere.
LEMMA GotoQuiet ==
    ASSUME Inv, NEW a \in Asid, NEW to, Goto(a, to), pc[a] # "unborn",
           SameKind(pc[a], to), UNCHANGED local
    PROVE  QuietStep(a) /\ pc'[a] = to
BY Universe DEF Inv, StateType, Goto, QuietStep, Moves

LEMMA LockDiskQuiet ==
    ASSUME Inv, NEW a \in Asid, NEW from, NEW to, LockDisk(a, from, to),
           SameKind(from, to), from # "unborn", from \notin DiskPlaces, to \in DiskPlaces
    PROVE  Inv' /\ (FrameInv => FrameInv')
<1>1. /\ pc[a] = from /\ P(a, diskMutex) /\ Goto(a, to) /\ UNCHANGED <<local, tlbNew, paging>>
      /\ a \in Proc /\ diskMutex \in Mutexes /\ StateType
  BY Universe DEF LockDisk, At, Mutexes, Inv
<1>2. QuietStep(a) /\ pc'[a] = to
  BY <1>1, GotoQuiet
<1>3. \A b \in Asid \ {a} : pc'[b] = pc[b]
  BY <1>2, Universe DEF QuietStep, Moves
<1>4. Mutex(diskMutex, DiskPlaces)'
  BY <1>1, <1>2, <1>3, MutexP DEF Inv, LockInv
<1>5. QuietLocks
  BY <1>1, <1>4, PType, Universe DEF QuietLocks, Master, Quiet, Mutexes, Inv
<1> QED  BY <1>1, <1>2, <1>5, QuietlyPaged

LEMMA UnlockDiskQuiet ==
    ASSUME Inv, NEW a \in Asid, NEW from, NEW to, UnlockDisk(a, from, to),
           SameKind(from, to), from # "unborn", from \in DiskPlaces, to \notin DiskPlaces
    PROVE  Inv' /\ (FrameInv => FrameInv')
<1>1. /\ pc[a] = from /\ V(a, diskMutex) /\ Goto(a, to) /\ UNCHANGED <<local, tlbNew, paging>>
      /\ a \in Proc /\ diskMutex \in Mutexes /\ StateType /\ ~Waits(a)
  BY Universe DEF UnlockDisk, At, Mutexes, Inv
<1>2. QuietStep(a) /\ pc'[a] = to
  BY <1>1, GotoQuiet
<1>3. \A b \in Asid \ {a} : pc'[b] = pc[b]
  BY <1>2, Universe DEF QuietStep, Moves
<1>4. Mutex(diskMutex, DiskPlaces)' /\ (sem[diskMutex] + 1 <= 0 => blocked[diskMutex] # <<>>)
  BY <1>1, <1>2, <1>3, MutexV DEF Inv, LockInv
<1>5. QuietLocks
  BY <1>1, <1>4, VType, Universe DEF QuietLocks, Master, Quiet, Mutexes, Inv
<1> QED  BY <1>1, <1>2, <1>5, QuietlyPaged

LEMMA PlainQuiet ==
    ASSUME Inv, NEW a \in Asid, QuietStep(a), pc[a] \in DiskPlaces <=> pc'[a] \in DiskPlaces,
           UNCHANGED <<waiting, paging, tlbNew>>
    PROVE  Inv' /\ (FrameInv => FrameInv')
BY Alone, QuietlyPaged

-----------------------------------------------------------------------------
\* test(): the creation of a child.
LEMMA CreateChildKeeps == ASSUME Inv, CreateChild PROVE Inv' /\ (FrameInv => FrameInv')
<1> DEFINE c == Counted + 1
           next == IF c < MAXUPROC THEN "create" ELSE "await"
<1>1. StateType /\ Births /\ Master /\ pc[Test] = "create" /\ UNCHANGED <<waiting, tlbNew, paging>>
  BY DEF Inv, LockInv, CreateChild, At
<1>2. /\ Test \in Proc /\ Asid \subseteq Proc /\ Test \notin Asid /\ MAXUPROC \in Nat
      /\ Test = 0 /\ Asid = 1 .. MAXUPROC
  BY Universe, SizeAssumption DEF Test, Asid
<1>3. Counted \in Nat /\ Counted < MAXUPROC
  BY <1>1, <1>2 DEF StateType, Locals, Births, Counted
<1>4. c \in Asid /\ pc[c] = "unborn"
  BY <1>1, <1>2, <1>3 DEF Births
<1>5. pc' = [pc EXCEPT ![c] = "professor", ![Test] = next]
  BY DEF CreateChild
<1>6. DOMAIN pc' = Proc /\ pc'[Test] = next /\ pc'[c] = "professor"
      /\ \A b \in Proc \ {Test, c} : pc'[b] = pc[b]
  <2>1. DOMAIN pc = Proc /\ c \in Proc /\ c # Test
    BY <1>1, <1>2, <1>4 DEF StateType
  <2> HIDE DEF next, c
  <2> QED  BY <1>2, <1>5, <2>1
<1>7. local' = [local EXCEPT ![Test].count = IF c < MAXUPROC THEN c ELSE 0]
  BY DEF CreateChild, Count
<1>8. /\ local' \in [Proc -> Locals]
      /\ \A b \in Asid : local'[b] = local[b]
      /\ Counted' = IF c < MAXUPROC THEN c ELSE 0
  <2>1. local \in [Proc -> Locals]
    BY <1>1 DEF StateType
  <2> DEFINE n == IF c < MAXUPROC THEN c ELSE 0
  <2>2. n \in Nat
    BY <1>3
  <2>3. local' = [local EXCEPT ![Test].count = n]
    BY <1>7
  <2> HIDE DEF n
  <2>4. local' = [local EXCEPT ![Test] = [local[Test] EXCEPT !.count = n]]
    BY <2>1, <2>3
  <2>5. [local[Test] EXCEPT !.count = n] \in Locals /\ [local[Test] EXCEPT !.count = n].count = n
    BY <1>2, <2>1, <2>2 DEF Locals
  <2>6. local'[Test].count = n
    BY <1>2, <2>1, <2>4, <2>5
  <2>7. local' \in [Proc -> Locals] /\ \A b \in Asid : local'[b] = local[b]
    BY <1>2, <2>1, <2>4, <2>5
  <2> QED  BY <2>6, <2>7 DEF n, Counted
<1>9. StateType'
  BY <1>1, <1>6, <1>8 DEF StateType, waiting, paging
<1>10. Births'
  BY <1>1, <1>2, <1>3, <1>4, <1>6, <1>8 DEF Births
<1>11. ASSUME NEW places, "unborn" \notin places, "professor" \notin places
       PROVE  \A b \in Asid : pc'[b] \in places <=> pc[b] \in places
  BY <1>2, <1>4, <1>6, <1>11
<1>12. Mutex(diskMutex, DiskPlaces)'
  BY <1>1, <1>11, MutexQuiet DEF DiskPlaces, Inv, LockInv, waiting
<1>13. Mutex(swampMutex, SwampPlaces)'
  BY <1>1, <1>11, MutexQuiet DEF SwampPlaces, Inv, LockInv, waiting
<1>14. Inv'
  BY <1>1, <1>9, <1>10, <1>12, <1>13 DEF Inv, LockInv, Master, waiting
<1>15. ASSUME FrameInv PROVE FrameInv'
  <2>1. Inside(TakenPlaces)' = Inside(TakenPlaces) /\ Inside(FaultPlaces)' = Inside(FaultPlaces)
        /\ Inside(CallPlaces)' = Inside(CallPlaces)
    <3>1. \A b \in Asid : pc'[b] \in TakenPlaces <=> pc[b] \in TakenPlaces
      BY <1>11 DEF TakenPlaces, SwampPlaces
    <3>2. \A b \in Asid : pc'[b] \in FaultPlaces <=> pc[b] \in FaultPlaces
      BY <1>11 DEF FaultPlaces, SwampPlaces
    <3>3. \A b \in Asid : pc'[b] \in CallPlaces <=> pc[b] \in CallPlaces
      BY <1>11 DEF CallPlaces
    <3> QED  BY <3>1, <3>2, <3>3 DEF Inside
  <2>2. Taken' = Taken
    BY <1>8, <2>1 DEF Taken, vic, Inside
  <2>3. PoolAgrees'
    BY <1>1, <1>15, <2>2 DEF FrameInv, PoolAgrees, paging, Cleared
  <2>4. FaultStands' /\ VectorLost'
    BY <1>1, <1>8, <1>15, <2>1 DEF FrameInv, FaultStands, VectorLost, paging, fault, Inside
  <2>5. WaitsAtVictim'
    <3>1. blocked[swampMutex] \in Seq(Proc)
      BY <1>1, Universe DEF StateType, Mutexes
    <3>2. ASSUME NEW b \in ToSet(blocked[swampMutex]) PROVE pc'[b] = "victim"
      <4>1. b \in Proc /\ pc[b] = "victim"
        BY <1>15, <3>1, QueueElements DEF FrameInv, WaitsAtVictim
      <4> QED  BY <1>1, <1>4, <1>6, <4>1
    <3> QED  BY <1>1, <3>2 DEF WaitsAtVictim, waiting
  <2> QED  BY <2>3, <2>4, <2>5 DEF FrameInv
<1> QED  BY <1>14, <1>15

\* A step of test() other than that: who is where does not change.
LEMMA TestStays ==
    ASSUME Inv, StateType', Master', pc'[Test] # "create", Quiet(diskMutex), Quiet(swampMutex),
           \A b \in Asid : pc'[b] = pc[b] /\ local'[b] = local[b],
           UNCHANGED <<tlbNew, paging>>
    PROVE  Inv' /\ (FrameInv => FrameInv')
<1>1. Mutex(diskMutex, DiskPlaces)' /\ Mutex(swampMutex, SwampPlaces)'
  <2>1. Mutex(diskMutex, DiskPlaces) /\ Mutex(swampMutex, SwampPlaces)
    BY DEF Inv, LockInv
  <2>2. Mutex(diskMutex, DiskPlaces)'
    BY <2>1, MutexQuiet DEF Quiet
  <2>3. Mutex(swampMutex, SwampPlaces)'
    BY <2>1, MutexQuiet DEF Quiet
  <2> QED  BY <2>2, <2>3
<1>2. Inv'
  BY <1>1 DEF Inv, LockInv, Births
<1>3. ASSUME FrameInv PROVE FrameInv'
  <2>1. \A S : Inside(S)' = Inside(S)
    BY DEF Inside
  <2>2. Taken' = Taken
    BY <2>1 DEF Taken, vic, Inside
  <2>3. PoolAgrees'
    BY <1>3, <2>2 DEF FrameInv, PoolAgrees, paging, Cleared
  <2>4. FaultStands' /\ VectorLost'
    BY <1>3, <2>1 DEF FrameInv, FaultStands, VectorLost, paging, fault, Inside
  <2>5. WaitsAtVictim'
    <3>1. ToSet(blocked[swampMutex]) \subseteq Asid
      <4>1. Mutex(swampMutex, SwampPlaces)
        BY DEF Inv, LockInv
      <4>2. ToSet(<<>>) = {}
        BY DEF ToSet
      <4>3. Inside(SwampPlaces) \subseteq Asid
        BY DEF Inside
      <4> QED  BY <4>1, <4>2, <4>3 DEF Mutex
    <3> QED  BY <1>3, <3>1 DEF FrameInv, WaitsAtVictim, Quiet
  <2> QED  BY <2>3, <2>4, <2>5 DEF FrameInv
<1> QED  BY <1>2, <1>3

\* "wait for the other procs to finish", and SYS2.
LEMMA AwaitChildKeeps == ASSUME Inv, AwaitChild PROVE Inv' /\ (FrameInv => FrameInv')
<1>1. /\ StateType /\ Master /\ P(Test, masterSem) /\ ~Waits(Test) /\ UNCHANGED <<tlbNew, paging>>
      /\ Test \in Proc /\ masterSem \in Semaphore /\ Test \notin Asid /\ Asid \subseteq Proc
  BY Universe DEF Inv, AwaitChild, At
<1>2. /\ DOMAIN pc' = Proc /\ pc'[Test] # "create"
      /\ \A b \in Asid : pc'[b] = pc[b]
  <2>1. DOMAIN pc = Proc
    BY <1>1 DEF StateType
  <2>2. pc' = [pc EXCEPT ![Test] = IF Awaited THEN "sys2" ELSE "await"]
    BY DEF AwaitChild, Goto
  <2>3. PICK to \in {"sys2", "await"} : pc' = [pc EXCEPT ![Test] = to]
    BY <2>2
  <2> QED  BY <1>1, <2>1, <2>3
<1>3. Counted \in Nat /\ local' = [local EXCEPT ![Test].count = Counted + 1]
  BY <1>1 DEF AwaitChild, Count, StateType, Locals, Counted
<1>4. local' \in [Proc -> Locals] /\ \A b \in Asid : local'[b] = local[b]
  <2>1. local \in [Proc -> Locals]
    BY <1>1 DEF StateType
  <2>2. [local[Test] EXCEPT !.count = Counted + 1] \in Locals
    BY <1>1, <1>3, <2>1 DEF Locals
  <2>3. local' = [local EXCEPT ![Test] = [local[Test] EXCEPT !.count = Counted + 1]]
    BY <1>3, <2>1
  <2> QED  BY <1>1, <2>1, <2>2, <2>3
<1>5. /\ sem' \in [Semaphore -> Int]
      /\ blocked' \in [Semaphore \cup {Clock} \cup Device -> Seq(Proc)]
      /\ \A m \in Semaphore \ {masterSem} : Quiet(m)
      /\ sem'[masterSem] = sem[masterSem] - 1
      /\ blocked'[masterSem] = IF sem[masterSem] - 1 < 0 THEN Append(blocked[masterSem], Test)
                               ELSE blocked[masterSem]
  BY <1>1, PType
<1>6. Master'
  <2>1. Test \notin ToSet(blocked[masterSem]) /\ sem[masterSem] \in Int
    BY <1>1 DEF StateType, Waits
  <2>2. Test \in ToSet(<<Test>>) /\ Append(<<>>, Test) = <<Test>>
    BY DEF ToSet
  <2>3. sem[masterSem] >= 0 /\ blocked[masterSem] = <<>>
    BY <1>1, <2>1, <2>2 DEF Master
  <2> QED  BY <1>5, <2>1, <2>2, <2>3 DEF Master
<1>7. StateType'
  BY <1>1, <1>2, <1>4, <1>5 DEF StateType, paging
<1>8. Quiet(diskMutex) /\ Quiet(swampMutex)
  BY <1>5, Universe DEF Mutexes
<1> QED  BY <1>1, <1>2, <1>4, <1>6, <1>7, <1>8, TestStays

LEMMA EndTestKeeps == ASSUME Inv, EndTest PROVE Inv' /\ (FrameInv => FrameInv')
<1>1. /\ StateType /\ Master /\ UNCHANGED <<waiting, local, tlbNew, paging>>
      /\ pc' = [pc EXCEPT ![Test] = "ended"]
      /\ Test \in Proc /\ Test \notin Asid /\ Asid \subseteq Proc
  BY Universe DEF Inv, EndTest, Dies, Goto
<1>2. pc'[Test] # "create" /\ \A b \in Asid : pc'[b] = pc[b]
  BY <1>1 DEF StateType
<1>3. StateType' /\ Master' /\ Quiet(diskMutex) /\ Quiet(swampMutex)
  <2>1. DOMAIN pc' = Proc
    BY <1>1 DEF StateType
  <2>2. StateType'
    BY <1>1, <2>1 DEF StateType, waiting, paging
  <2> QED  BY <1>1, <2>2 DEF Master, Quiet, waiting
<1> QED  BY <1>1, <1>2, <1>3, TestStays

LEMMA TestKeeps == ASSUME Inv, Test_ PROVE Inv' /\ (FrameInv => FrameInv')
BY CreateChildKeeps, AwaitChildKeeps, EndTestKeeps DEF Test_

-----------------------------------------------------------------------------
\* The variables of a handler may change like this on the way to a place.
LocalStep(a, to) ==
    /\ local' \in [Proc -> Locals]
    /\ \A b \in Proc \ {a} : local'[b] = local[b]
    /\ to \in TakenPlaces => local'[a].vic = local[a].vic
    /\ to \in FaultPlaces => local'[a].fault = local[a].fault

LEMMA LocalSame ==
    ASSUME Inv, UNCHANGED local, NEW a, NEW to PROVE LocalStep(a, to)
BY DEF Inv, StateType, LocalStep

LEMMA LocalCount ==
    ASSUME Inv, NEW a \in Asid, NEW n \in Nat, Count(a, n), NEW to PROVE LocalStep(a, to)
<1>1. local \in [Proc -> Locals] /\ a \in Proc
  BY Universe DEF Inv, StateType
<1>2. local' = [local EXCEPT ![a] = [local[a] EXCEPT !.count = n]]
  BY <1>1 DEF Count
<1>3. [local[a] EXCEPT !.count = n] \in Locals
  BY <1>1 DEF Locals
<1> QED  BY <1>1, <1>2, <1>3 DEF LocalStep, Locals

LEMMA LocalSet ==
    ASSUME Inv, NEW a \in Asid, NEW c \in UserCall \cup {NoCall}, NEW n \in Nat,
           Set(a, c, n), NEW to
    PROVE  LocalStep(a, to)
<1>1. local \in [Proc -> Locals] /\ a \in Proc
  BY Universe DEF Inv, StateType
<1> DEFINE l == [fault |-> fault(a), vic |-> vic(a), call |-> c, count |-> n]
<1>2. l \in Locals
  BY <1>1 DEF Locals, fault, vic
<1>3. l.fault = local[a].fault /\ l.vic = local[a].vic
  BY DEF fault, vic
<1>4. local' = [local EXCEPT ![a] = l]
  BY DEF Set
<1> HIDE DEF l
<1> QED  BY <1>1, <1>2, <1>3, <1>4 DEF LocalStep

LEMMA LocalReset ==
    ASSUME Inv, NEW a \in Asid, local' = [local EXCEPT ![a] = Unused],
           NEW to, to \notin TakenPlaces, to \notin FaultPlaces
    PROVE  LocalStep(a, to)
BY UnusedType, Universe DEF Inv, StateType, LocalStep

\* A step from one statement to another, in a part without a call of the nucleus.
LEMMA MoveKeeps ==
    ASSUME Inv, NEW a \in Asid, NEW from, NEW to, At(a, from), Goto(a, to), LocalStep(a, to),
           SameKind(from, to), from \in DiskPlaces <=> to \in DiskPlaces, from # "unborn",
           UNCHANGED <<waiting, paging, tlbNew>>
    PROVE  Inv' /\ (FrameInv => FrameInv')
<1>1. QuietStep(a) /\ pc[a] = from /\ pc'[a] = to
  BY Universe DEF Inv, StateType, Goto, QuietStep, Moves, LocalStep, At
<1> QED  BY <1>1, PlainQuiet

\* A step to where it came from.
LEMMA StayKeeps ==
    ASSUME Inv, NEW a \in Asid, pc[a] # "unborn", UNCHANGED <<pc, local, waiting, paging, tlbNew>>
    PROVE  Inv' /\ (FrameInv => FrameInv')
<1>1. QuietStep(a)
  BY DEF Inv, StateType, QuietStep, Moves, SameKind
<1> QED  BY <1>1, PlainQuiet

USE DEF NoIO

-----------------------------------------------------------------------------
\* professor() and readAndStore().
LEMMA SetVectorsKeeps ==
    ASSUME Inv, NEW a \in Asid, SetVectors(a) PROVE Inv' /\ (FrameInv => FrameInv')
<1>1. At(a, "professor") /\ Goto(a, "tape") /\ UNCHANGED <<waiting, local, paging>>
  BY DEF SetVectors
<1>2. QuietStep(a) /\ pc[a] = "professor" /\ pc'[a] = "tape"
  <2>1. SameKind("professor", "tape")
    BY DEF SameKind, SwampPlaces, TakenPlaces, FaultPlaces, CallPlaces
  <2> QED  BY <1>1, <2>1, GotoQuiet DEF At
<1>3. tlbNew' \in [Asid -> {"unset", "handler", "overrun"}]
  BY DEF SetVectors, Inv, StateType
<1>4. VectorLost => VectorLost'
  BY <1>2, Universe DEF VectorLost, Inside, QuietStep, Moves, SetVectors, CallPlaces, Inv, StateType
<1>5. QuietLocks
  <2>1. pc[a] \in DiskPlaces <=> pc'[a] \in DiskPlaces
    BY <1>2 DEF DiskPlaces
  <2> QED  BY <1>1, <1>2, <2>1, Alone
<1> QED  BY <1>1, <1>2, <1>3, <1>4, <1>5, Quietly DEF FrameInv

LEMMA StoreBlockKeeps ==
    ASSUME Inv, NEW a \in Asid, StoreBlock(a) PROVE Inv' /\ (FrameInv => FrameInv')
<1> USE DEF SameKind, DiskPlaces, SwampPlaces, TakenPlaces, FaultPlaces, CallPlaces
<1>1. CASE LockDisk(a, "seekLock", "seek")
  BY <1>1, LockDiskQuiet
<1>2. CASE DoIO(a, "seek", Disk0, Disk0, Seek(currentPage(a)), "seekUnlock")
  BY <1>2, DoIOQuiet, Universe
<1>3. CASE UnlockDisk(a, "seekUnlock", IF Ready(a, "disk") THEN "storeLock" ELSE "stored")
  <2>1. CASE Ready(a, "disk")
    BY <1>3, <2>1, UnlockDiskQuiet
  <2>2. CASE ~Ready(a, "disk")
    BY <1>3, <2>2, UnlockDiskQuiet
  <2> QED  BY <2>1, <2>2
<1>4. CASE LockDisk(a, "storeLock", "store")
  BY <1>4, LockDiskQuiet
<1>5. CASE DoIO(a, "store", Disk0, Disk0, WriteBuffer(a), "storeUnlock")
  BY <1>5, DoIOQuiet, Universe
<1>6. CASE UnlockDisk(a, "storeUnlock", "stored")
  BY <1>6, UnlockDiskQuiet
<1> QED  BY <1>1, <1>2, <1>3, <1>4, <1>5, <1>6 DEF StoreBlock

LEMMA ProfessorKeeps ==
    ASSUME Inv, NEW a \in Asid, Professor(a) PROVE Inv' /\ (FrameInv => FrameInv')
<1> USE DEF SameKind, DiskPlaces, SwampPlaces, TakenPlaces, FaultPlaces, CallPlaces
<1>1. CASE ReadTape(a)
  BY <1>1, DoIOQuiet, Universe DEF ReadTape
<1>2. CASE NextBlock(a)
  <2>1. local[a].count \in Nat
    BY Universe DEF Inv, StateType, Locals
  <2>2. CASE Goto(a, "tape") /\ Count(a, currentPage(a) + 1)
    BY <1>2, <2>1, <2>2, LocalCount, MoveKeeps DEF NextBlock, currentPage
  <2>3. CASE Goto(a, "start") /\ Count(a, 0)
    BY <1>2, <2>3, LocalCount, MoveKeeps DEF NextBlock
  <2> QED  BY <1>2, <2>2, <2>3 DEF NextBlock
<1>3. CASE StartProgram(a)
  BY <1>3, LocalSame, MoveKeeps DEF StartProgram
<1> QED
  BY <1>1, <1>2, <1>3, SetVectorsKeeps, StoreBlockKeeps DEF Professor, ReadAndStore

-----------------------------------------------------------------------------
\* What a program does by itself.
LEMMA SyscallKeeps ==
    ASSUME Inv, NEW a \in Asid, NEW from, At(a, from), from \notin DiskPlaces,
           from \notin SwampPlaces, from # "unborn", Syscall18(a),
           UNCHANGED <<waiting, local, tlbNew, paging>>
    PROVE  Inv' /\ (FrameInv => FrameInv')
<1>1. SameKind(from, "sys18")
  BY DEF SameKind, SwampPlaces, TakenPlaces, FaultPlaces, CallPlaces
<1>2. "sys18" \notin DiskPlaces
  BY DEF DiskPlaces
<1> QED  BY <1>1, <1>2, LocalSame, MoveKeeps DEF Syscall18

LEMMA CallKeeps ==
    ASSUME Inv, NEW a \in Asid, Call(a) PROVE Inv' /\ (FrameInv => FrameInv')
<1>1. PICK c \in UserCall : Set(a, c, 0) /\ Goto(a, Branch(c))
  BY DEF Call
<1> DEFINE to == Branch(c)
<1>2. to \in {"sys18", "terminate", "print", "delay", "type", "return"}
  BY DEF Branch
<1> HIDE DEF to
<1>3. /\ to \notin DiskPlaces /\ to \notin SwampPlaces /\ to \notin TakenPlaces
      /\ to \notin FaultPlaces /\ "user" \notin DiskPlaces /\ "user" \notin SwampPlaces
      /\ "user" \notin TakenPlaces
  BY <1>2 DEF DiskPlaces, SwampPlaces, TakenPlaces, FaultPlaces
<1>4. pc[a] = "user" /\ UNCHANGED <<waiting, paging>> /\ tlbNew' = [tlbNew EXCEPT ![a] = "overrun"]
  BY DEF Call, At
<1>5. LocalStep(a, to)
  BY <1>1, LocalSet
<1>6. Moves(a) /\ pc'[a] = to
  BY <1>1, <1>4, <1>5, Universe DEF Inv, StateType, Goto, Moves, LocalStep, to
<1>7. RestTyped
  BY <1>4 DEF Inv, StateType, RestTyped, waiting, paging
<1>8. Mutex(diskMutex, DiskPlaces)'
  BY <1>3, <1>4, <1>6, DiskQuiet DEF Quiet, waiting
<1>9. Mutex(swampMutex, SwampPlaces)'
  BY <1>3, <1>4, <1>6, OneMoves, MutexQuiet DEF Inv, LockInv, waiting
<1>10. Inv'
  BY <1>4, <1>6, <1>7, <1>8, <1>9, StepShape DEF Inv, LockInv, Master, waiting
<1>11. ASSUME FrameInv PROVE FrameInv'
  <2>1. KeepsFrames(a)
    BY <1>3, <1>4, <1>6 DEF KeepsFrames
  <2>2. VectorLost'
    BY <1>4, <1>6, <1>11, Universe DEF FrameInv, VectorLost, Inside, Moves, Inv, StateType
  <2>3. WaitsAtVictim'
    BY <1>4, <1>6, <1>11, WaitersStay DEF Quiet, waiting
  <2> QED  BY <1>6, <1>11, <2>1, <2>2, <2>3, FramesKept
<1> QED  BY <1>10, <1>11

\* A page fault of a program, or of a handler for it: userTLBHandler starts, the
\* process ends, or the handler works on what is not its own.
LEMMA EnterInv ==
    ASSUME Inv, NEW a \in Asid, NEW from, At(a, from), from \notin DiskPlaces,
           from \notin SwampPlaces, from # "unborn", EnterTLBHandler(a),
           local' \in [Proc -> Locals], \A b \in Proc \ {a} : local'[b] = local[b],
           UNCHANGED <<waiting, tlbNew, paging>>
    PROVE  Inv' /\ Moves(a) /\ pc'[a] \in {from, "tlb", "sys18"}
           /\ (pc'[a] = "tlb" => tlbNew[a] = "handler" \/ from = "tlb")
<1>1. pc[a] = from /\ a \in Proc /\ DOMAIN pc = Proc
  BY Universe DEF At, Inv, StateType
<1>2. /\ UNCHANGED pc \/ Goto(a, "tlb") \/ Goto(a, "sys18")
      /\ Goto(a, "tlb") => tlbNew[a] = "handler" \/ pc'[a] # "tlb" \/ UNCHANGED pc
  BY <1>1 DEF EnterTLBHandler, Syscall18, Goto
<1>3. Moves(a) /\ pc'[a] \in {from, "tlb", "sys18"}
  BY <1>1, <1>2 DEF Goto, Moves
<1>4. pc'[a] = "tlb" => tlbNew[a] = "handler" \/ from = "tlb"
  BY <1>1, <1>2 DEF Goto
<1>5. /\ pc'[a] \notin DiskPlaces /\ pc'[a] \notin SwampPlaces
  BY <1>3 DEF DiskPlaces, SwampPlaces
<1>6. RestTyped
  BY DEF Inv, StateType, RestTyped, waiting, paging
<1>7. Mutex(diskMutex, DiskPlaces)'
  BY <1>1, <1>3, <1>5, DiskQuiet DEF Quiet, waiting
<1>8. Mutex(swampMutex, SwampPlaces)'
  BY <1>1, <1>3, <1>5, OneMoves, MutexQuiet DEF Inv, LockInv, waiting
<1>9. Inv'
  BY <1>3, <1>6, <1>7, <1>8, StepShape DEF Inv, LockInv, Master, waiting
<1> QED  BY <1>3, <1>4, <1>9

LEMMA PageFaultKeeps ==
    ASSUME Inv, NEW a \in Asid, PageFault(a)
    PROVE  Inv' /\ (Segment = {2} /\ FrameInv => FrameInv')
<1>1. PICK seg \in Segment, p \in Page, cause \in {2, 14} :
          /\ ~Resident(a, seg, p)
          /\ local' = [local EXCEPT ![a].fault = [seg |-> seg, page |-> p, cause |-> cause]]
  BY DEF PageFault
<1> DEFINE f == [seg |-> seg, page |-> p, cause |-> cause]
<1>2. /\ At(a, "user") /\ EnterTLBHandler(a) /\ UNCHANGED <<waiting, tlbNew, paging>>
      /\ a \in Proc /\ local \in [Proc -> Locals]
  BY Universe DEF PageFault, Inv, StateType
<1>3. f \in [seg : {2, 3}, page : Page, cause : {2, 14}]
  BY <1>1, WorkloadAssumption
<1>4. [local[a] EXCEPT !.fault = f] \in Locals
  BY <1>2, <1>3 DEF Locals
<1>5. local' = [local EXCEPT ![a] = [local[a] EXCEPT !.fault = f]]
  BY <1>1, <1>2
<1>6. /\ local' \in [Proc -> Locals] /\ \A b \in Proc \ {a} : local'[b] = local[b]
      /\ local'[a].fault = f
  BY <1>2, <1>4, <1>5 DEF Locals
<1>7. "user" \notin DiskPlaces /\ "user" \notin SwampPlaces
  BY DEF DiskPlaces, SwampPlaces
<1>8. Inv' /\ Moves(a) /\ pc'[a] \in {"user", "tlb", "sys18"} /\ pc[a] = "user"
  BY <1>2, <1>6, <1>7, EnterInv DEF At
<1>9. ASSUME FrameInv, Segment = {2} PROVE FrameInv'
  <2>1. Asid \subseteq Proc
    BY Universe
  <2>2. pte[a][p] = NULL
    <3>1. pte[a][p] \in Frame \cup {NULL}
      BY DEF Inv, StateType
    <3>2. ASSUME NEW g \in Frame, pte[a][p] = g PROVE FALSE
      <4>1. <<a, p, g>> \in tlb
        BY <1>9, <3>2 DEF FrameInv, PoolAgrees, Cleared
      <4> QED  BY <1>1, <1>9, <4>1 DEF Resident
    <3> QED  BY <3>1, <3>2
  <2>3. Taken' = Taken
    <3>1. pc'[a] \notin TakenPlaces /\ pc[a] \notin TakenPlaces
      BY <1>8 DEF TakenPlaces, SwampPlaces
    <3>2. Inside(TakenPlaces)' = Inside(TakenPlaces)
      BY <1>8, <3>1, OneMoves
    <3>3. \A b \in Inside(TakenPlaces) : vic(b)' = vic(b)
      BY <1>6, <2>1, <3>1 DEF Inside, vic
    <3> QED  BY <3>2, <3>3 DEF Taken
  <2>4. PoolAgrees'
    BY <1>2, <1>9, <2>3 DEF FrameInv, PoolAgrees, paging, Cleared
  <2>5. FaultStands'
    <3>1. ASSUME NEW b \in Inside(FaultPlaces)', b # a
          PROVE  b \in Inside(FaultPlaces) /\ fault(b)' = fault(b)
      BY <1>6, <1>8, <2>1, <3>1 DEF Moves, Inside, fault
    <3>2. pte'[a][fault(a)'.page] = NULL
      BY <1>2, <1>6, <2>2 DEF fault, paging
    <3> QED  BY <1>2, <1>9, <3>1, <3>2 DEF FrameInv, FaultStands, paging
  <2>6. VectorLost'
    BY <1>2, <1>8, <1>9, <2>1 DEF FrameInv, VectorLost, Inside, Moves, CallPlaces
  <2>7. WaitsAtVictim'
    BY <1>2, <1>8, <1>9, WaitersStay DEF Quiet, waiting
  <2> QED  BY <2>4, <2>5, <2>6, <2>7 DEF FrameInv
<1> QED  BY <1>8, <1>9

LEMMA ProgramKeeps ==
    ASSUME Inv, NEW a \in Asid, Program(a)
    PROVE  Inv' /\ (Segment = {2} /\ FrameInv => FrameInv')
<1>1. ASSUME NEW p \in Page, Store(a, p) PROVE Inv' /\ (FrameInv => FrameInv')
  BY <1>1, StayKeeps DEF Store, At
<1>2. CASE ProgramTrap(a)
  BY <1>2, SyscallKeeps DEF ProgramTrap, DiskPlaces, SwampPlaces
<1> QED  BY <1>1, <1>2, PageFaultKeeps, CallKeeps DEF Program

-----------------------------------------------------------------------------
\* userSyscallHandler.
LEMMA CharKeeps ==
    ASSUME Inv, NEW a \in Asid, NEW loop \in {"print", "type"},
           NEW give \in {"printChar", "typeChar"}, NextChar(a, loop, give)
    PROVE  Inv' /\ (FrameInv => FrameInv')
<1> USE DEF SameKind, DiskPlaces, SwampPlaces, TakenPlaces, FaultPlaces, CallPlaces
<1>1. At(a, loop) /\ pc[a] = loop /\ UNCHANGED <<waiting, local, tlbNew, paging>>
  BY DEF NextChar, At
<1>2. CASE Goto(a, "return")
  BY <1>1, <1>2, LocalSame, MoveKeeps
<1>3. CASE Goto(a, give)
  BY <1>1, <1>3, LocalSame, MoveKeeps
<1>4. CASE Syscall18(a)
  BY <1>1, <1>4, SyscallKeeps
<1>5. CASE EnterTLBHandler(a)
  <2>1. /\ Inv' /\ Moves(a) /\ pc'[a] \in {loop, "tlb", "sys18"}
        /\ pc'[a] = "tlb" => tlbNew[a] = "handler"
    BY <1>1, <1>5, EnterInv DEF Inv, StateType
  <2>2. ASSUME FrameInv PROVE FrameInv'
    <3>1. tlbNew[a] = "overrun"
      BY <1>1, <2>2 DEF FrameInv, VectorLost, Inside
    <3>2. QuietStep(a)
      BY <1>1, <2>1, <3>1 DEF QuietStep
    <3> QED  BY <1>1, <2>1, <2>2, <3>2, PlainQuiet
  <2> QED  BY <2>1, <2>2
<1> QED  BY <1>2, <1>3, <1>4, <1>5 DEF NextChar

LEMMA SentKeeps ==
    ASSUME Inv, NEW a \in Asid, NEW place \in {"printed", "typed"}, NEW loop \in {"print", "type"},
           NEW error, CharSent(a, place, loop, error)
    PROVE  Inv' /\ (FrameInv => FrameInv')
<1> USE DEF SameKind, DiskPlaces, SwampPlaces, TakenPlaces, FaultPlaces, CallPlaces
<1>1. At(a, place) /\ UNCHANGED <<waiting, tlbNew, paging>>
  BY DEF CharSent
<1>2. CASE Goto(a, "return") /\ UNCHANGED local
  BY <1>1, <1>2, LocalSame, MoveKeeps
<1>3. CASE Goto(a, loop) /\ Set(a, call(a), i(a) + 1)
  <2>1. local[a] \in Locals
    BY Universe DEF Inv, StateType
  <2>2. call(a) \in UserCall \cup {NoCall} /\ i(a) + 1 \in Nat
    BY <2>1 DEF Locals, call, i
  <2>3. LocalStep(a, loop)
    BY <1>3, <2>2, LocalSet
  <2> QED  BY <1>1, <1>3, <2>3, MoveKeeps
<1> QED  BY <1>2, <1>3 DEF CharSent

LEMMA DelayKeeps ==
    ASSUME Inv, NEW a \in Asid, Delay(a) PROVE Inv' /\ (FrameInv => FrameInv')
<1> USE DEF SameKind, DiskPlaces, SwampPlaces, TakenPlaces, FaultPlaces, CallPlaces
<1>1. At(a, "delay") /\ pc[a] = "delay" /\ UNCHANGED <<tlbNew, paging>> /\ a \in Proc /\ StateType
  BY Universe DEF Delay, At, Inv
<1>2. CASE Sleep(a, Clock) /\ Set(a, call(a), i(a) + 1) /\ UNCHANGED <<pc, sem>>
  <2>1. local[a] \in Locals
    BY <1>1 DEF StateType
  <2>2. call(a) \in UserCall \cup {NoCall} /\ i(a) + 1 \in Nat
    BY <2>1 DEF Locals, call, i
  <2>3. LocalStep(a, "delay")
    BY <1>2, <2>2, LocalSet
  <2>4. QuietStep(a)
    BY <1>1, <1>2, <2>3 DEF QuietStep, Moves, LocalStep, StateType
  <2>5. /\ blocked' \in [Semaphore \cup {Clock} \cup Device -> Seq(Proc)]
        /\ \A m \in Semaphore : blocked'[m] = blocked[m]
    BY <1>1, <1>2, SleepOn
  <2>6. Quiet(diskMutex) /\ Quiet(swampMutex) /\ Master'
    BY <1>2, <2>5, Universe DEF Quiet, Master, Mutexes, Inv
  <2>7. QuietLocks
    BY <1>1, <1>2, <2>4, <2>5, <2>6, DiskQuiet DEF QuietLocks, QuietStep, StateType
  <2> QED  BY <1>1, <2>4, <2>7, QuietlyPaged
<1>3. CASE Goto(a, "return") /\ UNCHANGED <<local, waiting>>
  BY <1>1, <1>3, LocalSame, MoveKeeps
<1> QED  BY <1>2, <1>3 DEF Delay

LEMMA Sys18Keeps ==
    ASSUME Inv, NEW a \in Asid, Sys18(a) PROVE Inv' /\ (FrameInv => FrameInv')
<1> USE DEF SameKind, DiskPlaces, SwampPlaces, TakenPlaces, FaultPlaces, CallPlaces
<1>1. /\ pc[a] = "sys18" /\ V(a, masterSem) /\ Goto(a, "terminate")
      /\ UNCHANGED <<local, tlbNew, paging>> /\ StateType /\ Master
      /\ a \in Proc /\ masterSem \in Semaphore \ {diskMutex, swampMutex}
  BY Universe DEF Sys18, At, Inv, Mutexes
<1>2. QuietStep(a) /\ pc'[a] = "terminate"
  BY <1>1, GotoQuiet
<1>3. Tail(<<Test>>) = <<>> /\ <<Test>> # <<>>
  OBVIOUS
<1>4. sem[masterSem] + 1 <= 0 => blocked[masterSem] # <<>>
  <2>1. sem[masterSem] \in Int
    BY <1>1 DEF StateType
  <2>2. sem[masterSem] + 1 <= 0 => blocked[masterSem] = <<Test>>
    BY <1>1, <2>1 DEF Master
  <2> QED  BY <1>3, <2>2
<1>5. /\ sem' \in [Semaphore -> Int]
      /\ blocked' \in [Semaphore \cup {Clock} \cup Device -> Seq(Proc)]
      /\ \A m \in Semaphore \ {masterSem} : Quiet(m)
      /\ sem'[masterSem] = sem[masterSem] + 1
      /\ blocked'[masterSem] = IF sem[masterSem] + 1 <= 0 THEN Tail(blocked[masterSem])
                               ELSE blocked[masterSem]
  BY <1>1, <1>4, VType
<1>6. Master'
  BY <1>1, <1>3, <1>5 DEF Master, StateType
<1>7. Quiet(diskMutex) /\ Quiet(swampMutex)
  BY <1>5, Universe DEF Mutexes
<1>8. QuietLocks
  BY <1>1, <1>2, <1>5, <1>6, <1>7, DiskQuiet DEF QuietLocks, QuietStep
<1> QED  BY <1>1, <1>2, <1>8, QuietlyPaged

LEMMA SyscallHandlerKeeps ==
    ASSUME Inv, NEW a \in Asid, SyscallHandler(a) PROVE Inv' /\ (FrameInv => FrameInv')
<1> USE DEF SameKind, DiskPlaces, SwampPlaces, TakenPlaces, FaultPlaces, CallPlaces
<1>1. CASE Terminate(a)
  <2>1. LocalStep(a, "ended")
    <3>1. local' = [local EXCEPT ![a] = Unused]
      BY <1>1 DEF Terminate, Dies
    <3>2. "ended" \notin TakenPlaces /\ "ended" \notin FaultPlaces
      OBVIOUS
    <3> QED  BY <3>1, <3>2, LocalReset
  <2> QED  BY <1>1, <2>1, MoveKeeps DEF Terminate, Dies
<1>2. CASE PrintString(a)
  <2>1. CASE DoIO(a, "printChar", Printer(1), Printer(a), [op |-> "char"], "printed")
    BY <2>1, DoIOQuiet, Universe
  <2> QED  BY <1>2, <2>1, CharKeeps, SentKeeps DEF PrintString
<1>3. CASE TypeString(a)
  <2>1. CASE DoIO(a, "typeChar", Terminal(a), Terminal(a), [op |-> "char"], "typed")
    BY <2>1, DoIOQuiet, Universe
  <2> QED  BY <1>3, <2>1, CharKeeps, SentKeeps DEF TypeString
<1>4. CASE Return(a)
  <2>1. LocalStep(a, "user")
    <3>1. local' = [local EXCEPT ![a] = Unused]
      BY <1>4 DEF Return
    <3>2. "user" \notin TakenPlaces /\ "user" \notin FaultPlaces
      OBVIOUS
    <3> QED  BY <3>1, <3>2, LocalReset
  <2> QED  BY <1>4, <2>1, MoveKeeps DEF Return
<1> QED  BY <1>1, <1>2, <1>3, <1>4, Sys18Keeps, DelayKeeps DEF SyscallHandler

-----------------------------------------------------------------------------
\* userTLBHandler.  P of the mutex of the swap pool, or the end of the process.
LEMMA EnterSwampKeeps ==
    ASSUME Inv, NEW a \in Asid, EnterSwamp(a) PROVE Inv' /\ (FrameInv => FrameInv')
<1>1. /\ pc[a] = "tlb" /\ At(a, "tlb") /\ ~Waits(a) /\ UNCHANGED <<local, tlbNew, paging>>
      /\ StateType /\ Master
      /\ a \in Proc /\ swampMutex \in Mutexes /\ swampMutex \in Semaphore
  BY Universe DEF EnterSwamp, At, Inv, Mutexes
<1>2. CASE Syscall18(a) /\ UNCHANGED waiting
  BY <1>1, <1>2, SyscallKeeps DEF DiskPlaces, SwampPlaces
<1>3. CASE P(a, swampMutex) /\ Goto(a, "victim")
  <2>1. Moves(a) /\ pc'[a] = "victim"
    BY <1>1, <1>3, Universe DEF StateType, Goto, Moves
  <2>2. /\ sem' \in [Semaphore -> Int]
        /\ blocked' \in [Semaphore \cup {Clock} \cup Device -> Seq(Proc)]
        /\ \A m \in Semaphore \ {swampMutex} : Quiet(m)
        /\ blocked'[swampMutex] = IF sem[swampMutex] - 1 < 0 THEN Append(blocked[swampMutex], a)
                                  ELSE blocked[swampMutex]
    BY <1>1, <1>3, PType
  <2>3. Quiet(diskMutex) /\ Quiet(masterSem)
    BY <2>2, Universe DEF Mutexes
  <2>4. RestTyped
    BY <1>1, <2>2 DEF StateType, RestTyped, paging
  <2>5. Mutex(diskMutex, DiskPlaces)'
    BY <1>1, <2>1, <2>3, DiskQuiet DEF DiskPlaces
  <2>6. Mutex(swampMutex, SwampPlaces)'
    <3>1. \A b \in Asid \ {a} : pc'[b] = pc[b]
      BY <2>1, Universe DEF Moves
    <3>2. pc[a] \notin SwampPlaces /\ pc'[a] \in SwampPlaces
      BY <1>1, <2>1 DEF SwampPlaces
    <3> QED  BY <1>1, <1>3, <3>1, <3>2, MutexP DEF Inv, LockInv
  <2>7. Inv'
    BY <1>1, <2>1, <2>3, <2>4, <2>5, <2>6, StepShape DEF Inv, LockInv, Master, Quiet
  <2>8. ASSUME FrameInv PROVE FrameInv'
    <3>1. KeepsFrames(a)
      BY <1>1, <2>1 DEF KeepsFrames, TakenPlaces, SwampPlaces, FaultPlaces
    <3>2. VectorLost'
      BY <1>1, <2>1, <2>8, Universe DEF FrameInv, VectorLost, Inside, Moves, CallPlaces
    <3>3. WaitsAtVictim'
      <4>1. blocked[swampMutex] \in Seq(Proc)
        BY <1>1 DEF StateType
      <4>2. ToSet(blocked'[swampMutex]) \subseteq ToSet(blocked[swampMutex]) \cup {a}
        BY <1>1, <2>2, <4>1, InsertQueue DEF InsertProcQ
      <4>3. ASSUME NEW b \in ToSet(blocked[swampMutex]) \cup {a} PROVE pc'[b] = "victim"
        <5>1. CASE b = a
          BY <2>1, <5>1
        <5>2. CASE b # a
          <6>1. b \in Proc /\ pc[b] = "victim"
            BY <2>8, <4>1, <4>3, <5>2, QueueElements DEF FrameInv, WaitsAtVictim
          <6> QED  BY <2>1, <5>2, <6>1 DEF Moves
        <5> QED  BY <5>1, <5>2
      <4> QED  BY <4>2, <4>3 DEF WaitsAtVictim
    <3> QED  BY <2>1, <2>8, <3>1, <3>2, <3>3, FramesKept
  <2> QED  BY <2>7, <2>8
<1> QED  BY <1>2, <1>3 DEF EnterSwamp

\* Its V, when the page has been mapped.
LEMMA LeaveSwampKeeps ==
    ASSUME Inv, NEW a \in Asid, LeaveSwamp(a) PROVE Inv' /\ (FrameInv => FrameInv')
<1>1. /\ pc[a] = "swampUnlock" /\ ~Waits(a) /\ UNCHANGED <<local, tlbNew, paging>>
      /\ V(a, swampMutex) /\ Goto(a, "LDST") /\ StateType /\ Master
      /\ a \in Proc /\ swampMutex \in Mutexes /\ swampMutex \in Semaphore
  BY Universe DEF LeaveSwamp, At, Inv, Mutexes
<1>2. Moves(a) /\ pc'[a] = "LDST"
  BY <1>1, Universe DEF StateType, Goto, Moves
<1>3. Mutex(swampMutex, SwampPlaces)' /\ (sem[swampMutex] + 1 <= 0 => blocked[swampMutex] # <<>>)
  <2>1. \A b \in Asid \ {a} : pc'[b] = pc[b]
    BY <1>2, Universe DEF Moves
  <2>2. pc[a] \in SwampPlaces /\ pc'[a] \notin SwampPlaces
    BY <1>1, <1>2 DEF SwampPlaces
  <2> QED  BY <1>1, <2>1, <2>2, MutexV DEF Inv, LockInv
<1>4. /\ sem' \in [Semaphore -> Int]
      /\ blocked' \in [Semaphore \cup {Clock} \cup Device -> Seq(Proc)]
      /\ \A m \in Semaphore \ {swampMutex} : Quiet(m)
      /\ blocked'[swampMutex] = IF sem[swampMutex] + 1 <= 0 THEN Tail(blocked[swampMutex])
                                ELSE blocked[swampMutex]
  BY <1>1, <1>3, VType
<1>5. Quiet(diskMutex) /\ Quiet(masterSem)
  BY <1>4, Universe DEF Mutexes
<1>6. RestTyped
  BY <1>1, <1>4 DEF StateType, RestTyped, paging
<1>7. Mutex(diskMutex, DiskPlaces)'
  BY <1>1, <1>2, <1>5, DiskQuiet DEF DiskPlaces
<1>8. Inv'
  BY <1>1, <1>2, <1>3, <1>5, <1>6, <1>7, StepShape DEF Inv, LockInv, Master, Quiet
<1>9. ASSUME FrameInv PROVE FrameInv'
  <2>1. KeepsFrames(a)
    BY <1>1, <1>2 DEF KeepsFrames, TakenPlaces, SwampPlaces, FaultPlaces
  <2>2. VectorLost'
    BY <1>1, <1>2, <1>9, Universe DEF FrameInv, VectorLost, Inside, Moves, CallPlaces
  <2>3. WaitsAtVictim'
    <3>1. blocked[swampMutex] \in Seq(Proc)
      BY <1>1 DEF StateType
    <3>2. ToSet(blocked'[swampMutex]) \subseteq ToSet(blocked[swampMutex])
      BY <1>3, <1>4, <3>1, RemoveQueue
    <3>3. ASSUME NEW b \in ToSet(blocked[swampMutex]) PROVE pc'[b] = "victim"
      <4>1. b \in Proc /\ pc[b] = "victim"
        BY <1>9, <3>1, QueueElements DEF FrameInv, WaitsAtVictim
      <4> QED  BY <1>1, <1>2, <4>1 DEF Moves
    <3> QED  BY <3>2, <3>3 DEF WaitsAtVictim
  <2> QED  BY <1>2, <1>9, <2>1, <2>2, <2>3, FramesKept
<1> QED  BY <1>8, <1>9

\* Who works on the swap pool is alone with it: the others there wait.
LEMMA AloneInside ==
    ASSUME Inv, FrameInv, NEW a \in Asid, pc[a] \in SwampPlaces, ~Waits(a),
           NEW b \in Asid, pc[b] \in SwampPlaces, b # a
    PROVE  pc[b] = "victim"
<1>1. swampMutex \in DOMAIN blocked
  BY Universe DEF Inv, StateType, Mutexes
<1>2. a \notin ToSet(blocked[swampMutex])
  BY <1>1 DEF Waits
<1>3. a \in Inside(SwampPlaces) /\ b \in Inside(SwampPlaces)
  BY DEF Inside
<1>4. b \in ToSet(blocked[swampMutex])
  BY <1>2, <1>3 DEF Inv, LockInv, Mutex
<1> QED  BY <1>4 DEF FrameInv, WaitsAtVictim

\* The frame of the victim is taken: nobody else has one.
LEMMA TakeFrameKeeps ==
    ASSUME Inv, NEW a \in Asid, TakeFrame(a) PROVE Inv' /\ (FrameInv => FrameInv')
<1> DEFINE v == pickAVictim
           s == swamp[v]
<1>1. /\ pc[a] = "victim" /\ ~Waits(a) /\ UNCHANGED <<sem, blocked, tlbNew, swamp>>
      /\ StateType /\ Master /\ a \in Proc /\ local \in [Proc -> Locals]
  BY Universe DEF TakeFrame, Resumes, RunsWith, At, Inv, StateType, waiting
<1>2. v \in Frame /\ victim' = v
  BY <1>1, SizeAssumption DEF TakeFrame, pickAVictim, StateType, Frame
<1>3. s \in [asid : Asid, page : Page] \cup {NULL}
      /\ pte \in [Asid -> [Page -> Frame \cup {NULL}]]
  BY <1>1, <1>2 DEF StateType
<1>4. /\ local' \in [Proc -> Locals] /\ local'[a].vic = v /\ local'[a].fault = local[a].fault
      /\ \A b \in Proc \ {a} : local'[b] = local[b]
  <2>1. local' = [local EXCEPT ![a] = [local[a] EXCEPT !.vic = v]]
    BY <1>1 DEF TakeFrame
  <2>2. [local[a] EXCEPT !.vic = v] \in Locals
    BY <1>1, <1>2 DEF Locals
  <2> QED  BY <1>1, <2>1, <2>2 DEF Locals
<1>5. Moves(a) /\ pc'[a] \in {"mask", "writeOut"}
  BY <1>1, <1>4, Universe DEF TakeFrame, StateType, Goto, Moves
<1>6. \/ s = NULL /\ UNCHANGED <<pte, tlb>>
      \/ /\ s \in [asid : Asid, page : Page] /\ s # NULL
         /\ pte' = [pte EXCEPT ![s.asid][s.page] = NULL] /\ tlb' = Cleared(pte')
  BY <1>3 DEF TakeFrame, Invalidate
<1> HIDE DEF v
<1>7. RestTyped
  <2>1. pte' \in [Asid -> [Page -> Frame \cup {NULL}]]
    BY <1>3, <1>6
  <2> QED  BY <1>1, <1>2, <2>1 DEF StateType, RestTyped
<1>8. Mutex(diskMutex, DiskPlaces)'
  BY <1>1, <1>5, DiskQuiet DEF DiskPlaces, Quiet
<1>9. Mutex(swampMutex, SwampPlaces)'
  <2>1. \A b \in Asid : pc'[b] \in SwampPlaces <=> pc[b] \in SwampPlaces
    BY <1>1, <1>5, OneMoves DEF SwampPlaces
  <2> QED  BY <1>1, <2>1, MutexQuiet DEF Inv, LockInv
<1>10. Inv'
  BY <1>1, <1>5, <1>7, <1>8, <1>9, StepShape DEF Inv, LockInv, Master
<1>11. ASSUME FrameInv PROVE FrameInv'
  <2>1. \A b \in Asid \ {a} : pc[b] \in SwampPlaces => pc[b] = "victim"
    <3>1. pc[a] \in SwampPlaces
      BY <1>1 DEF SwampPlaces
    <3> QED  BY <1>1, <1>11, <3>1, AloneInside
  <2>2. Inside(TakenPlaces) = {} /\ Inside(TakenPlaces)' = {a}
    BY <1>1, <1>5, <2>1, Universe DEF Inside, TakenPlaces, SwampPlaces, Moves
  <2>3. Taken = {} /\ Taken' = {v}
    BY <1>4, <2>2 DEF Taken, vic
  <2>4. \A x \in Asid, p \in Page :
            pte[x][p] # NULL => swamp[pte[x][p]] = [asid |-> x, page |-> p] /\ pte[x][p] \in Frame
    BY <1>3, <1>11 DEF FrameInv, PoolAgrees
  <2>5. \A f \in Frame : swamp[f] # NULL => pte[swamp[f].asid][swamp[f].page] = f
    BY <1>11, <2>3 DEF FrameInv, PoolAgrees
  <2>6. tlb = Cleared(pte)
    BY <1>11 DEF FrameInv, PoolAgrees
  <2>7. \A x \in Asid, p \in Page : pte[x][p] = NULL => pte'[x][p] = NULL
    BY <1>3, <1>6
  <2>8. PoolAgrees'
    <3>1. CASE s = NULL /\ UNCHANGED <<pte, tlb>>
      <4>1. \A x \in Asid, p \in Page : NULL # [asid |-> x, page |-> p]
        BY SizeAssumption
      <4>2. \A x \in Asid, p \in Page : pte[x][p] # NULL => pte[x][p] # v
        <5>1. ASSUME NEW x \in Asid, NEW p \in Page, pte[x][p] # NULL, pte[x][p] = v PROVE FALSE
          <6>1. swamp[v] = [asid |-> x, page |-> p]
            BY <2>4, <5>1
          <6> QED  BY <3>1, <4>1, <6>1
        <5> QED  BY <5>1
      <4> QED  BY <1>1, <2>3, <2>4, <2>5, <2>6, <3>1, <4>2 DEF PoolAgrees, Cleared
    <3>2. CASE /\ s \in [asid : Asid, page : Page] /\ s # NULL
               /\ pte' = [pte EXCEPT ![s.asid][s.page] = NULL] /\ tlb' = Cleared(pte')
      <4>1. s.asid \in Asid /\ s.page \in Page /\ s = [asid |-> s.asid, page |-> s.page]
        BY <3>2
      <4>2. \A x \in Asid, p \in Page :
                pte'[x][p] = IF x = s.asid /\ p = s.page THEN NULL ELSE pte[x][p]
        BY <1>3, <3>2, <4>1
      <4>3. tlb' = Cleared(pte)'
        BY <3>2 DEF Cleared
      <4>4. \A x \in Asid, p \in Page :
                pte'[x][p] # NULL => /\ pte'[x][p] # v
                                     /\ swamp[pte'[x][p]] = [asid |-> x, page |-> p]
        BY <2>4, <4>1, <4>2
      <4>5. \A f \in Frame \ {v} : swamp[f] # NULL => pte'[swamp[f].asid][swamp[f].page] = f
        <5>1. ASSUME NEW f \in Frame \ {v}, swamp[f] # NULL
              PROVE  pte'[swamp[f].asid][swamp[f].page] = f
          <6>1. swamp[f].asid \in Asid /\ swamp[f].page \in Page
            BY <1>1, <5>1 DEF StateType
          <6>2. pte[s.asid][s.page] = v /\ pte[swamp[f].asid][swamp[f].page] = f
            BY <1>2, <2>5, <3>2, <5>1
          <6> QED  BY <4>2, <5>1, <6>1, <6>2
        <5> QED  BY <5>1
      <4> QED  BY <1>1, <2>3, <4>3, <4>4, <4>5 DEF PoolAgrees
    <3> QED  BY <1>6, <3>1, <3>2
  <2>9. FaultStands'
    <3>1. ASSUME NEW b \in Inside(FaultPlaces)'
          PROVE  /\ b \in Inside(FaultPlaces) /\ fault(b)' = fault(b)
                 /\ b \in Asid /\ fault(b).page \in Page
      <4>1. b \in Asid /\ b \in Proc
        BY Universe DEF Inside
      <4>2. b \in Inside(FaultPlaces)
        BY <1>1, <1>5, <4>1 DEF Moves, Inside, FaultPlaces, SwampPlaces
      <4>3. fault(b)' = fault(b)
        BY <1>4, <4>1 DEF fault
      <4>4. fault(b).page \in Page
        BY <1>1, <4>1 DEF fault, Locals
      <4> QED  BY <4>1, <4>2, <4>3, <4>4
    <3> QED  BY <1>11, <2>7, <3>1 DEF FrameInv, FaultStands
  <2>10. VectorLost'
    BY <1>1, <1>5, <1>11, Universe DEF FrameInv, VectorLost, Inside, Moves, CallPlaces
  <2>11. WaitsAtVictim'
    <3>1. blocked[swampMutex] \in Seq(Proc) /\ swampMutex \in DOMAIN blocked
      BY <1>1, Universe DEF StateType, Mutexes
    <3>2. ASSUME NEW b \in ToSet(blocked[swampMutex]) PROVE pc'[b] = "victim"
      <4>1. b \in Proc /\ pc[b] = "victim"
        BY <1>11, <3>1, QueueElements DEF FrameInv, WaitsAtVictim
      <4>2. b # a
        BY <1>1, <3>1 DEF Waits
      <4> QED  BY <1>5, <4>1, <4>2 DEF Moves
    <3> QED  BY <1>1, <3>2 DEF WaitsAtVictim
  <2> QED  BY <2>8, <2>9, <2>10, <2>11 DEF FrameInv
<1> QED  BY <1>10, <1>11

\* Swap pool and page table get the new page, and the frame is no longer taken.
LEMMA MapPageKeeps ==
    ASSUME Inv, NEW a \in Asid, MapPage(a) PROVE Inv' /\ (FrameInv => FrameInv')
<1> DEFINE v == vic(a)
           pg == fault(a).page
<1>1. /\ pc[a] = "update" /\ ~Waits(a) /\ UNCHANGED <<sem, blocked, local, tlbNew, victim>>
      /\ Goto(a, "swampUnlock")
      /\ swamp' = [swamp EXCEPT ![v] = [asid |-> a, page |-> pg]]
      /\ pte' = [pte EXCEPT ![a][pg] = v] /\ tlb' = Cleared(pte')
      /\ StateType /\ Master /\ a \in Proc /\ local \in [Proc -> Locals]
  BY Universe DEF MapPage, UpdateSwamp, Validate, At, Inv, StateType, waiting
<1>2. v \in Frame /\ pg \in Page
  BY <1>1 DEF vic, fault, Locals
<1>3. /\ swamp \in [Frame -> [asid : Asid, page : Page] \cup {NULL}]
      /\ pte \in [Asid -> [Page -> Frame \cup {NULL}]]
  BY <1>1 DEF StateType
<1>4. Moves(a) /\ pc'[a] = "swampUnlock"
  BY <1>1, Universe DEF StateType, Goto, Moves
<1> HIDE DEF v, pg
<1>5. RestTyped
  <2>1. swamp' \in [Frame -> [asid : Asid, page : Page] \cup {NULL}]
    BY <1>1, <1>2, <1>3
  <2>2. pte' \in [Asid -> [Page -> Frame \cup {NULL}]]
    BY <1>1, <1>2, <1>3
  <2> QED  BY <1>1, <2>1, <2>2 DEF StateType, RestTyped
<1>6. Mutex(diskMutex, DiskPlaces)'
  BY <1>1, <1>4, DiskQuiet DEF DiskPlaces, Quiet
<1>7. Mutex(swampMutex, SwampPlaces)'
  <2>1. \A b \in Asid : pc'[b] \in SwampPlaces <=> pc[b] \in SwampPlaces
    BY <1>1, <1>4, OneMoves DEF SwampPlaces
  <2> QED  BY <1>1, <2>1, MutexQuiet DEF Inv, LockInv
<1>8. Inv'
  BY <1>1, <1>4, <1>5, <1>6, <1>7, StepShape DEF Inv, LockInv, Master
<1>9. ASSUME FrameInv PROVE FrameInv'
  <2>1. \A b \in Asid \ {a} : pc[b] \in SwampPlaces => pc[b] = "victim"
    <3>1. pc[a] \in SwampPlaces
      BY <1>1 DEF SwampPlaces
    <3> QED  BY <1>1, <1>9, <3>1, AloneInside
  <2>2. Inside(TakenPlaces) = {a} /\ Inside(TakenPlaces)' = {}
    BY <1>1, <1>4, <2>1, Universe DEF Inside, TakenPlaces, SwampPlaces, Moves
  <2>3. Taken = {v} /\ Taken' = {}
    BY <2>2 DEF Taken, v
  <2>4. pte[a][pg] = NULL
    BY <1>1, <1>9 DEF FrameInv, FaultStands, Inside, FaultPlaces, SwampPlaces, pg
  <2>5. \A x \in Asid, p \in Page :
            pte'[x][p] = IF x = a /\ p = pg THEN v ELSE pte[x][p]
    BY <1>1, <1>2, <1>3
  <2>6. \A f \in Frame : swamp'[f] = IF f = v THEN [asid |-> a, page |-> pg] ELSE swamp[f]
    BY <1>1, <1>2, <1>3
  <2>7. PoolAgrees'
    <3>1. ASSUME NEW x \in Asid, NEW p \in Page, pte'[x][p] # NULL
          PROVE  swamp'[pte'[x][p]] = [asid |-> x, page |-> p]
      <4>1. CASE x = a /\ p = pg
        BY <1>2, <2>5, <2>6, <4>1
      <4>2. CASE ~(x = a /\ p = pg)
        <5>1. pte'[x][p] = pte[x][p] /\ pte[x][p] \in Frame
          BY <1>3, <2>5, <3>1, <4>2
        <5>2. pte[x][p] # v /\ swamp[pte[x][p]] = [asid |-> x, page |-> p]
          BY <1>9, <2>3, <3>1, <5>1 DEF FrameInv, PoolAgrees
        <5> QED  BY <2>6, <5>1, <5>2
      <4> QED  BY <4>1, <4>2
    <3>2. ASSUME NEW f \in Frame, swamp'[f] # NULL
          PROVE  pte'[swamp'[f].asid][swamp'[f].page] = f
      <4>1. CASE f = v
        BY <1>2, <2>5, <2>6, <4>1
      <4>2. CASE f # v
        <5>1. swamp'[f] = swamp[f] /\ swamp[f].asid \in Asid /\ swamp[f].page \in Page
          BY <1>3, <2>6, <3>2, <4>2
        <5>2. pte[swamp[f].asid][swamp[f].page] = f
          BY <1>9, <2>3, <3>2, <4>2, <5>1 DEF FrameInv, PoolAgrees
        <5>3. f # NULL
          BY SizeAssumption
        <5> QED  BY <2>4, <2>5, <5>1, <5>2, <5>3
      <4> QED  BY <4>1, <4>2
    <3>3. tlb' = Cleared(pte)'
      BY <1>1 DEF Cleared
    <3> QED  BY <2>3, <3>1, <3>2, <3>3 DEF PoolAgrees
  <2>8. FaultStands'
    <3>1. ASSUME NEW b \in Inside(FaultPlaces)'
          PROVE  b \in Inside(FaultPlaces) /\ b # a /\ pte'[b] = pte[b]
      BY <1>1, <1>3, <1>4, Universe DEF Moves, Inside, FaultPlaces
    <3> QED  BY <1>1, <1>9, <3>1 DEF FrameInv, FaultStands, fault
  <2>9. VectorLost'
    BY <1>1, <1>4, <1>9, Universe DEF FrameInv, VectorLost, Inside, Moves, CallPlaces
  <2>10. WaitsAtVictim'
    BY <1>1, <1>4, <1>9, WaitersStay DEF Quiet
  <2> QED  BY <2>7, <2>8, <2>9, <2>10 DEF FrameInv
<1> QED  BY <1>8, <1>9

LEMMA TLBHandlerKeeps ==
    ASSUME Inv, NEW a \in Asid, TLBHandler(a) PROVE Inv' /\ (FrameInv => FrameInv')
<1> USE DEF SameKind, DiskPlaces, SwampPlaces, TakenPlaces, FaultPlaces, CallPlaces
<1>1. CASE WriteOut(a)
  <2>1. CASE DoIO(a, "outSeek", Disk0, Disk0, Seek(swamp[vic(a)].page),
                  IF Ready(a, "disk") THEN "outWrite" ELSE "PANIC")
    <3>1. CASE Ready(a, "disk")
      BY <2>1, <3>1, DoIOQuiet, Universe
    <3>2. CASE ~Ready(a, "disk")
      BY <2>1, <3>2, DoIOQuiet, Universe
    <3> QED  BY <3>1, <3>2
  <2>2. CASE DoIO(a, "outWrite", Disk0, Disk0, WriteBlk(swamp[vic(a)], vic(a)), "outUnlock")
    BY <2>2, DoIOQuiet, Universe
  <2>3. CASE LockDisk(a, "writeOut", "outSeek")
    BY <2>3, LockDiskQuiet
  <2>4. CASE UnlockDisk(a, "outUnlock", "mask")
    BY <2>4, UnlockDiskQuiet
  <2> QED  BY <1>1, <2>1, <2>2, <2>3, <2>4 DEF WriteOut
<1>2. CASE ReadOut(a)
  <2>1. CASE DoIO(a, "inSeek", Disk0, Disk0, Seek(fault(a).page),
                  IF Ready(a, "disk") THEN "inRead" ELSE "PANIC")
    <3>1. CASE Ready(a, "disk")
      BY <2>1, <3>1, DoIOQuiet, Universe
    <3>2. CASE ~Ready(a, "disk")
      BY <2>1, <3>2, DoIOQuiet, Universe
    <3> QED  BY <3>1, <3>2
  <2>2. CASE DoIO(a, "inRead", Disk0, Disk0, ReadBlk(a, vic(a)), "inUnlock")
    BY <2>2, DoIOQuiet, Universe
  <2>3. CASE LockDisk(a, "readOut", "inSeek")
    BY <2>3, LockDiskQuiet
  <2>4. CASE UnlockDisk(a, "inUnlock", "update")
    BY <2>4, UnlockDiskQuiet
  <2> QED  BY <1>2, <2>1, <2>2, <2>3, <2>4 DEF ReadOut
<1>3. CASE MaskUpdate(a)
  <2>1. /\ At(a, "mask") /\ Goto(a, "readOut") /\ UNCHANGED <<waiting, local, tlbNew, paging>>
    BY <1>3 DEF MaskUpdate
  <2> QED  BY <2>1, LocalSame, MoveKeeps
<1>4. CASE Panic(a)
  BY <1>4, StayKeeps DEF Panic, At
<1>5. CASE ResumeProgram(a)
  <2>1. local' = [local EXCEPT ![a] = Unused] /\ "user" \notin TakenPlaces /\ "user" \notin FaultPlaces
    BY <1>5 DEF ResumeProgram
  <2>2. LocalStep(a, "user")
    BY <2>1, LocalReset
  <2> QED  BY <1>5, <2>2, MoveKeeps DEF ResumeProgram
<1> QED
  BY <1>1, <1>2, <1>3, <1>4, <1>5, EnterSwampKeeps, TakeFrameKeeps, MapPageKeeps,
     LeaveSwampKeeps DEF TLBHandler

-----------------------------------------------------------------------------
\* The devices, the clock and the scheduler move no process.
LEMMA NobodyMoves ==
    ASSUME Inv, UNCHANGED <<pc, sem, local, tlbNew, paging>>,
           blocked' \in [Semaphore \cup {Clock} \cup Device -> Seq(Proc)],
           \A s \in Semaphore : blocked'[s] = blocked[s]
    PROVE  Inv' /\ (FrameInv => FrameInv')
<1>1. StateType'
  BY DEF Inv, StateType, paging
<1>2. Quiet(diskMutex) /\ Quiet(swampMutex) /\ Quiet(masterSem)
  BY Universe DEF Quiet, Mutexes
<1>3. Master'
  BY <1>2 DEF Inv, Master, Quiet
<1>4. Mutex(diskMutex, DiskPlaces)'
  BY <1>2, MutexQuiet DEF Inv, LockInv, Quiet
<1>5. Mutex(swampMutex, SwampPlaces)'
  BY <1>2, MutexQuiet DEF Inv, LockInv, Quiet
<1>6. Births'
  BY DEF Inv, LockInv, Births, Counted
<1>7. ASSUME FrameInv PROVE FrameInv'
  <2>1. \A S : Inside(S)' = Inside(S)
    BY DEF Inside
  <2>2. Taken' = Taken
    BY <2>1 DEF Taken, vic
  <2> QED
    BY <1>2, <1>7, <2>1, <2>2 DEF FrameInv, WaitsAtVictim, FaultStands, VectorLost, PoolAgrees,
       Quiet, paging, Cleared, fault
<1> QED  BY <1>1, <1>3, <1>4, <1>5, <1>6, <1>7 DEF Inv, LockInv

LEMMA DeviceKeeps ==
    ASSUME Inv, NEW d \in Device, DeviceInterrupt(d) PROVE Inv' /\ (FrameInv => FrameInv')
<1>1. UNCHANGED <<pc, sem, local, tlbNew, paging>>
  BY DEF DeviceInterrupt
<1>2. \/ blocked' = blocked
      \/ blocked[d] # <<>> /\ blocked' = [blocked EXCEPT ![d] = Tail(@)]
  BY DEF DeviceInterrupt
<1>3. d \notin Semaphore
  BY Universe
<1>4. blocked[d] # <<>> => Tail(blocked[d]) \in Seq(Proc)
  BY RemoveQueue DEF Inv, StateType
<1>5. /\ blocked' \in [Semaphore \cup {Clock} \cup Device -> Seq(Proc)]
      /\ \A s \in Semaphore : blocked'[s] = blocked[s]
  BY <1>2, <1>3, <1>4 DEF Inv, StateType
<1> QED  BY <1>1, <1>5, NobodyMoves

LEMMA TickKeeps == ASSUME Inv, Tick PROVE Inv' /\ (FrameInv => FrameInv')
<1>1. UNCHANGED <<pc, sem, local, tlbNew, paging>>
  BY DEF Tick
<1>2. Clock \notin Semaphore /\ <<>> \in Seq(Proc)
  BY Universe
<1>3. /\ blocked' \in [Semaphore \cup {Clock} \cup Device -> Seq(Proc)]
      /\ \A s \in Semaphore : blocked'[s] = blocked[s]
  BY <1>2 DEF Tick, Inv, StateType
<1> QED  BY <1>1, <1>3, NobodyMoves

-----------------------------------------------------------------------------
\* test() starts with both mutexes free and no frame in use.
LEMMA InitKeeps == ASSUME Init PROVE Inv /\ FrameInv
<1>1. StateType
  <2>1. local \in [Proc -> Locals]
    BY UnusedType DEF Init
  <2>2. blocked \in [Semaphore \cup {Clock} \cup Device -> Seq(Proc)]
    BY DEF Init
  <2>3. sem \in [Semaphore -> Int]
    BY DEF Init
  <2> QED  BY <2>1, <2>2, <2>3, Universe DEF Init, StateType
<1>2. Inside(DiskPlaces) = {} /\ Inside(SwampPlaces) = {}
  BY Universe DEF Inside, Init, DiskPlaces, SwampPlaces
<1>3. Mutex(diskMutex, DiskPlaces) /\ Mutex(swampMutex, SwampPlaces)
  <2>1. IsInjective(<<>>)
    BY DEF IsInjective
  <2>2. /\ blocked[diskMutex] = <<>> /\ blocked[swampMutex] = <<>>
        /\ sem[diskMutex] = 1 /\ sem[swampMutex] = 1
    BY Universe DEF Init, Mutexes
  <2> QED  BY <1>2, <2>1, <2>2 DEF Mutex
<1>4. Master
  BY Universe DEF Master, Init
<1>5. Births
  BY Universe, SizeAssumption DEF Births, Init, Counted, Unused
<1>6. FrameInv
  <2>1. Taken = {}
    BY Universe DEF Taken, TakenPlaces, SwampPlaces, Inside, Init
  <2>2. FaultStands /\ VectorLost
    BY Universe DEF FaultStands, VectorLost, FaultPlaces, SwampPlaces, CallPlaces, Inside, Init
  <2>3. WaitsAtVictim
    BY Universe DEF WaitsAtVictim, Init, ToSet, Mutexes
  <2>4. PoolAgrees
    <3>1. Cleared(pte) = {}
      BY SizeAssumption DEF Cleared, Init
    <3> QED  BY <3>1, <2>1 DEF PoolAgrees, Init
  <2> QED  BY <2>2, <2>3, <2>4 DEF FrameInv
<1> QED  BY <1>1, <1>3, <1>4, <1>5, <1>6 DEF Inv, LockInv

LEMMA StepKeeps ==
    ASSUME Inv, [Next]_vars PROVE Inv' /\ (Segment = {2} /\ FrameInv => FrameInv')
<1>1. CASE Deadlock \/ Stop \/ UNCHANGED vars
  <2>1. UNCHANGED <<pc, waiting, local, tlbNew, paging>>
    BY <1>1 DEF Deadlock, Stop, vars
  <2> QED  BY <2>1, NobodyMoves DEF Inv, StateType, waiting
<1>2. ASSUME NEW a \in Asid, Professor(a) \/ Program(a) \/ Handlers(a)
      PROVE  Inv' /\ (Segment = {2} /\ FrameInv => FrameInv')
  BY <1>2, ProfessorKeeps, ProgramKeeps, TLBHandlerKeeps, SyscallHandlerKeeps DEF Handlers
<1> QED  BY <1>1, <1>2, TestKeeps, DeviceKeeps, TickKeeps DEF Next

\* The invariants hold in every reachable state.
LEMMA InvHolds == Spec => []Inv
<1>1. Init => Inv
  BY InitKeeps
<1>2. Inv /\ [Next]_vars => Inv'
  BY StepKeeps
<1> QED  BY <1>1, <1>2, PTL DEF Spec

\* Each mutex is free with nobody inside, or one process is inside and the others
\* there are the ones that wait for it, each once; and test() creates each child
\* once: the P's and V's of initProc.c and vmIOsupport.c are in pairs.
THEOREM LocksAreSound == Spec => []LockInv
<1>1. Inv => LockInv
  BY DEF Inv
<1> QED  BY <1>1, InvHolds, PTL

\* While faults are served, too, every valid page table entry names the frame that
\* the swap pool has for its page, the TLB has no other translation, the frame a
\* handler has taken is nobody's, and the fault it works on is still one.
THEOREM PoolIsSound == ASSUME Segment = {2} PROVE Spec => []FrameInv
<1>1. Init => FrameInv
  BY InitKeeps
<1>2. Inv /\ FrameInv /\ [Next]_vars => FrameInv'
  BY StepKeeps
<1> QED  BY <1>1, <1>2, InvHolds, PTL DEF Spec

-----------------------------------------------------------------------------
\* A queue without duplicates is as long as it has members.
LEMMA QueueSize ==
    ASSUME NEW S, NEW q \in Seq(S), IsInjective(q)
    PROVE  IsFiniteSet(ToSet(q)) /\ Cardinality(ToSet(q)) = Len(q)
<1>1. Len(q) \in Nat /\ DOMAIN q = 1 .. Len(q) /\ q \in [1 .. Len(q) -> S]
  BY LenProperties
<1>2. q \in Surjection(1 .. Len(q), ToSet(q)) /\ q \in Injection(1 .. Len(q), ToSet(q))
  BY <1>1 DEF Surjection, Injection, IsInjective, ToSet
<1>3. IsFiniteSet(1 .. Len(q)) /\ Cardinality(1 .. Len(q)) = Len(q)
  BY <1>1, FS_Interval
<1> QED  BY <1>2, <1>3, FS_Surjection

\* What Mutex says in numbers.
LEMMA MutexCounts ==
    ASSUME StateType, NEW s \in Mutexes, NEW places, Mutex(s, places)
    PROVE  MutexExact(s, places)
<1> DEFINE q == blocked[s]
<1>1. q \in Seq(Proc) /\ sem[s] \in Int /\ Len(q) \in Nat /\ IsInjective(q)
  BY Universe, LenProperties DEF StateType, Mutex
<1>2. IsFiniteSet(ToSet(q)) /\ Cardinality(ToSet(q)) = Len(q)
  BY <1>1, QueueSize
<1>3. CASE sem[s] = 1 /\ q = <<>> /\ Inside(places) = {}
  BY <1>3, FS_EmptySet DEF MutexExact, Holders
<1>4. ASSUME sem[s] = - Len(q), NEW h \in Asid \ ToSet(q), Inside(places) = {h} \cup ToSet(q)
      PROVE  MutexExact(s, places)
  <2>1. Holders(s, places) = {h} /\ Cardinality({h}) = 1
    BY <1>4, FS_Singleton DEF Holders
  <2>2. Inside(places) = ToSet(q) \cup {h}
    BY <1>4
  <2>3. Cardinality(Inside(places)) = Len(q) + 1
    BY <1>2, <1>4, <2>2, FS_AddElement
  <2>4. sem[s] = 1 - Cardinality(Inside(places)) /\ sem[s] # 1
    BY <1>1, <1>4, <2>3
  <2> QED  BY <2>1, <2>4 DEF MutexExact
<1> QED  BY <1>3, <1>4 DEF Mutex

\* Whatever the programs and devices do, one process at a time gives commands to
\* disk 0, and its semaphore counts exactly who is inside and who waits.
THEOREM DiskExcludes == Spec => []DiskMutexExact
<1>1. Inv => DiskMutexExact
  BY MutexCounts DEF Inv, LockInv, DiskMutexExact, Mutexes
<1> QED  BY <1>1, InvHolds, PTL

\* So for the swap pool, from the P of userTLBHandler to its V.
THEOREM SwapPoolExcludes == Spec => []SwampMutexExact
<1>1. Inv => SwampMutexExact
  BY MutexCounts DEF Inv, LockInv, SwampMutexExact, Mutexes
<1> QED  BY <1>1, InvHolds, PTL

\* If the programs use segment 2 only, swap pool, page tables and TLB agree
\* whenever no fault is being served: a frame is one page's, a valid page is in
\* one frame and no translation outlives its entry.
THEOREM FramesAgree == ASSUME Segment = {2} PROVE Spec => []FramesExact
<1>1. Inv /\ FrameInv => FramesExact
  <2> SUFFICES ASSUME Inv, FrameInv PROVE FramesExact
    OBVIOUS
  <2>1. ASSUME sem[swampMutex] = 1 PROVE Taken = {}
    <3>1. blocked[swampMutex] \in Seq(Proc) /\ Len(blocked[swampMutex]) \in Nat
      BY Universe, LenProperties DEF Inv, StateType, Mutexes
    <3>2. Inside(SwampPlaces) = {}
      BY <2>1, <3>1 DEF Inv, LockInv, Mutex
    <3> QED  BY <3>2 DEF Taken, TakenPlaces, Inside
  <2>2. ASSUME sem[swampMutex] = 1, NEW f \in Frame, NEW a \in Asid, NEW p \in Page
        PROVE  pte[a][p] = f <=> swamp[f] = [asid |-> a, page |-> p]
    <3>1. f # NULL /\ [asid |-> a, page |-> p] # NULL
      BY SizeAssumption
    <3>2. pte[a][p] = f => swamp[f] = [asid |-> a, page |-> p]
      BY <3>1 DEF FrameInv, PoolAgrees
    <3>3. swamp[f] = [asid |-> a, page |-> p] => pte[a][p] = f
      BY <2>1, <2>2, <3>1 DEF FrameInv, PoolAgrees
    <3> QED  BY <3>2, <3>3
  <2> QED  BY <2>2 DEF FramesExact, FrameInv, PoolAgrees
<1> QED  BY <1>1, InvHolds, PoolIsSound, PTL

-----------------------------------------------------------------------------
\* test() waits when it has created every child, and for each of them once.
TestInv ==
    /\ pc[Test] = "create" =>
        /\ blocked[masterSem] = <<>>
        /\ \A a \in Asid : a <= Counted => pc[a] # "unborn"
    /\ pc[Test] # "create" =>
        /\ Counted <= MAXUPROC
        /\ \A a \in Asid : pc[a] # "unborn"
    /\ pc[Test] = "await" => Counted < MAXUPROC

WaitInv == TestInv /\ WaitsAtVictim /\ DeadlockIsRight

\* What a step of process a asks of the nucleus.
Asks(a) ==
    \/ \A m \in {masterSem, swampMutex} : blocked'[m] = blocked[m]
    \/ V(a, masterSem)
    \/ V(a, swampMutex)
    \/ P(a, swampMutex) /\ pc'[a] = "victim"

\* Process a takes a step, test() and the scheduler do not.
Steps(a) ==
    /\ ~Waits(a) /\ pc'[a] # "unborn" /\ kernel' # "deadlock"
    /\ \A b \in Proc \ {a} : pc'[b] = pc[b]
    /\ local'[Test] = local[Test]
    /\ Asks(a)

\* The way from one place to another.
LEMMA GoesTo ==
    ASSUME Inv, NEW a \in Asid, NEW place, At(a, place), NEW to, Goto(a, to), to # "unborn"
    PROVE  /\ ~Waits(a) /\ pc'[a] = to /\ kernel = "up"
           /\ \A b \in Proc \ {a} : pc'[b] = pc[b]
BY Universe DEF Inv, StateType, At, Goto

\* A handler's variables are not those of test().
LEMMA LocalOfTest ==
    ASSUME Inv, NEW a \in Asid, NEW l, local' = [local EXCEPT ![a] = l]
    PROVE  local'[Test] = local[Test]
BY Universe DEF Inv, StateType

LEMMA CountOfTest ==
    ASSUME Inv, NEW a \in Asid, NEW n, Count(a, n) PROVE local'[Test] = local[Test]
BY Universe DEF Inv, StateType, Count

LEMMA DoIOSteps ==
    ASSUME Inv, NEW a \in Asid, NEW place, NEW commanded, NEW awaited \in Device, NEW op,
           NEW then, DoIO(a, place, commanded, awaited, op, then), place # "unborn",
           then # "unborn"
    PROVE  Steps(a)
<1>1. ~Waits(a) /\ kernel' # "deadlock" /\ pc[a] = place /\ local' = local /\ StateType
  BY DEF DoIO, At, Inv
<1>2. /\ pc' = pc \/ Goto(a, then)
      /\ blocked' = blocked \/ Sleep(a, awaited)
  BY DEF DoIO
<1>3. pc'[a] # "unborn" /\ \A b \in Proc \ {a} : pc'[b] = pc[b]
  BY <1>1, <1>2, Universe DEF StateType, Goto
<1>4. Asks(a)
  BY <1>1, <1>2, SleepOn, Universe DEF Asks, Mutexes
<1> QED  BY <1>1, <1>3, <1>4 DEF Steps

LEMMA LockDiskSteps ==
    ASSUME Inv, NEW a \in Asid, NEW from, NEW to, to # "unborn",
           LockDisk(a, from, to) \/ UnlockDisk(a, from, to)
    PROVE  Steps(a)
<1>1. /\ At(a, from) /\ Goto(a, to) /\ local' = local /\ kernel' = kernel
      /\ P(a, diskMutex) \/ V(a, diskMutex)
  BY DEF LockDisk, UnlockDisk, NoIO
<1>2. /\ ~Waits(a) /\ pc'[a] = to /\ kernel = "up"
      /\ \A b \in Proc \ {a} : pc'[b] = pc[b]
  BY <1>1, GoesTo
<1>3. \A m \in {masterSem, swampMutex} : blocked'[m] = blocked[m]
  <2>1. {masterSem, swampMutex} \subseteq Semaphore \ {diskMutex}
    BY Universe DEF Mutexes
  <2>2. \/ blocked' = blocked
        \/ \E q : blocked' = [blocked EXCEPT ![diskMutex] = q]
    BY <1>1 DEF P, V, Sleep
  <2> QED  BY <2>1, <2>2 DEF Inv, StateType
<1> QED  BY <1>1, <1>2, <1>3 DEF Steps, Asks

\* A step that asks nothing of the nucleus.
LEMMA PlainSteps ==
    ASSUME Inv, NEW a \in Asid, NEW place, At(a, place), NEW to, Goto(a, to), to # "unborn",
           UNCHANGED blocked, kernel' # "deadlock", local'[Test] = local[Test]
    PROVE  Steps(a)
BY GoesTo DEF Steps, Asks

LEMMA ProfessorSteps == ASSUME Inv, NEW a \in Asid, Professor(a) PROVE Steps(a)
<1>1. CASE SetVectors(a) \/ StartProgram(a)
  BY <1>1, PlainSteps DEF SetVectors, StartProgram, NoIO, At, waiting
<1>2. CASE ReadTape(a)
  BY <1>2, DoIOSteps, Universe DEF ReadTape
<1>3. CASE StoreBlock(a)
  <2>1. CASE UnlockDisk(a, "seekUnlock", IF Ready(a, "disk") THEN "storeLock" ELSE "stored")
    <3>1. (IF Ready(a, "disk") THEN "storeLock" ELSE "stored") # "unborn"
      OBVIOUS
    <3> QED  BY <2>1, <3>1, LockDiskSteps
  <2>2. CASE \/ DoIO(a, "seek", Disk0, Disk0, Seek(currentPage(a)), "seekUnlock")
             \/ DoIO(a, "store", Disk0, Disk0, WriteBuffer(a), "storeUnlock")
    BY <2>2, DoIOSteps, Universe
  <2>3. CASE \/ LockDisk(a, "seekLock", "seek") \/ LockDisk(a, "storeLock", "store")
             \/ UnlockDisk(a, "storeUnlock", "stored")
    BY <2>3, LockDiskSteps
  <2> QED  BY <1>3, <2>1, <2>2, <2>3 DEF StoreBlock
<1>4. CASE NextBlock(a)
  <2>1. At(a, "stored") /\ UNCHANGED <<blocked, kernel>>
    BY <1>4 DEF NextBlock, NoIO, waiting
  <2>2. \E to \in {"tape", "start"} : Goto(a, to)
    BY <1>4 DEF NextBlock
  <2>3. local'[Test] = local[Test]
    BY <1>4, CountOfTest DEF NextBlock
  <2> QED  BY <2>1, <2>2, <2>3, PlainSteps DEF At
<1> QED  BY <1>1, <1>2, <1>3, <1>4 DEF Professor, ReadAndStore

\* A step that stays where it is, but for the end of the machine.
LEMMA StaysSteps ==
    ASSUME Inv, NEW a \in Asid, NEW place, At(a, place), place # "unborn",
           UNCHANGED <<pc, blocked>>, kernel' # "deadlock", local'[Test] = local[Test]
    PROVE  Steps(a)
BY DEF Steps, Asks, At

LEMMA EnterSteps ==
    ASSUME Inv, NEW a \in Asid, NEW place, At(a, place), place # "unborn",
           EnterTLBHandler(a), UNCHANGED blocked, local'[Test] = local[Test]
    PROVE  Steps(a)
<1>1. CASE kernel' = kernel /\ \E to \in {"tlb", "sys18"} : Goto(a, to)
  BY <1>1, PlainSteps DEF At
<1>2. CASE kernel' = "astray" /\ pc' = pc
  BY <1>2, StaysSteps
<1> QED  BY <1>1, <1>2 DEF EnterTLBHandler, Syscall18

LEMMA ProgramSteps == ASSUME Inv, NEW a \in Asid, Program(a) PROVE Steps(a)
<1>1. CASE \E p \in Page : Store(a, p)
  BY <1>1, StaysSteps DEF Store, At, waiting
<1>2. CASE PageFault(a)
  <2>1. At(a, "user") /\ EnterTLBHandler(a) /\ UNCHANGED blocked
    BY <1>2 DEF PageFault, waiting
  <2>2. local'[Test] = local[Test]
    BY <1>2, Universe DEF PageFault, Inv, StateType
  <2> QED  BY <2>1, <2>2, EnterSteps
<1>3. CASE Call(a)
  <2>1. PICK c \in UserCall : Set(a, c, 0) /\ Goto(a, Branch(c))
    BY <1>3 DEF Call
  <2>2. Branch(c) # "unborn"
    BY DEF Branch
  <2>3. local'[Test] = local[Test]
    BY <2>1, LocalOfTest DEF Set
  <2> QED  BY <1>3, <2>1, <2>2, <2>3, PlainSteps DEF Call, NoIO, At, waiting
<1>4. CASE ProgramTrap(a)
  BY <1>4, PlainSteps DEF ProgramTrap, Syscall18, NoIO, At, waiting
<1> QED  BY <1>1, <1>2, <1>3, <1>4 DEF Program

\* The P and the V of swampMutex.
LEMMA SwampSteps ==
    ASSUME Inv, NEW a \in Asid, EnterSwamp(a) \/ LeaveSwamp(a) PROVE Steps(a)
<1>1. CASE EnterSwamp(a) /\ fault(a).cause \notin {2, 3}
  BY <1>1, PlainSteps DEF EnterSwamp, Syscall18, NoIO, At, waiting
<1>2. CASE EnterSwamp(a) /\ fault(a).cause \in {2, 3}
  <2>1. /\ At(a, "tlb") /\ Goto(a, "victim") /\ P(a, swampMutex) /\ local' = local
        /\ kernel' = kernel
    BY <1>2 DEF EnterSwamp, NoIO
  <2> QED  BY <2>1, GoesTo DEF Steps, Asks
<1>3. CASE LeaveSwamp(a)
  <2>1. /\ At(a, "swampUnlock") /\ Goto(a, "LDST") /\ V(a, swampMutex) /\ local' = local
        /\ kernel' = kernel
    BY <1>3 DEF LeaveSwamp, NoIO
  <2> QED  BY <2>1, GoesTo DEF Steps, Asks
<1> QED  BY <1>1, <1>2, <1>3

LEMMA TLBHandlerSteps == ASSUME Inv, NEW a \in Asid, TLBHandler(a) PROVE Steps(a)
<1>1. CASE TakeFrame(a)
  <2>1. At(a, "victim") /\ UNCHANGED <<blocked, kernel>> /\ \E to \in {"mask", "writeOut"} : Goto(a, to)
    BY <1>1 DEF TakeFrame, waiting
  <2>2. local'[Test] = local[Test]
    BY <1>1, Universe DEF TakeFrame, Inv, StateType
  <2> QED  BY <2>1, <2>2, PlainSteps DEF At
<1>2. CASE WriteOut(a)
  <2>1. (IF Ready(a, "disk") THEN "outWrite" ELSE "PANIC") # "unborn"
    OBVIOUS
  <2> QED  BY <1>2, <2>1, DoIOSteps, LockDiskSteps, Universe DEF WriteOut
<1>3. CASE ReadOut(a)
  <2>1. (IF Ready(a, "disk") THEN "inRead" ELSE "PANIC") # "unborn"
    OBVIOUS
  <2> QED  BY <1>3, <2>1, DoIOSteps, LockDiskSteps, Universe DEF ReadOut
<1>4. CASE MaskUpdate(a) \/ MapPage(a)
  BY <1>4, PlainSteps DEF MaskUpdate, MapPage, At, waiting
<1>5. CASE Panic(a)
  BY <1>5, StaysSteps DEF Panic, At, waiting
<1>6. CASE ResumeProgram(a)
  <2>1. local'[Test] = local[Test]
    BY <1>6, LocalOfTest DEF ResumeProgram
  <2> QED  BY <1>6, <2>1, PlainSteps DEF ResumeProgram, At, waiting
<1> QED  BY <1>1, <1>2, <1>3, <1>4, <1>5, <1>6, SwampSteps DEF TLBHandler

\* The loops of SYS10 and SYS16.
LEMMA CharSteps ==
    ASSUME Inv, NEW a \in Asid, NEW loop, NEW give, NextChar(a, loop, give),
           loop # "unborn", give # "unborn"
    PROVE  Steps(a)
<1>1. At(a, loop) /\ UNCHANGED <<blocked, local>>
  BY DEF NextChar, waiting
<1>2. \/ EnterTLBHandler(a)
      \/ kernel' = kernel /\ \E to \in {"return", "sys18", give} : Goto(a, to)
  BY DEF NextChar, Syscall18
<1> QED  BY <1>1, <1>2, EnterSteps, PlainSteps DEF At

LEMMA SentSteps ==
    ASSUME Inv, NEW a \in Asid, NEW place, NEW loop, NEW error, CharSent(a, place, loop, error),
           loop # "unborn"
    PROVE  Steps(a)
<1>1. At(a, place) /\ UNCHANGED <<blocked, kernel>> /\ \E to \in {"return", loop} : Goto(a, to)
  BY DEF CharSent, NoIO, waiting
<1>2. local' = local \/ Set(a, call(a), i(a) + 1)
  BY DEF CharSent
<1>3. local'[Test] = local[Test]
  BY <1>2, LocalOfTest DEF Set
<1> QED  BY <1>1, <1>3, PlainSteps DEF At

LEMMA DelaySteps == ASSUME Inv, NEW a \in Asid, Delay(a) PROVE Steps(a)
<1>1. At(a, "delay") /\ kernel' = kernel
  BY DEF Delay, NoIO
<1>2. CASE Sleep(a, Clock) /\ Set(a, call(a), i(a) + 1) /\ pc' = pc
  <2>1. local'[Test] = local[Test]
    BY <1>2, LocalOfTest DEF Set
  <2>2. \A m \in {masterSem, swampMutex} : blocked'[m] = blocked[m]
    BY <1>2, SleepOn, Universe DEF Inv, Mutexes
  <2> QED  BY <1>1, <1>2, <2>1, <2>2 DEF Steps, Asks, At
<1>3. CASE Goto(a, "return") /\ UNCHANGED <<local, waiting>>
  BY <1>1, <1>3, PlainSteps DEF At, waiting
<1> QED  BY <1>2, <1>3 DEF Delay

LEMMA SyscallHandlerSteps == ASSUME Inv, NEW a \in Asid, SyscallHandler(a) PROVE Steps(a)
<1>1. CASE Sys18(a)
  <2>1. /\ At(a, "sys18") /\ Goto(a, "terminate") /\ V(a, masterSem) /\ local' = local
        /\ kernel' = kernel
    BY <1>1 DEF Sys18, NoIO
  <2> QED  BY <2>1, GoesTo DEF Steps, Asks
<1>2. CASE Terminate(a) \/ Return(a)
  <2>1. local' = [local EXCEPT ![a] = Unused]
    BY <1>2 DEF Terminate, Dies, Return
  <2>2. local'[Test] = local[Test]
    BY <2>1, LocalOfTest
  <2> QED  BY <1>2, <2>2, PlainSteps DEF Terminate, Dies, Return, NoIO, At, waiting
<1>3. CASE PrintString(a)
  BY <1>3, CharSteps, SentSteps, DoIOSteps, Universe DEF PrintString
<1>4. CASE TypeString(a)
  BY <1>4, CharSteps, SentSteps, DoIOSteps, Universe DEF TypeString
<1> QED  BY <1>1, <1>2, <1>3, <1>4, DelaySteps DEF SyscallHandler

-----------------------------------------------------------------------------
\* Who waits for swampMutex after a step: who did, or the process that asked.
LEMMA StepsKeep == ASSUME Inv, WaitInv, NEW a \in Asid, Steps(a) PROVE WaitInv'
<1>1. /\ StateType /\ Master /\ Test \in Proc \ {a} /\ a \in Proc /\ Asid \subseteq Proc
      /\ {masterSem, swampMutex} \subseteq Semaphore /\ masterSem # swampMutex
  BY Universe DEF Inv, Mutexes
<1>2. Counted' = Counted /\ pc'[Test] = pc[Test]
  BY <1>1 DEF Steps, Counted
<1>3. TestInv'
  <2>1. pc[Test] = "create" => blocked'[masterSem] = <<>>
    <3>1. ASSUME pc[Test] = "create", V(a, masterSem) PROVE blocked'[masterSem] = <<>>
      <4>1. blocked[masterSem] = <<>> /\ sem[masterSem] >= 0 /\ sem[masterSem] \in Int
        <5>1. blocked[masterSem] = <<>> /\ <<Test>> # <<>>
          BY <3>1 DEF WaitInv, TestInv
        <5> QED  BY <1>1, <5>1 DEF Master, StateType
      <4> QED  BY <3>1, <4>1 DEF V
    <3>2. ASSUME ~V(a, masterSem) PROVE blocked'[masterSem] = blocked[masterSem]
      <4>1. \A q : blocked' = [blocked EXCEPT ![swampMutex] = q] => blocked'[masterSem] = blocked[masterSem]
        BY <1>1 DEF StateType
      <4>2. CASE V(a, swampMutex) \/ P(a, swampMutex)
        BY <4>1, <4>2 DEF V, P, Sleep
      <4> QED  BY <3>2, <4>2 DEF Steps, Asks
    <3> QED  BY <3>1, <3>2 DEF WaitInv, TestInv
  <2>2. \A b \in Asid : pc[b] # "unborn" => pc'[b] # "unborn"
    BY <1>1 DEF Steps
  <2> QED  BY <1>2, <2>1, <2>2 DEF WaitInv, TestInv
<1>4. WaitsAtVictim'
  <2>1. blocked[swampMutex] \in Seq(Proc)
    BY <1>1 DEF StateType
  <2>2. \/ blocked'[swampMutex] = blocked[swampMutex]
        \/ blocked'[swampMutex] = Append(blocked[swampMutex], a) /\ pc'[a] = "victim"
        \/ blocked'[swampMutex] = Tail(blocked[swampMutex]) /\ V(a, swampMutex) /\ sem[swampMutex] + 1 <= 0
    <3>1. CASE V(a, masterSem)
      BY <1>1, <3>1 DEF V, StateType
    <3>2. CASE V(a, swampMutex)
      BY <1>1, <3>2 DEF V, StateType
    <3>3. CASE P(a, swampMutex) /\ pc'[a] = "victim"
      BY <1>1, <3>3, PType
    <3> QED  BY <3>1, <3>2, <3>3 DEF Steps, Asks
  <2>3. ToSet(blocked'[swampMutex]) \subseteq
            ToSet(blocked[swampMutex]) \cup (IF pc'[a] = "victim" THEN {a} ELSE {})
    <3>1. CASE blocked'[swampMutex] = Append(blocked[swampMutex], a) /\ pc'[a] = "victim"
      BY <1>1, <2>1, <3>1, InsertQueue DEF InsertProcQ
    <3>2. CASE blocked'[swampMutex] = Tail(blocked[swampMutex]) /\ sem[swampMutex] + 1 <= 0
      <4>1. blocked[swampMutex] # <<>> /\ IsInjective(blocked[swampMutex])
        BY <3>2, <1>1 DEF Inv, LockInv, Mutex, StateType
      <4> QED  BY <2>1, <3>2, <4>1, RemoveQueue
    <3> QED  BY <2>2, <3>1, <3>2
  <2>4. ASSUME NEW b \in ToSet(blocked'[swampMutex]) PROVE pc'[b] = "victim"
    <3>1. CASE b \in ToSet(blocked[swampMutex])
      <4>1. b \in Proc /\ b # a /\ pc[b] = "victim"
        BY <1>1, <2>1, <3>1, QueueElements DEF WaitInv, WaitsAtVictim, Steps, Waits, StateType
      <4> QED  BY <4>1 DEF Steps
    <3>2. CASE b = a /\ pc'[a] = "victim"
      BY <3>2
    <3> QED  BY <2>3, <2>4, <3>1, <3>2
  <2> QED  BY <2>4 DEF WaitsAtVictim
<1>5. DeadlockIsRight'
  BY DEF Steps, DeadlockIsRight
<1> QED  BY <1>3, <1>4, <1>5 DEF WaitInv

\* The creation of a child, and the wait for one.
LEMMA CreateSteps == ASSUME Inv, WaitInv, CreateChild PROVE WaitInv'
<1> DEFINE c == Counted + 1
<1>1. /\ StateType /\ Births /\ pc[Test] = "create" /\ kernel' = "up"
      /\ UNCHANGED <<sem, blocked>>
  BY DEF Inv, LockInv, CreateChild, At, NoIO, waiting
<1>2. /\ Test \in Proc /\ Asid \subseteq Proc /\ Test \notin Asid /\ MAXUPROC \in Nat
      /\ Asid = 1 .. MAXUPROC
  BY Universe, SizeAssumption DEF Asid
<1>3. Counted \in Nat /\ Counted < MAXUPROC /\ c \in Asid /\ c # Test
  BY <1>1, <1>2 DEF StateType, Locals, Births, Counted
<1>4. Counted' = IF c < MAXUPROC THEN c ELSE 0
  BY <1>1, <1>2 DEF CreateChild, Count, StateType, Locals, Counted
<1>5. PICK next : /\ pc' = [pc EXCEPT ![c] = "professor", ![Test] = next]
                  /\ next = IF c < MAXUPROC THEN "create" ELSE "await"
  BY DEF CreateChild
<1>6. /\ pc'[Test] = next /\ pc'[c] = "professor"
      /\ \A b \in Asid \ {c} : pc'[b] = pc[b]
  <2>1. DOMAIN pc = Proc /\ c \in Proc
    BY <1>1, <1>2, <1>3 DEF StateType
  <2> HIDE DEF c
  <2> QED  BY <1>2, <1>3, <1>5, <2>1
<1>7. ASSUME NEW b \in Asid, b <= c PROVE pc'[b] # "unborn"
  <2>1. b = c \/ b <= Counted
    BY <1>2, <1>3, <1>7
  <2> QED  BY <1>1, <1>6, <1>7, <2>1 DEF WaitInv, TestInv
<1>8. TestInv'
  <2>1. blocked'[masterSem] = <<>>
    BY <1>1 DEF WaitInv, TestInv
  <2>2. CASE c < MAXUPROC
    <3>1. pc'[Test] = "create" /\ Counted' = c
      BY <1>4, <1>5, <1>6, <2>2
    <3> QED  BY <1>7, <2>1, <3>1 DEF TestInv
  <2>3. CASE ~(c < MAXUPROC)
    <3>1. pc'[Test] = "await" /\ Counted' = 0
      BY <1>4, <1>5, <1>6, <2>3
    <3>2. \A b \in Asid : b <= c
      BY <1>2, <1>3, <2>3
    <3>3. 0 <= MAXUPROC /\ 0 < MAXUPROC
      BY <1>2, <1>3
    <3> QED  BY <1>7, <3>1, <3>2, <3>3 DEF TestInv
  <2> QED  BY <2>2, <2>3
<1>9. WaitsAtVictim'
  <2>1. ASSUME NEW b \in ToSet(blocked[swampMutex]) PROVE pc'[b] = "victim"
    <3>1. Inside(SwampPlaces) \subseteq Asid /\ ToSet(<<>>) = {}
      BY DEF Inside, ToSet
    <3>2. b \in Asid
      BY <2>1, <3>1 DEF Inv, LockInv, Mutex
    <3>3. pc[b] = "victim" /\ b # c
      BY <1>1, <1>3, <2>1 DEF WaitInv, WaitsAtVictim, Births
    <3> QED  BY <1>6, <3>2, <3>3
  <2> QED  BY <1>1, <2>1 DEF WaitsAtVictim
<1>10. DeadlockIsRight'
  BY <1>1 DEF DeadlockIsRight
<1> QED  BY <1>8, <1>9, <1>10 DEF WaitInv

\* Who waits for swampMutex is a user process, and test() moves none.
LEMMA WaitersOfTest ==
    ASSUME Inv, WaitInv, \A b \in Asid : pc'[b] = pc[b],
           blocked'[swampMutex] = blocked[swampMutex]
    PROVE  WaitsAtVictim'
<1>1. Inside(SwampPlaces) \subseteq Asid /\ ToSet(<<>>) = {}
  BY DEF Inside, ToSet
<1>2. ToSet(blocked[swampMutex]) \subseteq Asid
  BY <1>1 DEF Inv, LockInv, Mutex
<1> QED  BY <1>2 DEF WaitInv, WaitsAtVictim

LEMMA AwaitSteps == ASSUME Inv, WaitInv, AwaitChild \/ EndTest PROVE WaitInv'
<1>1. /\ StateType /\ Test \in Proc /\ Asid \subseteq Proc /\ Test \notin Asid
      /\ MAXUPROC \in Nat /\ kernel = "up" /\ pc[Test] \in {"await", "sys2"}
  BY Universe, SizeAssumption DEF Inv, AwaitChild, EndTest, Dies, At
<1>2. /\ \A b \in Asid : pc'[b] = pc[b]
      /\ pc'[Test] \in {"await", "sys2", "ended"}
  BY <1>1 DEF StateType, AwaitChild, EndTest, Dies, Goto
<1>3. Counted \in Nat /\ Counted <= MAXUPROC
  BY <1>1 DEF StateType, Locals, Counted, WaitInv, TestInv
<1>4. CASE AwaitChild
  <2>1. pc[Test] = "await" /\ Counted < MAXUPROC
    BY <1>4 DEF AwaitChild, At, WaitInv, TestInv
  <2>2. Counted' = Counted + 1
    BY <1>1, <1>4 DEF AwaitChild, Count, StateType, Locals, Counted
  <2>3. pc'[Test] = IF Awaited THEN "sys2" ELSE "await"
    BY <1>1, <1>4 DEF AwaitChild, Goto, StateType
  <2>4. TestInv'
    BY <1>1, <1>2, <1>3, <2>1, <2>2, <2>3 DEF WaitInv, TestInv, Awaited
  <2>5. blocked'[swampMutex] = blocked[swampMutex]
    BY <1>1, <1>4, PType, Universe DEF AwaitChild, Quiet, Mutexes
  <2>6. kernel' = "up"
    BY <1>1, <1>4 DEF AwaitChild, NoIO
  <2> QED  BY <2>4, <2>5, <2>6, <1>2, WaitersOfTest DEF WaitInv, DeadlockIsRight
<1>5. CASE EndTest
  <2>1. local' = local /\ blocked' = blocked /\ kernel' \in {"halted", "up"}
    BY <1>1, <1>5 DEF EndTest, Dies, waiting
  <2>2. pc'[Test] = "ended"
    BY <1>1, <1>5 DEF EndTest, Dies, Goto, StateType
  <2>3. TestInv'
    BY <1>1, <1>2, <2>1, <2>2 DEF WaitInv, TestInv, Counted
  <2> QED  BY <2>1, <2>3, <1>2, WaitersOfTest DEF WaitInv, DeadlockIsRight
<1> QED  BY <1>4, <1>5

\* The scheduler finds every process waiting for a semaphore.  Then nobody is
\* between the P and the V of the disk's mutex, as the one who has it waits for
\* nothing; nor of the swap pool's, as the one who has that would wait for the
\* disk.  So every child has ended, and test() waits for more V's than came.
LEMMA DeadlockSteps == ASSUME Inv, WaitInv, Deadlock PROVE WaitInv'
<1>1. /\ UNCHANGED <<pc, sem, blocked, local>> /\ StateType /\ Master
      /\ Test \in Proc /\ Test \notin Asid /\ Asid \subseteq Proc /\ Proc = {Test} \cup Asid
      /\ Asid = 1 .. MAXUPROC /\ MAXUPROC \in Nat
  BY Universe, SizeAssumption DEF Inv, Deadlock, waiting, Asid, Proc
<1>2. Semaphore = {masterSem, swampMutex, diskMutex}
  BY DEF Semaphore
<1>3. ASSUME NEW s \in Mutexes, NEW places, Mutex(s, places), Inside(places) # {}
      PROVE  \E h \in Inside(places) : h \notin ToSet(blocked[s])
  <2>1. PICK h \in Asid \ ToSet(blocked[s]) : Inside(places) = {h} \cup ToSet(blocked[s])
    BY <1>3 DEF Mutex
  <2> QED  BY <2>1
<1>4. ASSUME NEW a \in Asid PROVE a \notin ToSet(blocked[masterSem])
  <2>1. ToSet(<<>>) = {} /\ ToSet(<<Test>>) = {Test}
    BY DEF ToSet
  <2> QED  BY <1>1, <2>1 DEF Master
<1>5. Inside(DiskPlaces) = {}
  <2> SUFFICES ASSUME Inside(DiskPlaces) # {} PROVE FALSE
    OBVIOUS
  <2>1. PICK h \in Inside(DiskPlaces) : h \notin ToSet(blocked[diskMutex])
    BY <1>3 DEF Inv, LockInv, Mutexes
  <2>2. h \in Alive
    BY <1>1, <2>1 DEF Alive, Inside, DiskPlaces
  <2>3. h \notin ToSet(blocked[swampMutex])
    BY <2>1 DEF WaitInv, WaitsAtVictim, Inside, DiskPlaces
  <2> QED  BY <1>2, <1>4, <2>1, <2>2, <2>3 DEF Deadlock, Inside
<1>6. ToSet(blocked[diskMutex]) = {}
  <2>1. ToSet(<<>>) = {}
    BY DEF ToSet
  <2> QED  BY <1>5, <2>1 DEF Inv, LockInv, Mutex
<1>7. Inside(SwampPlaces) = {}
  <2> SUFFICES ASSUME Inside(SwampPlaces) # {} PROVE FALSE
    OBVIOUS
  <2>1. PICK h \in Inside(SwampPlaces) : h \notin ToSet(blocked[swampMutex])
    BY <1>3 DEF Inv, LockInv, Mutexes
  <2>2. h \in Alive
    BY <1>1, <2>1 DEF Alive, Inside, SwampPlaces
  <2> QED  BY <1>2, <1>4, <1>6, <2>1, <2>2 DEF Deadlock, Inside
<1>8. ToSet(blocked[swampMutex]) = {}
  <2>1. ToSet(<<>>) = {}
    BY DEF ToSet
  <2> QED  BY <1>7, <2>1 DEF Inv, LockInv, Mutex
<1>9. \A a \in Asid : pc[a] \in {"unborn", "ended"}
  BY <1>1, <1>2, <1>4, <1>6, <1>8 DEF Deadlock, Alive
<1>10. Test \in ToSet(blocked[masterSem])
  BY <1>1, <1>2, <1>6, <1>8, <1>9 DEF Deadlock, Alive
<1>11. sem[masterSem] = -1 /\ blocked[masterSem] # <<>>
  <2>1. ToSet(<<>>) = {}
    BY DEF ToSet
  <2> QED  BY <1>1, <1>10, <2>1 DEF Master
<1>12. Counted \in Nat /\ Counted <= MAXUPROC /\ \A a \in Asid : pc[a] = "ended"
  BY <1>1, <1>9, <1>11 DEF WaitInv, TestInv, StateType, Locals, Counted
<1>13. Cardinality({a \in Asid : pc[a] = "ended"}) = MAXUPROC
  <2>1. {a \in Asid : pc[a] = "ended"} = 1 .. MAXUPROC
    BY <1>1, <1>12
  <2>2. Cardinality(1 .. MAXUPROC) = MAXUPROC
    BY <1>1, FS_Interval
  <2> QED  BY <2>1, <2>2
<1>14. DeadlockIsRight'
  BY <1>1, <1>11, <1>12, <1>13 DEF DeadlockIsRight, Counted
<1> QED  BY <1>1, <1>14 DEF WaitInv, TestInv, WaitsAtVictim, Counted

LEMMA WaitInvInit == ASSUME Init PROVE WaitInv
<1>1. TestInv
  BY Universe, SizeAssumption DEF TestInv, Init, Counted, Unused, Asid, Test
<1>2. WaitsAtVictim
  BY InitKeeps DEF FrameInv
<1> QED  BY <1>1, <1>2 DEF WaitInv, DeadlockIsRight, Init

LEMMA WaitInvStep == ASSUME Inv, WaitInv, [Next]_vars PROVE WaitInv'
<1>1. CASE Stop \/ UNCHANGED vars
  <2>1. UNCHANGED <<kernel, pc, sem, blocked, local>>
    BY <1>1 DEF Stop, vars, machine, waiting
  <2> QED  BY <2>1 DEF WaitInv, TestInv, WaitsAtVictim, DeadlockIsRight, Counted
<1>2. CASE Tick \/ \E d \in Device : DeviceInterrupt(d)
  <2>1. UNCHANGED <<pc, sem, local>> /\ kernel' # "deadlock"
    BY <1>2 DEF Tick, DeviceInterrupt, machine
  <2>2. \A s \in Semaphore : blocked'[s] = blocked[s]
    <3>1. \A d \in {Clock} \cup Device : d \notin Semaphore
      BY Universe
    <3>2. blocked' = blocked \/ \E d \in {Clock} \cup Device : \E q : blocked' = [blocked EXCEPT ![d] = q]
      BY <1>2 DEF Tick, DeviceInterrupt
    <3> QED  BY <3>1, <3>2 DEF Inv, StateType
  <2> QED  BY <2>1, <2>2, Universe DEF WaitInv, TestInv, WaitsAtVictim, DeadlockIsRight, Counted, Mutexes
<1>3. ASSUME NEW a \in Asid, Professor(a) \/ Program(a) \/ Handlers(a) PROVE WaitInv'
  BY <1>3, ProfessorSteps, ProgramSteps, TLBHandlerSteps, SyscallHandlerSteps, StepsKeep DEF Handlers
<1> QED  BY <1>1, <1>2, <1>3, CreateSteps, AwaitSteps, DeadlockSteps DEF Next, Test_

\* The two mutexes of the support level, taken in the order swap pool, disk, never
\* make its processes wait for each other: when the scheduler PANICs every child
\* has ended, and fewer V's of SYS18 came than test() waits for.
THEOREM SchedulerGivesUpRightly == Spec => []DeadlockIsRight
<1>1. Init => WaitInv
  BY WaitInvInit
<1>2. Inv /\ WaitInv /\ [Next]_vars => WaitInv'
  BY WaitInvStep
<1>3. WaitInv => DeadlockIsRight
  BY DEF WaitInv
<1> QED  BY <1>1, <1>2, <1>3, InvHolds, PTL DEF Spec

-----------------------------------------------------------------------------
\* No program makes the call that ends it without a V of masterSem.
LegalCallsOnly == \A c \in UserCall : Branch(c) # "terminate"

\* How many announcements of an end test() took.
Received == IF pc[Test] = "create" THEN 0 ELSE Counted

\* Each child announces its end once.
EndsCounted == sem[masterSem] + Received = Cardinality(Inside(Ending))

\* A step by which a process neither announces its end nor comes to it.
Silent(a) ==
    /\ sem'[masterSem] = sem[masterSem]
    /\ pc'[a] \in Ending <=> pc[a] \in Ending

LEMMA SilentGoes ==
    ASSUME Inv, NEW a \in Asid, NEW place, At(a, place), place \notin Ending, NEW to,
           to \notin Ending, Goto(a, to) \/ UNCHANGED pc, sem'[masterSem] = sem[masterSem]
    PROVE  Silent(a)
BY Universe DEF Inv, StateType, At, Goto, Silent

\* The mutexes are other semaphores.
LEMMA MutexSilent ==
    ASSUME Inv, NEW p, NEW s \in Mutexes, P(p, s) \/ V(p, s) PROVE sem'[masterSem] = sem[masterSem]
BY Universe DEF Inv, StateType, P, V

LEMMA DoIOSilent ==
    ASSUME Inv, NEW a \in Asid, NEW place, NEW commanded, NEW awaited, NEW op, NEW then,
           DoIO(a, place, commanded, awaited, op, then), place \notin Ending, then \notin Ending
    PROVE  Silent(a)
BY SilentGoes DEF DoIO

LEMMA LockDiskSilent ==
    ASSUME Inv, NEW a \in Asid, NEW from, NEW to, from \notin Ending, to \notin Ending,
           LockDisk(a, from, to) \/ UnlockDisk(a, from, to)
    PROVE  Silent(a)
<1>1. At(a, from) /\ Goto(a, to) /\ (P(a, diskMutex) \/ V(a, diskMutex)) /\ diskMutex \in Mutexes
  BY DEF LockDisk, UnlockDisk, Mutexes
<1> QED  BY <1>1, SilentGoes, MutexSilent

LEMMA ProfessorSilent == ASSUME Inv, NEW a \in Asid, Professor(a) PROVE Silent(a)
<1> USE DEF Ending
<1>1. CASE SetVectors(a) \/ StartProgram(a)
  BY <1>1, SilentGoes DEF SetVectors, StartProgram, waiting
<1>2. CASE ReadTape(a)
  BY <1>2, DoIOSilent DEF ReadTape
<1>3. CASE StoreBlock(a)
  <2>1. (IF Ready(a, "disk") THEN "storeLock" ELSE "stored") \notin Ending
    OBVIOUS
  <2> QED  BY <1>3, <2>1, DoIOSilent, LockDiskSilent DEF StoreBlock
<1>4. CASE NextBlock(a)
  <2>1. At(a, "stored") /\ sem' = sem /\ \E to \in {"tape", "start"} : Goto(a, to)
    BY <1>4 DEF NextBlock, waiting
  <2> QED  BY <2>1, SilentGoes
<1> QED  BY <1>1, <1>2, <1>3, <1>4 DEF Professor, ReadAndStore

LEMMA EnterSilent ==
    ASSUME Inv, NEW a \in Asid, NEW place, At(a, place), place \notin Ending,
           EnterTLBHandler(a), UNCHANGED sem
    PROVE  Silent(a)
<1>1. UNCHANGED pc \/ \E to \in {"tlb", "sys18"} : Goto(a, to)
  BY DEF EnterTLBHandler, Syscall18
<1> QED  BY <1>1, SilentGoes DEF Ending

LEMMA ProgramSilent ==
    ASSUME Inv, NEW a \in Asid, Program(a) PROVE Silent(a) \/ Call(a)
<1> USE DEF Ending
<1>1. CASE \E p \in Page : Store(a, p)
  BY <1>1 DEF Store, Silent, waiting
<1>2. CASE PageFault(a)
  BY <1>2, EnterSilent DEF PageFault, waiting
<1>4. CASE ProgramTrap(a)
  BY <1>4, SilentGoes DEF ProgramTrap, Syscall18, waiting
<1> QED  BY <1>1, <1>2, <1>4 DEF Program

LEMMA CallSilent ==
    ASSUME Inv, LegalCallsOnly, NEW a \in Asid, Call(a) PROVE Silent(a)
<1> USE DEF Ending
<1>1. PICK c \in UserCall : Goto(a, Branch(c))
  BY DEF Call
<1>2. Branch(c) \notin Ending
  BY DEF Branch, LegalCallsOnly
<1> QED  BY <1>1, <1>2, SilentGoes DEF Call, waiting

LEMMA TLBHandlerSilent == ASSUME Inv, NEW a \in Asid, TLBHandler(a) PROVE Silent(a)
<1> USE DEF Ending
<1>1. CASE EnterSwamp(a)
  <2>1. At(a, "tlb") /\ \E to \in {"sys18", "victim"} : Goto(a, to)
    BY <1>1 DEF EnterSwamp, Syscall18
  <2>2. UNCHANGED sem \/ P(a, swampMutex)
    BY <1>1 DEF EnterSwamp, waiting
  <2> QED  BY <2>1, <2>2, SilentGoes, MutexSilent DEF Mutexes
<1>2. CASE TakeFrame(a)
  <2>1. At(a, "victim") /\ sem' = sem /\ \E to \in {"mask", "writeOut"} : Goto(a, to)
    BY <1>2 DEF TakeFrame, waiting
  <2> QED  BY <2>1, SilentGoes
<1>3. CASE WriteOut(a)
  <2>1. (IF Ready(a, "disk") THEN "outWrite" ELSE "PANIC") \notin Ending
    OBVIOUS
  <2> QED  BY <1>3, <2>1, DoIOSilent, LockDiskSilent DEF WriteOut
<1>4. CASE ReadOut(a)
  <2>1. (IF Ready(a, "disk") THEN "inRead" ELSE "PANIC") \notin Ending
    OBVIOUS
  <2> QED  BY <1>4, <2>1, DoIOSilent, LockDiskSilent DEF ReadOut
<1>5. CASE MaskUpdate(a) \/ MapPage(a) \/ ResumeProgram(a) \/ Panic(a)
  BY <1>5, SilentGoes DEF MaskUpdate, MapPage, ResumeProgram, Panic, waiting
<1>6. CASE LeaveSwamp(a)
  BY <1>6, SilentGoes, MutexSilent DEF LeaveSwamp, Mutexes
<1> QED  BY <1>1, <1>2, <1>3, <1>4, <1>5, <1>6 DEF TLBHandler

LEMMA SyscallHandlerSilent ==
    ASSUME Inv, NEW a \in Asid, SyscallHandler(a) PROVE Silent(a) \/ Sys18(a)
<1> USE DEF Ending
<1>1. ASSUME NEW loop, NEW give, NextChar(a, loop, give), {loop, give} \cap Ending = {}
      PROVE  Silent(a)
  <2>1. /\ At(a, loop) /\ UNCHANGED sem
        /\ EnterTLBHandler(a) \/ \E to \in {"return", "sys18", give} : Goto(a, to)
    BY <1>1 DEF NextChar, Syscall18, waiting
  <2> QED  BY <1>1, <2>1, EnterSilent, SilentGoes
<1>2. ASSUME NEW place, NEW loop, NEW error, CharSent(a, place, loop, error),
             {place, loop} \cap Ending = {}
      PROVE  Silent(a)
  <2>1. At(a, place) /\ UNCHANGED sem /\ \E to \in {"return", loop} : Goto(a, to)
    BY <1>2 DEF CharSent, waiting
  <2> QED  BY <1>2, <2>1, SilentGoes
<1>3. CASE PrintString(a)
  BY <1>1, <1>2, <1>3, DoIOSilent DEF PrintString
<1>4. CASE TypeString(a)
  BY <1>1, <1>2, <1>4, DoIOSilent DEF TypeString
<1>5. CASE Delay(a) \/ Return(a)
  BY <1>5, SilentGoes DEF Delay, Return, waiting
<1>6. CASE Terminate(a)
  BY <1>6, Universe DEF Terminate, Dies, At, Goto, Silent, waiting, Inv, StateType
<1> QED  BY <1>3, <1>4, <1>5, <1>6 DEF SyscallHandler

\* Asid and its subsets are finite.
LEMMA InsideFinite == ASSUME NEW places PROVE IsFiniteSet(Inside(places))
<1>1. IsFiniteSet(Asid) /\ Inside(places) \subseteq Asid
  BY SizeAssumption, FS_Interval DEF Asid, Inside
<1> QED  BY <1>1, FS_Subset

\* No more V's than ends, even if some children end without one.
EndsBounded == sem[masterSem] + Received <= Cardinality(Inside(Ending))

\* The V's so far, and who has come to its end, after a step of anybody.
EndingStep ==
    \/ /\ sem'[masterSem] + Received' = sem[masterSem] + Received
       /\ Inside(Ending)' = Inside(Ending)
    \/ /\ sem'[masterSem] + Received' = sem[masterSem] + Received + 1
       /\ Cardinality(Inside(Ending)') = Cardinality(Inside(Ending)) + 1
    \/ /\ sem'[masterSem] + Received' = sem[masterSem] + Received
       /\ Inside(Ending) \subseteq Inside(Ending)'
       /\ ~LegalCallsOnly

LEMMA EndingSteps == ASSUME Inv, [Next]_vars PROVE EndingStep
<1> USE DEF Ending
<1>0. /\ StateType /\ Test \in Proc /\ Asid \subseteq Proc /\ Test \notin Asid
      /\ masterSem \in Semaphore /\ MAXUPROC \in Nat /\ Asid = 1 .. MAXUPROC
      /\ sem[masterSem] \in Int /\ Counted \in Nat
  <2>1. MAXUPROC \in Nat /\ Asid = 1 .. MAXUPROC
    BY SizeAssumption DEF Asid
  <2> QED  BY <2>1, Universe DEF Inv, StateType, Counted, Locals
<1>1. ASSUME NEW a \in Asid, Professor(a) \/ Program(a) \/ Handlers(a) PROVE EndingStep
  <2>1. Steps(a) /\ (Silent(a) \/ Sys18(a) \/ Call(a))
    BY <1>1, ProfessorSteps, ProgramSteps, TLBHandlerSteps, SyscallHandlerSteps, ProfessorSilent,
       ProgramSilent, TLBHandlerSilent, SyscallHandlerSilent DEF Handlers
  <2>2. Received' = Received /\ \A b \in Asid \ {a} : pc'[b] = pc[b]
    BY <1>0, <2>1 DEF Steps, Received, Counted
  <2>3. CASE Silent(a)
    <3>1. Inside(Ending)' = Inside(Ending)
      BY <2>2, <2>3 DEF Silent, Inside
    <3> QED  BY <2>2, <2>3, <3>1 DEF Silent, EndingStep
  <2>4. CASE Sys18(a)
    <3>1. sem'[masterSem] = sem[masterSem] + 1 /\ pc[a] = "sys18" /\ pc'[a] = "terminate"
      BY <1>0, <2>4 DEF Sys18, V, At, Goto, StateType
    <3>2. Inside(Ending)' = Inside(Ending) \cup {a} /\ a \notin Inside(Ending)
      BY <2>2, <3>1 DEF Inside
    <3>3. Cardinality(Inside(Ending)') = Cardinality(Inside(Ending)) + 1
      BY <3>2, InsideFinite, FS_AddElement
    <3>4. Received \in Nat
      BY <1>0 DEF Received
    <3> QED  BY <1>0, <2>2, <3>1, <3>3, <3>4 DEF EndingStep
  <2>5. CASE Call(a) /\ ~Silent(a)
    <3>1. ~LegalCallsOnly
      BY <2>5, CallSilent
    <3>2. sem' = sem /\ pc[a] = "user"
      BY <2>5 DEF Call, At, waiting
    <3>3. Inside(Ending) \subseteq Inside(Ending)'
      BY <2>2, <3>2 DEF Inside
    <3> QED  BY <2>2, <3>1, <3>2, <3>3 DEF EndingStep
  <2> QED  BY <2>1, <2>3, <2>4, <2>5
<1>2. CASE CreateChild
  <2> DEFINE c == Counted + 1
  <2>1. /\ sem' = sem /\ pc[Test] = "create" /\ Births
        /\ Counted' = IF c < MAXUPROC THEN c ELSE 0
    BY <1>0, <1>2 DEF CreateChild, At, waiting, Count, Counted, StateType, Locals, Inv, LockInv
  <2>2. c \in Asid /\ c # Test /\ pc[c] = "unborn"
    BY <1>0, <2>1 DEF Births
  <2>3. PICK next : /\ pc' = [pc EXCEPT ![c] = "professor", ![Test] = next]
                    /\ next = IF c < MAXUPROC THEN "create" ELSE "await"
    BY <1>2 DEF CreateChild
  <2>4. pc'[Test] = next /\ pc'[c] = "professor" /\ \A b \in Asid \ {c} : pc'[b] = pc[b]
    <3>1. DOMAIN pc = Proc /\ c \in Proc
      BY <1>0, <2>2 DEF StateType
    <3> HIDE DEF c
    <3> QED  BY <1>0, <2>2, <2>3, <3>1
  <2>5. Inside(Ending)' = Inside(Ending)
    BY <2>2, <2>4 DEF Inside
  <2>6. Received = 0 /\ Received' = 0
    BY <2>1, <2>3, <2>4 DEF Received
  <2> QED  BY <2>1, <2>5, <2>6 DEF EndingStep
<1>3. CASE AwaitChild
  <2>1. /\ sem'[masterSem] = sem[masterSem] - 1 /\ pc[Test] = "await" /\ Counted' = Counted + 1
        /\ pc'[Test] \in {"await", "sys2"} /\ \A b \in Asid : pc'[b] = pc[b]
    BY <1>0, <1>3 DEF AwaitChild, At, P, Count, Counted, Goto, StateType, Locals
  <2>2. Inside(Ending)' = Inside(Ending)
    BY <2>1 DEF Inside
  <2>3. Received' = Received + 1 /\ Received \in Nat
    BY <1>0, <2>1 DEF Received
  <2> QED  BY <1>0, <2>1, <2>2, <2>3 DEF EndingStep
<1>4. CASE EndTest
  <2>1. /\ sem' = sem /\ local' = local /\ pc[Test] = "sys2" /\ pc'[Test] = "ended"
        /\ \A b \in Asid : pc'[b] = pc[b]
    BY <1>0, <1>4 DEF EndTest, Dies, At, Goto, waiting, StateType
  <2>2. Inside(Ending)' = Inside(Ending)
    BY <2>1 DEF Inside
  <2> QED  BY <2>1, <2>2 DEF EndingStep, Received, Counted
<1>5. CASE Tick \/ Deadlock \/ Stop \/ UNCHANGED vars \/ \E d \in Device : DeviceInterrupt(d)
  <2>1. UNCHANGED <<pc, sem, local>>
    BY <1>5 DEF Tick, Deadlock, Stop, DeviceInterrupt, vars, waiting
  <2> QED  BY <2>1 DEF EndingStep, Received, Counted, Inside
<1> QED  BY <1>1, <1>2, <1>3, <1>4, <1>5 DEF Next, Test_

LEMMA EndsTypes ==
    ASSUME Inv PROVE sem[masterSem] \in Int /\ Received \in Nat /\ Counted \in Nat
BY Universe DEF Inv, StateType, Counted, Locals, Received

LEMMA EndsInit == ASSUME Init PROVE EndsCounted /\ EndsBounded
<1>1. sem[masterSem] = 0 /\ Received = 0 /\ Inside(Ending) = {}
  BY Universe DEF Init, Received, Inside, Ending
<1> QED  BY <1>1, FS_EmptySet DEF EndsCounted, EndsBounded

\* With programs whose SYS16 calls are legal every child makes its V before it
\* ends, whatever else it does, so the scheduler never PANICs: test() waits for a
\* V that is still to come.
THEOREM LegalCallsNeverDeadlock == ASSUME LegalCallsOnly PROVE Spec => []NeverDeadlocks
<1>1. Init => EndsCounted
  BY EndsInit
<1>2. Inv /\ EndsCounted /\ [Next]_vars => EndsCounted'
  BY EndingSteps DEF EndingStep, EndsCounted
<1>3. Inv /\ EndsCounted /\ DeadlockIsRight => NeverDeadlocks
  <2> SUFFICES ASSUME Inv, EndsCounted, DeadlockIsRight, kernel = "deadlock" PROVE FALSE
    BY DEF NeverDeadlocks
  <2> DEFINE ended == {a \in Asid : pc[a] = "ended"}
  <2>1. sem[masterSem] \in Int /\ Counted \in Nat /\ Received <= Counted /\ Received \in Nat
    BY EndsTypes DEF Received
  <2>2. ended \subseteq Inside(Ending)
    BY DEF Inside, Ending
  <2>3. Cardinality(ended) \in Nat /\ Cardinality(ended) <= Cardinality(Inside(Ending))
    BY <2>2, InsideFinite, FS_Subset, FS_CardinalityType
  <2>4. Cardinality(Inside(Ending)) = sem[masterSem] + Received
    BY DEF EndsCounted
  <2>5. sem[masterSem] + Counted < Cardinality(ended)
    BY DEF DeadlockIsRight, Counted
  <2> HIDE DEF ended
  <2> QED  BY <2>1, <2>3, <2>4, <2>5
<1> QED  BY <1>1, <1>2, <1>3, InvHolds, SchedulerGivesUpRightly, PTL DEF Spec

\* The last P of test() has been made.
LastAwaited == pc[Test] \in {"sys2", "ended"} => Counted = MAXUPROC

LEMMA LastAwaitedStep == ASSUME Inv, LastAwaited, [Next]_vars PROVE LastAwaited'
<1>0. StateType /\ Test \in Proc /\ Asid \subseteq Proc /\ Test \notin Asid /\ MAXUPROC \in Nat
  BY Universe, SizeAssumption DEF Inv
<1>1. ASSUME NEW a \in Asid, Professor(a) \/ Program(a) \/ Handlers(a) PROVE LastAwaited'
  <2>1. Steps(a)
    BY <1>1, ProfessorSteps, ProgramSteps, TLBHandlerSteps, SyscallHandlerSteps DEF Handlers
  <2> QED  BY <1>0, <2>1 DEF Steps, LastAwaited, Counted
<1>2. CASE CreateChild
  <2>1. \E next \in {"create", "await"} :
            pc' = [pc EXCEPT ![Counted + 1] = "professor", ![Test] = next]
    BY <1>2 DEF CreateChild
  <2>2. pc'[Test] \in {"create", "await"}
    BY <1>0, <2>1 DEF StateType
  <2> QED  BY <2>2 DEF LastAwaited
<1>3. CASE AwaitChild
  <2>1. pc'[Test] = (IF Awaited THEN "sys2" ELSE "await") /\ Counted' = Counted + 1
    BY <1>0, <1>3 DEF AwaitChild, Count, Counted, Goto, StateType, Locals
  <2> QED  BY <2>1 DEF LastAwaited, Awaited
<1>4. CASE EndTest
  BY <1>0, <1>4 DEF EndTest, At, LastAwaited, Counted
<1>5. CASE Tick \/ Deadlock \/ Stop \/ UNCHANGED vars \/ \E d \in Device : DeviceInterrupt(d)
  <2>1. UNCHANGED <<pc, local>>
    BY <1>5 DEF Tick, Deadlock, Stop, DeviceInterrupt, vars, waiting
  <2> QED  BY <2>1 DEF LastAwaited, Counted
<1> QED  BY <1>1, <1>2, <1>3, <1>4, <1>5 DEF Next, Test_

\* With all its P's made test() has received as many V's as there are children,
\* each from another; a child that ends without its V (a refused SYS16) is one V
\* short for ever.  So nobody is cut short by the SYS2 of test().
THEOREM TestWaitsForAll == Spec => []NoChildCutShort
<1>1. Init => EndsBounded /\ LastAwaited
  BY EndsInit, Universe DEF Init, LastAwaited
<1>2. Inv /\ EndsBounded /\ [Next]_vars => EndsBounded'
  <2> SUFFICES ASSUME Inv, EndsBounded, [Next]_vars PROVE EndsBounded'
    OBVIOUS
  <2>1. Cardinality(Inside(Ending)) \in Nat /\ Cardinality(Inside(Ending)') \in Nat
    <3>1. IsFiniteSet(Inside(Ending)')
      <4>1. IsFiniteSet(Asid) /\ Inside(Ending)' \subseteq Asid
        BY SizeAssumption, FS_Interval DEF Asid, Inside
      <4> QED  BY <4>1, FS_Subset
    <3> QED  BY <3>1, InsideFinite, FS_CardinalityType
  <2>2. Inside(Ending) \subseteq Inside(Ending)' =>
            Cardinality(Inside(Ending)) <= Cardinality(Inside(Ending)')
    <3>1. IsFiniteSet(Inside(Ending)')
      <4>1. IsFiniteSet(Asid) /\ Inside(Ending)' \subseteq Asid
        BY SizeAssumption, FS_Interval DEF Asid, Inside
      <4> QED  BY <4>1, FS_Subset
    <3> QED  BY <3>1, FS_Subset
  <2> QED  BY <2>1, <2>2, EndingSteps, EndsTypes DEF EndingStep, EndsBounded
<1>3. Inv /\ LastAwaited /\ [Next]_vars => LastAwaited'
  BY LastAwaitedStep
<1>4. Inv /\ EndsBounded /\ LastAwaited => NoChildCutShort
  <2> SUFFICES ASSUME Inv, EndsBounded, LastAwaited, pc[Test] \in {"sys2", "ended"}, ~Waits(Test)
               PROVE  Inside(Ending) = Asid
    BY DEF NoChildCutShort, Inside
  <2>1. blocked[masterSem] # <<Test>>
    <3>1. ToSet(<<Test>>) = {Test} /\ masterSem \in DOMAIN blocked
      BY Universe DEF ToSet, Inv, StateType, Semaphore
    <3> QED  BY <3>1 DEF Waits
  <2>2. sem[masterSem] >= 0
    BY <2>1 DEF Inv, Master
  <2>3. Received = MAXUPROC /\ MAXUPROC \in Nat
    BY SizeAssumption DEF Received, LastAwaited
  <2>4. IsFiniteSet(Asid) /\ Cardinality(Asid) = MAXUPROC /\ Inside(Ending) \subseteq Asid
    BY <2>3, FS_Interval DEF Asid, Inside
  <2>5. Cardinality(Inside(Ending)) \in Nat /\ Cardinality(Inside(Ending)) >= Cardinality(Asid)
    BY <2>2, <2>3, <2>4, InsideFinite, FS_CardinalityType, EndsTypes DEF EndsBounded
  <2>6. Cardinality(Inside(Ending)) <= Cardinality(Asid)
    BY <2>4, FS_Subset
  <2>7. Cardinality(Inside(Ending)) = Cardinality(Asid)
    BY <2>3, <2>4, <2>5, <2>6
  <2> QED  BY <2>4, <2>7, FS_Subset
<1> QED  BY <1>1, <1>2, <1>3, <1>4, InvHolds, PTL DEF Spec

-----------------------------------------------------------------------------
\* What a step that gives no command does to the queues the devices matter to.
KeepsWaiters(a) ==
    /\ \A d \in Device : blocked'[d] = blocked[d]
    /\ ToSet(blocked'[diskMutex]) \subseteq ToSet(blocked[diskMutex]) \cup {a}

LEMMA CallKeepsWaiters ==
    ASSUME Inv, NEW a \in Proc, NEW s \in Semaphore, P(a, s) \/ V(a, s)
    PROVE  KeepsWaiters(a)
<1>1. /\ StateType /\ Semaphore \cap Device = {} /\ diskMutex \in Semaphore
      /\ blocked[diskMutex] \in Seq(Proc) /\ sem[diskMutex] \in Int
  BY Universe DEF Inv, StateType, Mutexes
<1>2. blocked' = blocked \/ \E q : blocked' = [blocked EXCEPT ![s] = q]
  BY DEF P, V, Sleep
<1>3. \A d \in Device : blocked'[d] = blocked[d]
  BY <1>1, <1>2 DEF StateType
<1>4. ToSet(blocked'[diskMutex]) \subseteq ToSet(blocked[diskMutex]) \cup {a}
  <2>1. CASE s # diskMutex
    <3>1. blocked'[diskMutex] = blocked[diskMutex]
      BY <1>1, <1>2, <2>1 DEF StateType
    <3> QED  BY <3>1
  <2>2. CASE s = diskMutex /\ P(a, s)
    BY <1>1, <2>2, PType, InsertQueue DEF InsertProcQ
  <2>3. CASE s = diskMutex /\ V(a, s)
    <3>1. sem[diskMutex] + 1 <= 0 => blocked[diskMutex] # <<>> /\ IsInjective(blocked[diskMutex])
      BY <1>1 DEF Inv, LockInv, Mutex
    <3>2. blocked'[diskMutex] = IF sem[diskMutex] + 1 <= 0 THEN Tail(blocked[diskMutex])
                                ELSE blocked[diskMutex]
      BY <1>1, <2>3, <3>1, VType
    <3> QED  BY <1>1, <3>1, <3>2, RemoveQueue
  <2> QED  BY <2>1, <2>2, <2>3
<1> QED  BY <1>3, <1>4 DEF KeepsWaiters

LEMMA QuietKeepsWaiters == ASSUME UNCHANGED blocked, NEW a PROVE KeepsWaiters(a)
BY DEF KeepsWaiters

\* A step of a process that is not at a command, while nobody is between a
\* command and its SYS8, since then nobody else would run.
LEMMA CalmKeeps ==
    ASSUME Inv, IOInv, NEW a \in Proc, masked \in {NULL, a}, io[a] = "command",
           UNCHANGED <<io, busy>>, kernel' # "trap", KeepsWaiters(a),
           \A b \in Asid \ {a} : \/ pc'[b] = pc[b]
                                 \/ pc[b] = "unborn" /\ pc'[b] = "professor",
           a \in Asid /\ pc'[a] \in PrintPlaces => pc[a] \in PrintPlaces \/ MAXUPROC = 1
    PROVE  IOInv'
<1>1. \A b \in Asid : io[b] = "wait" => b = a
  BY SizeAssumption, Universe DEF IOInv
<1>2. \A b \in Asid : io[b] # "wait"
  BY <1>1
<1>3. \A b \in Proc : io[b] # "command" => b \in Asid \ {a} /\ pc'[b] = pc[b]
  BY DEF IOInv, IOPlaces
<1>4. \A d \in Device : busy[d] # NULL => \E b \in Asid : Serves(d, b)'
  <2> SUFFICES ASSUME NEW d \in Device, busy[d] # NULL PROVE \E b \in Asid : Serves(d, b)'
    OBVIOUS
  <2>1. PICK b \in Asid : Serves(d, b)
    BY DEF IOInv
  <2>2. io[b] = "done" /\ pc'[b] = pc[b] /\ blocked'[d] = blocked[d]
    BY <1>2, <1>3, <2>1, Universe DEF Serves, KeepsWaiters
  <2> QED  BY <2>1, <2>2 DEF Serves, DeviceOf
<1>5. \A d \in Device : busy[d] = NULL => blocked'[d] = <<>>
  BY DEF IOInv, KeepsWaiters
<1>6. \A p \in ToSet(blocked'[diskMutex]) : io[p] = "command"
  BY DEF IOInv, KeepsWaiters
<1>7. \A b \in Asid : pc'[b] \in PrintPlaces => MAXUPROC = 1
  BY DEF IOInv, PrintPlaces
<1> QED  BY <1>2, <1>3, <1>4, <1>5, <1>6, <1>7 DEF IOInv

\* Two processes are never with one device: disk 0 has its mutex, and each of
\* the others a process of its own.
LEMMA OneUser ==
    ASSUME Inv, IOInv, NEW a \in Asid, NEW b \in Asid, a \notin ToSet(blocked[diskMutex]),
           pc[a] \in IOPlaces, io[b] # "command", DeviceOf(b) = DeviceOf(a)
    PROVE  b = a
<1> SUFFICES ASSUME b # a PROVE FALSE
  OBVIOUS
<1>1. pc[b] \in IOPlaces /\ StateType /\ diskMutex \in DOMAIN blocked
      /\ a \in Int /\ b \in Int /\ \A p \in ToSet(blocked[diskMutex]) : io[p] = "command"
  <2>1. pc[b] \in IOPlaces /\ \A p \in ToSet(blocked[diskMutex]) : io[p] = "command"
    BY Universe DEF IOInv
  <2>2. a \in Int /\ b \in Int
    BY SizeAssumption DEF Asid
  <2>3. StateType /\ diskMutex \in DOMAIN blocked
    BY Universe DEF Inv, StateType, Mutexes
  <2> QED  BY <2>1, <2>2, <2>3
<1>2. /\ a - 1 # b - 1
      /\ \A x \in Asid : {<<"tape", x - 1>>, <<"printer", x - 1>>, <<"terminal", x - 1>>}
                            \cap {<<"disk", 0>>} = {}
  BY <1>1
<1>3. pc[a] \in DiskPlaces /\ pc[b] \in DiskPlaces
  <2>1. DeviceOf(a) = Disk0 /\ DeviceOf(b) = Disk0
    BY <1>1, <1>2 DEF DeviceOf, Disk0, Tape, Printer, Terminal, IOPlaces
  <2>2. \A x \in Asid : DeviceOf(x) = Disk0 /\ pc[x] \in IOPlaces => pc[x] \in DiskPlaces
    BY <1>2 DEF DeviceOf, Disk0, Tape, Printer, Terminal, IOPlaces, DiskPlaces
  <2> QED  BY <1>1, <2>1, <2>2
<1>4. {a, b} \subseteq Inside(DiskPlaces) /\ {a, b} \cap ToSet(blocked[diskMutex]) = {}
  BY <1>1, <1>3 DEF Inside
<1> QED  BY <1>4 DEF Inv, LockInv, Mutex

\* Who is dispatched waits for nothing, the mutex of the disk included.
LEMMA WaitsNot == ASSUME Inv, NEW a, ~Waits(a) PROVE a \notin ToSet(blocked[diskMutex])
BY Universe DEF Inv, StateType, Mutexes, Waits

\* A command, its SYS8 and the way back.
LEMMA DoIOKeeps ==
    ASSUME Inv, IOInv, NEW a \in Asid, NEW place \in IOPlaces, NEW op, op # NULL,
           NEW then, DoIO(a, place, DeviceOf(a), DeviceOf(a), op, then), DeviceOf(a) \in Device,
           then \in PrintPlaces => place \in PrintPlaces
    PROVE  IOInv'
<1>0. PICK d \in Device : d = DeviceOf(a)
  OBVIOUS
<1>1. /\ pc[a] = place /\ ~Waits(a) /\ masked \in {NULL, a} /\ kernel' = kernel
      /\ StateType /\ a \in Proc /\ io \in [Proc -> {"command", "wait", "done"}]
      /\ busy = [x \in Device |-> busy[x]] /\ d \in Device /\ d \in DOMAIN blocked
      /\ d \notin Semaphore /\ diskMutex \in Semaphore /\ a # NULL
  <2>1. pc[a] = place /\ ~Waits(a) /\ masked \in {NULL, a} /\ kernel' = kernel
    BY DEF DoIO, At
  <2>2. StateType /\ d \in DOMAIN blocked
    BY DEF Inv, StateType
  <2>3. a \in Proc /\ d \notin Semaphore /\ diskMutex \in Semaphore /\ a # NULL
    BY Universe, SizeAssumption DEF Mutexes
  <2> QED  BY <2>1, <2>2, <2>3 DEF IOInv
<1>2. \A b \in Asid \ {a} : io[b] # "wait"
  BY <1>1, SizeAssumption, Universe DEF IOInv
<1>3. busy[d] # NULL => io[a] # "command" /\ Serves(d, a)
  <2>1. ASSUME busy[d] # NULL PROVE io[a] # "command" /\ Serves(d, a)
    <3>1. PICK b \in Asid : Serves(d, b)
      BY <1>1, <2>1 DEF IOInv
    <3>2. b = a
      BY <1>0, <1>1, <3>1, OneUser, WaitsNot DEF Serves
    <3> QED  BY <3>1, <3>2 DEF Serves
  <2> QED  BY <2>1
<1>4. ASSUME UNCHANGED <<pc, blocked>>, io' = [io EXCEPT ![a] = "wait"], io[a] = "command",
             busy' = [busy EXCEPT ![d] = IF @ = NULL THEN op ELSE @], TurnOff(a)
      PROVE  IOInv'
  <2>1. busy[d] = NULL /\ blocked[d] = <<>>
    BY <1>1, <1>3, <1>4 DEF IOInv
  <2>2. busy' = [busy EXCEPT ![d] = op]
    BY <1>1, <1>4, <2>1
  <2>3. /\ busy'[d] = op /\ busy' = [x \in Device |-> busy'[x]]
        /\ \A x \in Device \ {d} : busy'[x] = busy[x]
    BY <1>1, <2>2
  <2>4. masked' = a
    BY <1>4 DEF TurnOff, RunsWith
  <2>5. /\ io' \in [Proc -> {"command", "wait", "done"}] /\ io'[a] = "wait"
        /\ \A p \in Proc \ {a} : io'[p] = io[p]
    BY <1>1, <1>4
  <2>6. Serves(d, a)'
    BY <1>0, <1>4, <2>1, <2>5 DEF Serves, DeviceOf
  <2>7. \A x \in Device \ {d} : IF busy'[x] = NULL THEN blocked'[x] = <<>> ELSE \E b \in Asid : Serves(x, b)'
    <3>1. ASSUME NEW x \in Device \ {d}, busy[x] # NULL PROVE \E b \in Asid : Serves(x, b)'
      <4>1. PICK b \in Asid : Serves(x, b)
        BY <3>1 DEF IOInv
      <4>2. b # a
        BY <1>4, <4>1 DEF Serves
      <4> QED  BY <1>4, <2>5, <4>1, <4>2, Universe DEF Serves, DeviceOf
    <3> QED  BY <1>4, <2>3, <3>1 DEF IOInv
  <2>8. \A p \in ToSet(blocked'[diskMutex]) : io'[p] = "command"
    <3>1. a \notin ToSet(blocked[diskMutex]) /\ ToSet(blocked[diskMutex]) \subseteq Proc
      BY <1>1, QueueElements DEF Waits, StateType
    <3> QED  BY <1>4, <2>5, <3>1 DEF IOInv
  <2>9. \A b \in Asid :
            io'[b] = "wait" => masked' = b /\ Serves(DeviceOf(b), b)' /\ busy[DeviceOf(b)]' # NULL
    <3>1. \A b \in Asid : io'[b] = "wait" => b = a
      BY <1>2, <2>5, Universe
    <3>2. DeviceOf(a)' = d
      BY <1>0, <1>4 DEF DeviceOf
    <3>3. masked' = a /\ Serves(DeviceOf(a), a)' /\ busy[DeviceOf(a)]' # NULL
      BY <2>3, <2>4, <2>6, <3>2
    <3> QED  BY <3>1, <3>3
  <2>10. \A p \in Proc : io'[p] # "command" => p \in Asid /\ pc'[p] \in IOPlaces
    BY <1>1, <1>4, <2>5 DEF IOInv
  <2> QED
    <3>1. \A x \in Device :
              IF busy'[x] = NULL THEN blocked'[x] = <<>> ELSE \E b \in Asid : Serves(x, b)'
      BY <2>3, <2>6, <2>7
    <3>2. \A b \in Asid : pc'[b] \in PrintPlaces => MAXUPROC = 1
      BY <1>4 DEF IOInv
    <3>3. kernel' # "trap"
      BY <1>1 DEF IOInv
    <3> QED  BY <2>3, <2>5, <2>8, <2>9, <2>10, <3>1, <3>2, <3>3 DEF IOInv
<1>5. ASSUME UNCHANGED <<pc, busy>>, io' = [io EXCEPT ![a] = "done"], io[a] = "wait", Sleep(a, d)
      PROVE  IOInv'
  <2>1. busy[d] # NULL /\ blocked[d] = <<>>
    BY <1>0, <1>5 DEF IOInv, Serves
  <2>2. /\ blocked'[d] = <<a>>
        /\ \A s \in DOMAIN blocked \ {d} : blocked'[s] = blocked[s]
    <3>1. Append(<<>>, a) = <<a>>
      OBVIOUS
    <3> QED  BY <1>1, <1>5, <2>1, <3>1 DEF Sleep, StateType
  <2>3. /\ io' \in [Proc -> {"command", "wait", "done"}] /\ io'[a] = "done"
        /\ \A p \in Proc \ {a} : io'[p] = io[p]
    BY <1>1, <1>5
  <2>4. Serves(d, a)'
    BY <1>0, <1>5, <2>2, <2>3 DEF Serves, DeviceOf
  <2>5. \A x \in Device \ {d} : IF busy'[x] = NULL THEN blocked'[x] = <<>> ELSE \E b \in Asid : Serves(x, b)'
    <3>1. ASSUME NEW x \in Device \ {d} PROVE blocked'[x] = blocked[x]
      BY <1>1, <2>2, <3>1 DEF StateType
    <3>2. ASSUME NEW x \in Device \ {d}, busy[x] # NULL PROVE \E b \in Asid : Serves(x, b)'
      <4>1. PICK b \in Asid : Serves(x, b)
        BY <3>2 DEF IOInv
      <4>2. b # a
        BY <1>0, <4>1 DEF Serves
      <4> QED  BY <1>5, <2>3, <3>1, <4>1, <4>2, Universe DEF Serves, DeviceOf
    <3> QED  BY <1>5, <3>1, <3>2 DEF IOInv
  <2>6. \A p \in ToSet(blocked'[diskMutex]) : io'[p] = "command"
    <3>1. a \notin ToSet(blocked[diskMutex]) /\ ToSet(blocked[diskMutex]) \subseteq Proc
          /\ blocked'[diskMutex] = blocked[diskMutex]
      BY <1>1, <2>2, QueueElements DEF Waits, StateType
    <3> QED  BY <2>3, <3>1 DEF IOInv
  <2>7. \A b \in Asid : io'[b] # "wait"
    BY <1>2, <2>3, Universe
  <2>8. \A p \in Proc : io'[p] # "command" => p \in Asid /\ pc'[p] \in IOPlaces
    BY <1>1, <1>5, <2>3 DEF IOInv
  <2> QED
    <3>1. \A x \in Device :
              IF busy'[x] = NULL THEN blocked'[x] = <<>> ELSE \E b \in Asid : Serves(x, b)'
      BY <1>5, <2>1, <2>4, <2>5
    <3>2. \A b \in Asid : pc'[b] \in PrintPlaces => MAXUPROC = 1
      BY <1>5 DEF IOInv
    <3>3. kernel' # "trap" /\ busy' = [x \in Device |-> busy'[x]]
      BY <1>1, <1>5 DEF IOInv
    <3> QED  BY <2>3, <2>6, <2>7, <2>8, <3>1, <3>2, <3>3 DEF IOInv
<1>6. ASSUME UNCHANGED <<blocked, busy>>, io' = [io EXCEPT ![a] = "command"], io[a] = "done",
             Goto(a, then)
      PROVE  IOInv'
  <2>1. \A x \in Device : ~Serves(x, a)
    <3>1. a \in ToSet(<<a>>)
      BY DEF ToSet
    <3> QED  BY <1>1, <1>6, <3>1 DEF Serves, Waits, StateType
  <2>2. /\ io' \in [Proc -> {"command", "wait", "done"}] /\ io'[a] = "command"
        /\ \A p \in Proc \ {a} : io'[p] = io[p] /\ pc'[p] = pc[p]
        /\ pc'[a] = then
    BY <1>1, <1>6 DEF Goto, StateType
  <2>3. \A x \in Device : busy[x] # NULL => \E b \in Asid : Serves(x, b)'
    <3>1. ASSUME NEW x \in Device, busy[x] # NULL PROVE \E b \in Asid : Serves(x, b)'
      <4>1. PICK b \in Asid : Serves(x, b)
        BY <3>1 DEF IOInv
      <4>2. b # a
        BY <2>1, <4>1
      <4> QED  BY <1>6, <2>2, <4>1, <4>2, Universe DEF Serves, DeviceOf
    <3> QED  BY <3>1
  <2>4. \A p \in ToSet(blocked'[diskMutex]) : io'[p] = "command"
    <3>1. ToSet(blocked[diskMutex]) \subseteq Proc
      BY <1>1, QueueElements DEF StateType
    <3> QED  BY <1>6, <2>2, <3>1 DEF IOInv
  <2>5. \A b \in Asid : io'[b] # "wait"
    BY <1>2, <2>2, Universe
  <2>6. \A p \in Proc : io'[p] # "command" => p \in Asid /\ pc'[p] \in IOPlaces
    BY <2>2 DEF IOInv
  <2>7. \A b \in Asid : pc'[b] \in PrintPlaces => MAXUPROC = 1
    BY <1>1, <2>2, Universe DEF IOInv
  <2> QED  BY <1>1, <1>6, <2>2, <2>3, <2>4, <2>5, <2>6, <2>7 DEF IOInv
<1> QED  BY <1>0, <1>4, <1>5, <1>6 DEF DoIO

\* A step from a place where no command is given.
LEMMA CalmGoes ==
    ASSUME Inv, IOInv, NEW a \in Asid, NEW place, At(a, place), place \notin IOPlaces, NEW to,
           Goto(a, to), UNCHANGED <<io, busy>>, kernel' # "trap", KeepsWaiters(a),
           to \in PrintPlaces => place \in PrintPlaces \/ MAXUPROC = 1
    PROVE  IOInv'
<1>1. pc[a] = place /\ masked \in {NULL, a} /\ a \in Proc /\ io[a] = "command"
  BY Universe DEF At, IOInv
<1>2. pc'[a] = to /\ \A b \in Asid \ {a} : pc'[b] = pc[b]
  BY Universe DEF Inv, StateType, Goto
<1> QED  BY <1>1, <1>2, CalmKeeps

LEMMA CalmStays ==
    ASSUME Inv, IOInv, NEW a \in Asid, NEW place, At(a, place), place \notin IOPlaces,
           UNCHANGED <<pc, io, busy>>, kernel' # "trap", KeepsWaiters(a)
    PROVE  IOInv'
<1>1. pc[a] = place /\ masked \in {NULL, a} /\ a \in Proc /\ io[a] = "command"
  BY Universe DEF At, IOInv
<1> QED  BY <1>1, CalmKeeps

\* SYS7.
LEMMA SleepKeepsWaiters ==
    ASSUME Inv, NEW a \in Proc, Sleep(a, Clock) PROVE KeepsWaiters(a)
<1>1. Clock \notin Device \cup Semaphore /\ diskMutex \in Semaphore
  BY Universe DEF Clock, Device, Disk0, Tape, Printer, Terminal, Mutexes
<1> QED  BY <1>1 DEF Inv, StateType, Sleep, KeepsWaiters

\* test(), the creation of a child included.
LEMMA TestCalm == ASSUME Inv, IOInv, Test_ PROVE IOInv'
<1>1. /\ Test \in Proc /\ Test \notin Asid /\ masterSem \in Semaphore /\ StateType /\ Asid \subseteq Proc
      /\ UNCHANGED <<io, busy>> /\ kernel' # "trap" /\ masked \in {NULL, Test}
  BY Universe DEF Test_, CreateChild, AwaitChild, EndTest, Dies, NoIO, At, devices, Inv, IOInv
<1>2. io[Test] = "command"
  BY <1>1 DEF IOInv
<1>3. KeepsWaiters(Test)
  BY <1>1, CallKeepsWaiters, QuietKeepsWaiters
  DEF Test_, CreateChild, AwaitChild, EndTest, Dies, waiting
<1>4. \A b \in Asid : \/ pc'[b] = pc[b]
                      \/ pc[b] = "unborn" /\ pc'[b] = "professor"
  <2>1. CASE CreateChild
    <3>1. /\ Counted \in Nat /\ Counted < MAXUPROC /\ MAXUPROC \in Nat
          /\ \A b \in Asid : b > Counted => pc[b] = "unborn"
      BY <1>1, <2>1, SizeAssumption DEF CreateChild, At, Inv, LockInv, Births, StateType, Locals, Counted
    <3>2. Counted + 1 \in Asid /\ pc[Counted + 1] = "unborn"
      BY <3>1 DEF Asid
    <3>3. \E c \in Asid : \E next :
              /\ c = Counted + 1 /\ pc[c] = "unborn"
              /\ pc' = [pc EXCEPT ![c] = "professor", ![Test] = next]
      BY <2>1, <3>2 DEF CreateChild
    <3> QED  BY <1>1, <3>3 DEF StateType
  <2>2. CASE AwaitChild \/ EndTest
    BY <1>1, <2>2 DEF AwaitChild, EndTest, Dies, Goto, StateType
  <2> QED  BY <2>1, <2>2 DEF Test_
<1> QED  BY <1>1, <1>2, <1>3, <1>4, CalmKeeps

\* The commands of a process to its devices.
LEMMA CommandKeeps ==
    ASSUME Inv, IOInv, NullIsNoCommand, NEW a \in Asid,
           \/ ReadTape(a)
           \/ DoIO(a, "seek", Disk0, Disk0, Seek(currentPage(a)), "seekUnlock")
           \/ DoIO(a, "store", Disk0, Disk0, WriteBuffer(a), "storeUnlock")
           \/ \E then \in {"outWrite", "PANIC"} :
                DoIO(a, "outSeek", Disk0, Disk0, Seek(swamp[vic(a)].page), then)
           \/ DoIO(a, "outWrite", Disk0, Disk0, WriteBlk(swamp[vic(a)], vic(a)), "outUnlock")
           \/ \E then \in {"inRead", "PANIC"} :
                DoIO(a, "inSeek", Disk0, Disk0, Seek(fault(a).page), then)
           \/ DoIO(a, "inRead", Disk0, Disk0, ReadBlk(a, vic(a)), "inUnlock")
           \/ DoIO(a, "printChar", Printer(1), Printer(a), [op |-> "char"], "printed")
           \/ DoIO(a, "typeChar", Terminal(a), Terminal(a), [op |-> "char"], "typed")
    PROVE  IOInv'
<1>1. \A place, d, e, op, then : DoIO(a, place, d, e, op, then) => pc[a] = place
  BY DEF DoIO, At
<1>2. ASSUME NEW place, NEW op, NEW then, DoIO(a, place, Disk0, Disk0, op, then),
             op # NULL, then \notin PrintPlaces,
             place \in IOPlaces \ {"tape", "printChar", "typeChar"}
      PROVE  IOInv'
  <2>1. DeviceOf(a) = Disk0
    BY <1>1, <1>2 DEF DeviceOf
  <2> QED  BY <1>2, <2>1, DoIOKeeps, Universe
<1>3. CASE ReadTape(a)
  <2>1. DeviceOf(a) = Tape(a) /\ [op |-> "readTape", asid |-> a] # NULL
    BY <1>1, <1>3 DEF ReadTape, DeviceOf, NullIsNoCommand
  <2> QED  BY <1>3, <2>1, DoIOKeeps, Universe DEF ReadTape, IOPlaces, PrintPlaces
<1>4. CASE DoIO(a, "printChar", Printer(1), Printer(a), [op |-> "char"], "printed")
  <2>1. DeviceOf(a) = Printer(a) /\ [op |-> "char"] # NULL
    BY <1>1, <1>4 DEF DeviceOf, NullIsNoCommand
  <2>2. a = 1
    BY <1>1, <1>4 DEF IOInv, PrintPlaces, Asid
  <2> QED  BY <1>4, <2>1, <2>2, DoIOKeeps, Universe DEF IOPlaces, PrintPlaces
<1>5. CASE DoIO(a, "typeChar", Terminal(a), Terminal(a), [op |-> "char"], "typed")
  <2>1. DeviceOf(a) = Terminal(a) /\ [op |-> "char"] # NULL
    BY <1>1, <1>5 DEF DeviceOf, NullIsNoCommand
  <2> QED  BY <1>5, <2>1, DoIOKeeps, Universe DEF IOPlaces, PrintPlaces
<1>6. /\ Seek(currentPage(a)) # NULL /\ WriteBuffer(a) # NULL /\ Seek(swamp[vic(a)].page) # NULL
      /\ WriteBlk(swamp[vic(a)], vic(a)) # NULL /\ Seek(fault(a).page) # NULL
      /\ ReadBlk(a, vic(a)) # NULL
  BY DEF NullIsNoCommand
<1> QED  BY <1>2, <1>3, <1>4, <1>5, <1>6 DEF IOPlaces, PrintPlaces

\* The handlers that ask the nucleus for a P or V, or for nothing.
LEMMA CallGoes ==
    ASSUME Inv, IOInv, NEW a \in Asid, NEW place, At(a, place), place \notin IOPlaces, NEW to,
           Goto(a, to), UNCHANGED <<io, busy, kernel>>,
           UNCHANGED blocked \/ \E s \in Semaphore : P(a, s) \/ V(a, s),
           to \in PrintPlaces => place \in PrintPlaces \/ MAXUPROC = 1
    PROVE  IOInv'
<1>1. KeepsWaiters(a)
  BY CallKeepsWaiters, QuietKeepsWaiters, Universe
<1> QED  BY <1>1, CalmGoes DEF At

LEMMA LockDiskCalm ==
    ASSUME Inv, IOInv, NEW a \in Asid, NEW from, NEW to, LockDisk(a, from, to) \/ UnlockDisk(a, from, to),
           from \notin IOPlaces, to \notin PrintPlaces
    PROVE  IOInv'
<1>1. /\ At(a, from) /\ Goto(a, to) /\ UNCHANGED <<io, busy, kernel>>
      /\ P(a, diskMutex) \/ V(a, diskMutex)
  BY DEF LockDisk, UnlockDisk, NoIO, devices
<1> QED  BY <1>1, CallGoes, Universe DEF Mutexes

LEMMA ProfessorCalm ==
    ASSUME Inv, IOInv, NullIsNoCommand, NEW a \in Asid, Professor(a) PROVE IOInv'
<1>1. CASE SetVectors(a) \/ StartProgram(a)
  BY <1>1, CallGoes DEF SetVectors, StartProgram, NoIO, waiting, devices, IOPlaces, PrintPlaces
<1>2. CASE NextBlock(a)
  <2>1. At(a, "stored") /\ UNCHANGED <<blocked, io, busy, kernel>>
    BY <1>2 DEF NextBlock, NoIO, waiting, devices
  <2>2. PICK to \in {"tape", "start"} : Goto(a, to)
    BY <1>2 DEF NextBlock
  <2> QED  BY <2>1, <2>2, CallGoes DEF IOPlaces, PrintPlaces
<1>3. CASE UnlockDisk(a, "seekUnlock", IF Ready(a, "disk") THEN "storeLock" ELSE "stored")
  <2>1. PICK to \in {"storeLock", "stored"} : UnlockDisk(a, "seekUnlock", to)
    BY <1>3
  <2> QED  BY <2>1, LockDiskCalm DEF IOPlaces, PrintPlaces
<1>4. CASE \/ LockDisk(a, "seekLock", "seek") \/ LockDisk(a, "storeLock", "store")
           \/ UnlockDisk(a, "storeUnlock", "stored")
  BY <1>4, LockDiskCalm DEF IOPlaces, PrintPlaces
<1> QED  BY <1>1, <1>2, <1>3, <1>4, CommandKeeps DEF Professor, ReadAndStore, StoreBlock

\* A page fault of a program or of a handler.
LEMMA EnterCalm ==
    ASSUME Inv, IOInv, NEW a \in Asid, NEW place, At(a, place), place \notin IOPlaces,
           EnterTLBHandler(a), UNCHANGED <<blocked, io, busy>>
    PROVE  IOInv'
<1>1. CASE kernel' = kernel /\ \E to \in {"tlb", "sys18"} : Goto(a, to)
  BY <1>1, CallGoes DEF PrintPlaces
<1>2. CASE kernel' = "astray" /\ pc' = pc
  BY <1>2, CalmStays, QuietKeepsWaiters
<1> QED  BY <1>1, <1>2 DEF EnterTLBHandler, Syscall18

LEMMA ProgramCalm ==
    ASSUME Inv, IOInv, PrintsAlone, NEW a \in Asid, Program(a) PROVE IOInv'
<1>1. CASE \E p \in Page : Store(a, p)
  BY <1>1, CalmStays, QuietKeepsWaiters DEF Store, At, waiting, devices, IOPlaces
<1>2. CASE PageFault(a)
  BY <1>2, EnterCalm DEF PageFault, waiting, devices, IOPlaces
<1>3. CASE Call(a)
  <2>1. PICK c \in UserCall : Goto(a, Branch(c))
    BY <1>3 DEF Call
  <2>2. Branch(c) \in PrintPlaces => MAXUPROC = 1
    BY <2>1 DEF Branch, PrintPlaces, PrintsAlone
  <2> QED  BY <1>3, <2>1, <2>2, CallGoes DEF Call, NoIO, waiting, devices, IOPlaces
<1>4. CASE ProgramTrap(a)
  BY <1>4, CallGoes DEF ProgramTrap, Syscall18, NoIO, waiting, devices, IOPlaces, PrintPlaces
<1> QED  BY <1>1, <1>2, <1>3, <1>4 DEF Program

LEMMA TLBHandlerCalm ==
    ASSUME Inv, IOInv, NullIsNoCommand, NEW a \in Asid, TLBHandler(a) PROVE IOInv'
<1>1. CASE EnterSwamp(a)
  <2>1. At(a, "tlb") /\ UNCHANGED <<io, busy, kernel>>
    BY <1>1 DEF EnterSwamp, NoIO, devices
  <2>2. \/ Goto(a, "sys18") /\ UNCHANGED blocked
        \/ Goto(a, "victim") /\ P(a, swampMutex)
    BY <1>1 DEF EnterSwamp, Syscall18, waiting
  <2> QED  BY <2>1, <2>2, CallGoes, Universe DEF IOPlaces, PrintPlaces, Mutexes
<1>2. CASE TakeFrame(a)
  <2>1. At(a, "victim") /\ UNCHANGED <<blocked, io, busy, kernel>>
    BY <1>2 DEF TakeFrame, waiting, devices
  <2>2. PICK to \in {"mask", "writeOut"} : Goto(a, to)
    BY <1>2 DEF TakeFrame
  <2> QED  BY <2>1, <2>2, CallGoes DEF IOPlaces, PrintPlaces
<1>3. CASE WriteOut(a)
  <2>1. CASE LockDisk(a, "writeOut", "outSeek") \/ UnlockDisk(a, "outUnlock", "mask")
    BY <2>1, LockDiskCalm DEF IOPlaces, PrintPlaces
  <2> QED  BY <1>3, <2>1, CommandKeeps DEF WriteOut
<1>4. CASE ReadOut(a)
  <2>1. CASE LockDisk(a, "readOut", "inSeek") \/ UnlockDisk(a, "inUnlock", "update")
    BY <2>1, LockDiskCalm DEF IOPlaces, PrintPlaces
  <2> QED  BY <1>4, <2>1, CommandKeeps DEF ReadOut
<1>5. CASE MaskUpdate(a) \/ MapPage(a) \/ ResumeProgram(a)
  BY <1>5, CallGoes
  DEF MaskUpdate, MapPage, ResumeProgram, waiting, devices, IOPlaces, PrintPlaces
<1>6. CASE Panic(a)
  BY <1>6, CalmStays, QuietKeepsWaiters DEF Panic, waiting, devices, IOPlaces
<1>7. CASE LeaveSwamp(a)
  BY <1>7, CallGoes, Universe DEF LeaveSwamp, NoIO, devices, IOPlaces, PrintPlaces, Mutexes
<1> QED  BY <1>1, <1>2, <1>3, <1>4, <1>5, <1>6, <1>7 DEF TLBHandler

LEMMA CharCalm ==
    ASSUME Inv, IOInv, NEW a \in Asid, NEW loop, NEW give, NextChar(a, loop, give),
           loop \notin IOPlaces, give \in PrintPlaces => loop \in PrintPlaces
    PROVE  IOInv'
<1>1. At(a, loop) /\ UNCHANGED <<blocked, io, busy>>
  BY DEF NextChar, waiting, devices
<1>2. \/ EnterTLBHandler(a)
      \/ kernel' = kernel /\ \E to \in {"return", "sys18", give} : Goto(a, to)
  BY DEF NextChar, Syscall18
<1>3. ASSUME NEW to \in {"return", "sys18", give}, kernel' = kernel, Goto(a, to) PROVE IOInv'
  BY <1>1, <1>3, CallGoes DEF PrintPlaces
<1> QED  BY <1>1, <1>2, <1>3, EnterCalm

LEMMA SentCalm ==
    ASSUME Inv, IOInv, NEW a \in Asid, NEW place, NEW loop, NEW error, CharSent(a, place, loop, error),
           place \notin IOPlaces, loop \in PrintPlaces => place \in PrintPlaces
    PROVE  IOInv'
<1>1. At(a, place) /\ UNCHANGED <<blocked, io, busy, kernel>>
  BY DEF CharSent, NoIO, waiting, devices
<1>2. PICK to \in {"return", loop} : Goto(a, to)
  BY DEF CharSent
<1> QED  BY <1>1, <1>2, CallGoes DEF PrintPlaces

LEMMA SyscallHandlerCalm ==
    ASSUME Inv, IOInv, NullIsNoCommand, NEW a \in Asid, SyscallHandler(a) PROVE IOInv'
<1>1. CASE Sys18(a)
  BY <1>1, CallGoes, Universe DEF Sys18, NoIO, devices, IOPlaces, PrintPlaces
<1>2. CASE Terminate(a)
  <2>1. At(a, "terminate") /\ Goto(a, "ended") /\ kernel' # "trap" /\ KeepsWaiters(a)
    BY <1>2, QuietKeepsWaiters DEF Terminate, Dies, At, waiting
  <2> QED  BY <1>2, <2>1, CalmGoes DEF Terminate, devices, IOPlaces, PrintPlaces
<1>7. CASE Return(a)
  BY <1>7, CallGoes DEF Return, NoIO, waiting, devices, IOPlaces, PrintPlaces
<1>3. CASE PrintString(a)
  BY <1>3, CharCalm, SentCalm, CommandKeeps DEF PrintString, IOPlaces, PrintPlaces
<1>4. CASE TypeString(a)
  BY <1>4, CharCalm, SentCalm, CommandKeeps DEF TypeString, IOPlaces, PrintPlaces
<1>5. CASE Delay(a)
  <2>1. At(a, "delay") /\ UNCHANGED <<io, busy, kernel>>
    BY <1>5 DEF Delay, NoIO, devices
  <2>2. CASE Sleep(a, Clock) /\ UNCHANGED pc
    BY <2>1, <2>2, CalmStays, SleepKeepsWaiters, Universe DEF IOPlaces, At
  <2>3. CASE Goto(a, "return") /\ UNCHANGED waiting
    BY <2>1, <2>3, CallGoes DEF waiting, IOPlaces, PrintPlaces
  <2> QED  BY <1>5, <2>2, <2>3 DEF Delay
<1> QED  BY <1>1, <1>2, <1>3, <1>4, <1>5, <1>7 DEF SyscallHandler

\* A device's interrupt finds the process the device worked for.
LEMMA InterruptKeeps ==
    ASSUME Inv, IOInv, NEW d \in Device, DeviceInterrupt(d) PROVE IOInv'
<1>1. /\ kernel = "up" /\ masked = NULL /\ busy[d] # NULL /\ UNCHANGED <<pc, io, masked>>
      /\ busy' = [busy EXCEPT ![d] = NULL] /\ busy = [x \in Device |-> busy[x]]
      /\ d \in DOMAIN blocked /\ d # diskMutex /\ diskMutex \in DOMAIN blocked
      /\ Device \subseteq DOMAIN blocked
  BY Universe DEF DeviceInterrupt, IOInv, Inv, StateType, Mutexes
<1>2. \A b \in Asid : io[b] # "wait"
  BY <1>1, SizeAssumption, Universe DEF IOInv
<1>3. PICK a \in Asid : Serves(d, a)
  BY <1>1 DEF IOInv
<1>4. blocked[d] = <<a>> /\ DeviceOf(a) = d
  BY <1>2, <1>3 DEF Serves
<1>5. blocked' = [blocked EXCEPT ![d] = <<>>] /\ kernel' = kernel
  <2>1. <<a>> # <<>> /\ Tail(<<a>>) = <<>>
    OBVIOUS
  <2>2. blocked' = [blocked EXCEPT ![d] = Tail(blocked[d])] /\ kernel' = kernel
    BY <1>1, <1>4, <2>1 DEF DeviceInterrupt
  <2> QED  BY <1>4, <2>1, <2>2
<1>6. /\ blocked'[d] = <<>> /\ busy'[d] = NULL /\ busy' = [x \in Device |-> busy'[x]]
      /\ \A x \in Device \ {d} : blocked'[x] = blocked[x] /\ busy'[x] = busy[x]
      /\ blocked'[diskMutex] = blocked[diskMutex]
  BY <1>1, <1>5
<1>7. \A x \in Device : IF busy'[x] = NULL THEN blocked'[x] = <<>> ELSE \E b \in Asid : Serves(x, b)'
  <2>1. ASSUME NEW x \in Device \ {d}, busy[x] # NULL PROVE \E b \in Asid : Serves(x, b)'
    <3>1. PICK b \in Asid : Serves(x, b)
      BY <2>1 DEF IOInv
    <3> QED  BY <1>1, <1>6, <3>1 DEF Serves, DeviceOf
  <2> QED  BY <1>6, <2>1 DEF IOInv
<1> QED  BY <1>1, <1>2, <1>5, <1>6, <1>7 DEF IOInv

LEMMA IOInvInit == ASSUME Init PROVE IOInv
BY Universe DEF Init, IOInv, ToSet, PrintPlaces, Mutexes

LEMMA IOInvStep ==
    ASSUME Inv, IOInv, PrintsAlone, NullIsNoCommand, [Next]_vars PROVE IOInv'
<1>1. CASE Deadlock \/ Stop \/ UNCHANGED vars
  <2>1. UNCHANGED <<masked, pc, io, blocked, busy>> /\ kernel' # "trap"
    BY <1>1 DEF Deadlock, Stop, vars, machine, waiting, devices, IOInv
  <2> QED  BY <2>1 DEF IOInv, Serves, DeviceOf
<1>2. CASE Tick
  <2>1. UNCHANGED <<kernel, masked, pc, io, busy>> /\ blocked' = [blocked EXCEPT ![Clock] = <<>>]
    BY <1>2 DEF Tick, machine, devices
  <2>2. Clock \notin Device /\ diskMutex # Clock /\ Device \cup {diskMutex} \subseteq DOMAIN blocked
    BY Universe DEF Inv, StateType, Mutexes, Clock, Device, Disk0, Tape, Printer, Terminal
  <2>3. /\ \A d \in Device : blocked'[d] = blocked[d]
        /\ blocked'[diskMutex] = blocked[diskMutex]
    BY <2>1, <2>2
  <2>4. \A d \in Device, a \in Asid : Serves(d, a)' <=> Serves(d, a)
    BY <2>1, <2>3 DEF Serves, DeviceOf
  <2>5. \A a \in Asid : io[a] # "wait"
    BY <1>2, SizeAssumption, Universe DEF Tick, IOInv
  <2> QED  BY <2>1, <2>3, <2>4, <2>5 DEF IOInv
<1>3. ASSUME NEW a \in Asid, Professor(a) \/ Program(a) \/ Handlers(a) PROVE IOInv'
  BY <1>3, ProfessorCalm, ProgramCalm, TLBHandlerCalm, SyscallHandlerCalm DEF Handlers
<1> QED  BY <1>1, <1>2, <1>3, TestCalm, InterruptKeeps DEF Next

LEMMA IOInvHolds == ASSUME PrintsAlone, NullIsNoCommand PROVE Spec => []IOInv
<1>1. Init => IOInv
  BY IOInvInit
<1>2. Inv /\ IOInv /\ [Next]_vars => IOInv'
  BY IOInvStep
<1> QED  BY <1>1, <1>2, InvHolds, PTL DEF Spec

\* With one user process, or with processes that do not print, no device ends a
\* command that nobody waits for, and nobody waits for a device without one.
THEOREM WakeupsArrive == ASSUME PrintsAlone, NullIsNoCommand PROVE Spec => []NoLostWakeup
<1>1. IOInv => NoLostWakeup
  <2> SUFFICES ASSUME IOInv PROVE NoLostWakeup
    OBVIOUS
  <2>1. ASSUME NEW d \in Device, busy[d] # NULL
        PROVE  Len(blocked[d]) = 1 \/ (masked # NULL /\ io[masked] = "wait")
    <3>1. PICK a \in Asid : Serves(d, a)
      BY <2>1 DEF IOInv
    <3>2. a # NULL /\ Len(<<a>>) = 1
      BY SizeAssumption, Universe
    <3> QED  BY <3>1, <3>2 DEF Serves, IOInv
  <2> QED  BY <2>1 DEF NoLostWakeup, IOInv
<1> QED  BY <1>1, IOInvHolds, PTL

\* So no command to disk 0 is lost because the disk still works for another.
THEOREM DiskIsIdle == ASSUME PrintsAlone, NullIsNoCommand PROVE Spec => []CommandsReachDevice
<1>1. Inv /\ IOInv => CommandsReachDevice
  <2> SUFFICES ASSUME Inv, IOInv, NEW a \in Asid, io[a] = "command", ~Waits(a), busy[Disk0] # NULL,
                      pc[a] \in {"seek", "store", "outSeek", "outWrite", "inSeek", "inRead"}
               PROVE  FALSE
    BY DEF CommandsReachDevice, Inside
  <2>1. PICK b \in Asid : Serves(Disk0, b)
    BY Universe DEF IOInv
  <2>2. DeviceOf(a) = Disk0 /\ pc[a] \in IOPlaces
    BY DEF DeviceOf, IOPlaces
  <2> QED  BY <2>1, <2>2, OneUser, WaitsNot DEF Serves
<1> QED  BY <1>1, IOInvHolds, InvHolds, PTL

-----------------------------------------------------------------------------
\* A step is one of the interface or leaves what that sees alone.
KeptStep == Calls!Next \/ UNCHANGED Calls!calls

\* The queue operations of ProcessCalls are those of the support level.
LEMMA SameCallOperations ==
    /\ \A q : Calls!ToSet(q) = ToSet(q)
    /\ \A q, p : Calls!InsertProcQ(q, p) = Append(q, p)
    /\ \A q, p : p \notin ToSet(q) => Calls!Leave(q, p) = q
<1>1. \A q : Calls!ToSet(q) = ToSet(q)
  BY DEF Calls!ToSet, ToSet
<1> QED  BY <1>1 DEF Calls!InsertProcQ, Calls!Leave

\* Who may call, and that the interface sees the same of semaphores and queues.
LEMMA Caller ==
    ASSUME Inv, NEW p \in Proc, kernel = "up", pc[p] \notin {"unborn", "ended"}, ~Waits(p)
    PROVE  /\ Verdict = "none" /\ p \in Alive
           /\ \A s \in DOMAIN blocked : p \notin ToSet(blocked[s])
           /\ ~Calls!WaitsFor(p, Semaphore \cup ({Clock} \cup Device))
<1>1. \A s \in DOMAIN blocked : p \notin ToSet(blocked[s])
  BY DEF Waits
<1>2. DOMAIN blocked = Semaphore \cup ({Clock} \cup Device)
  BY DEF Inv, StateType
<1> QED  BY <1>1, <1>2, SameCallOperations DEF Verdict, Alive, Calls!WaitsFor

\* A semaphore is not positive while somebody waits, and not negative else.
LEMMA PermitsOf ==
    ASSUME Inv, NEW s \in Semaphore
    PROVE  /\ sem[s] \in Int /\ blocked[s] \in Seq(Proc)
           /\ Permits[s] = sem[s] + Len(blocked[s]) /\ Len(blocked[s]) \in Nat
           /\ blocked[s] # <<>> => sem[s] = - Len(blocked[s]) /\ Len(blocked[s]) > 0
           /\ blocked[s] = <<>> => sem[s] >= 0 /\ Len(blocked[s]) = 0
<1>0. Permits[s] = sem[s] + Len(blocked[s])
  BY DEF Permits
<1>1. sem[s] \in Int /\ blocked[s] \in Seq(Proc)
  BY DEF Inv, StateType
<1>2. CASE s = masterSem
  <2>1. <<Test>> # <<>> /\ Len(<<Test>>) = 1
    OBVIOUS
  <2>2. CASE blocked[masterSem] = <<>> /\ sem[masterSem] >= 0
    BY <1>0, <1>1, <1>2, <2>2
  <2>3. CASE blocked[masterSem] = <<Test>> /\ sem[masterSem] = -1
    BY <1>0, <1>1, <1>2, <2>1, <2>3
  <2> QED  BY <2>2, <2>3 DEF Inv, Master
<1>3. ASSUME NEW places, Mutex(s, places)
      PROVE  /\ Len(blocked[s]) \in Nat
             /\ blocked[s] # <<>> => sem[s] = - Len(blocked[s]) /\ Len(blocked[s]) > 0
             /\ blocked[s] = <<>> => sem[s] >= 0 /\ Len(blocked[s]) = 0
  <2>1. Len(blocked[s]) \in Nat /\ (blocked[s] = <<>> <=> Len(blocked[s]) = 0)
    BY <1>1, QueueElements
  <2> QED  BY <1>1, <1>3, <2>1 DEF Mutex
<1> QED  BY <1>0, <1>1, <1>2, <1>3 DEF Semaphore, Inv, LockInv

\* A step that changes the queue of one semaphore, and its value.
LEMMA PermitsChange ==
    ASSUME Inv, NEW s \in Semaphore, NEW v, sem' = [sem EXCEPT ![s] = v],
           NEW q, blocked' = [blocked EXCEPT ![s] = q]
    PROVE  Permits' = [Permits EXCEPT ![s] = v + Len(q)]
<1>1. \A t \in Semaphore : /\ sem'[t] = IF t = s THEN v ELSE sem[t]
                           /\ blocked'[t] = IF t = s THEN q ELSE blocked[t]
  BY DEF Inv, StateType
<1>2. \A t \in Semaphore : Permits'[t] = IF t = s THEN v + Len(q) ELSE Permits[t]
  BY <1>1 DEF Permits
<1>3. Permits' = [t \in Semaphore |-> Permits'[t]] /\ Permits = [t \in Semaphore |-> Permits[t]]
  BY DEF Permits
<1> QED  BY <1>2, <1>3

\* P, V and the wait for an event, when nobody is born or dies.
LEMMA PIsCall ==
    ASSUME Inv, NEW p \in Proc, kernel = "up", pc[p] \notin {"unborn", "ended"}, ~Waits(p),
           NEW s \in Semaphore, P(p, s), Alive' = Alive, Verdict' = Verdict
    PROVE  KeptStep
<1>1. /\ sem' = [sem EXCEPT ![s] = sem[s] - 1] /\ sem[s] \in Int
      /\ blocked = [blocked EXCEPT ![s] = blocked[s]] /\ Len(blocked[s]) \in Nat
  BY PermitsOf DEF P, Inv, StateType
<1>2. CASE sem[s] > 0
  <2>1. UNCHANGED blocked /\ Len(blocked[s]) = 0 /\ Permits[s] = sem[s]
    BY <1>1, <1>2, PermitsOf DEF P
  <2>2. Permits' = [Permits EXCEPT ![s] = Permits[s] - 1]
    <3>1. (sem[s] - 1) + Len(blocked[s]) = Permits[s] - 1
      BY <1>1, <2>1
    <3>2. blocked' = [blocked EXCEPT ![s] = blocked[s]]
      BY <1>1, <2>1
    <3>3. Permits' = [Permits EXCEPT ![s] = (sem[s] - 1) + Len(blocked[s])]
      BY <1>1, <3>2, PermitsChange
    <3> QED  BY <3>1, <3>3
  <2>3. Calls!Passeren(p, s)
    BY <1>2, <2>1, <2>2 DEF Calls!Passeren
  <2> QED  BY <2>3, Caller DEF Calls!Call, Calls!Next, KeptStep
<1>3. CASE ~(sem[s] > 0)
  <2>1. blocked' = [blocked EXCEPT ![s] = Append(blocked[s], p)]
    BY <1>1, <1>3 DEF P, Sleep
  <2>2. Len(Append(blocked[s], p)) = Len(blocked[s]) + 1
    BY PermitsOf, AppendProperties
  <2>3. Permits[s] = 0 /\ (sem[s] - 1) + Len(Append(blocked[s], p)) = Permits[s]
    BY <1>1, <1>3, <2>2, PermitsOf
  <2>4. Permits' = [Permits EXCEPT ![s] = (sem[s] - 1) + Len(Append(blocked[s], p))]
    BY <1>1, <2>1, PermitsChange
  <2>5. Permits' = Permits /\ ~(Permits[s] > 0)
    <3>1. Permits' = Permits
      BY <2>3, <2>4 DEF Permits
    <3>2. ~(Permits[s] > 0)
      BY <2>3
    <3> QED  BY <3>1, <3>2
  <2>6. Calls!Passeren(p, s)
    BY <2>1, <2>5, SameCallOperations DEF Calls!Passeren, Calls!Join
  <2> QED  BY <2>6, Caller DEF Calls!Call, Calls!Next, KeptStep
<1> QED  BY <1>2, <1>3

LEMMA VIsCall ==
    ASSUME Inv, NEW p \in Proc, kernel = "up", pc[p] \notin {"unborn", "ended"}, ~Waits(p),
           NEW s \in Semaphore, V(p, s), Alive' = Alive, Verdict' = Verdict
    PROVE  KeptStep
<1>1. /\ sem' = [sem EXCEPT ![s] = sem[s] + 1] /\ sem[s] \in Int
      /\ blocked = [blocked EXCEPT ![s] = blocked[s]] /\ Len(blocked[s]) \in Nat
  BY PermitsOf DEF V, Inv, StateType
<1>2. CASE blocked[s] = <<>>
  <2>1. UNCHANGED blocked /\ Len(blocked[s]) = 0 /\ Permits[s] = sem[s]
    BY <1>1, <1>2, PermitsOf DEF V
  <2>2. Permits' = [Permits EXCEPT ![s] = Permits[s] + 1]
    <3>1. (sem[s] + 1) + Len(blocked[s]) = Permits[s] + 1
      BY <1>1, <2>1
    <3>2. blocked' = [blocked EXCEPT ![s] = blocked[s]]
      BY <1>1, <2>1
    <3>3. Permits' = [Permits EXCEPT ![s] = (sem[s] + 1) + Len(blocked[s])]
      BY <1>1, <3>2, PermitsChange
    <3> QED  BY <3>1, <3>3
  <2>3. Calls!Verhogen(s)
    BY <1>2, <2>1, <2>2 DEF Calls!Verhogen
  <2> QED  BY <2>3, Caller DEF Calls!Call, Calls!Next, KeptStep
<1>3. CASE blocked[s] # <<>>
  <2>1. blocked' = [blocked EXCEPT ![s] = Tail(blocked[s])]
    BY <1>1, <1>3, PermitsOf DEF V
  <2>2. Len(Tail(blocked[s])) = Len(blocked[s]) - 1 /\ Len(Tail(blocked[s])) \in Nat
    BY <1>3, PermitsOf, HeadTailProperties
  <2>3. (sem[s] + 1) + Len(Tail(blocked[s])) = Permits[s]
    BY <1>1, <1>3, <2>2, PermitsOf
  <2>4. Permits' = [Permits EXCEPT ![s] = (sem[s] + 1) + Len(Tail(blocked[s]))]
    BY <1>1, <2>1, PermitsChange
  <2>5. Permits' = Permits
    BY <2>3, <2>4 DEF Permits
  <2>6. Calls!Verhogen(s)
    BY <1>3, <2>1, <2>5 DEF Calls!Verhogen
  <2> QED  BY <2>6, Caller DEF Calls!Call, Calls!Next, KeptStep
<1> QED  BY <1>2, <1>3

\* An event changes the queue of no semaphore.
LEMMA EventPermits ==
    ASSUME Inv, UNCHANGED sem, NEW e \in {Clock} \cup Device, NEW q,
           blocked' = [blocked EXCEPT ![e] = q]
    PROVE  Permits' = Permits
<1>1. e \notin Semaphore
  BY Universe DEF Clock, Device, Semaphore, masterSem, swampMutex, diskMutex, Disk0, Tape,
     Printer, Terminal
<1>2. \A s \in Semaphore : blocked'[s] = blocked[s]
  BY <1>1 DEF Inv, StateType
<1> QED  BY <1>2 DEF Permits

LEMMA SleepIsCall ==
    ASSUME Inv, NEW p \in Proc, kernel = "up", pc[p] \notin {"unborn", "ended"}, ~Waits(p),
           NEW e \in {Clock} \cup Device, Sleep(p, e), UNCHANGED sem, Alive' = Alive,
           Verdict' = Verdict
    PROVE  KeptStep
<1>1. Calls!WaitFor(p, e)
  BY SameCallOperations, EventPermits DEF Calls!WaitFor, Calls!Join, Sleep
<1> QED  BY <1>1, Caller DEF Calls!Call, Calls!Next, KeptStep

\* Nothing the nucleus has a part in.
LEMMA NoCallNeeded ==
    ASSUME UNCHANGED waiting, Alive' = Alive, Verdict' = Verdict PROVE KeptStep
BY DEF KeptStep, Calls!calls, waiting, Permits

\* Death.
LEMMA DeathIsCall ==
    ASSUME Inv, NEW p \in Proc, kernel = "up", pc[p] \notin {"unborn", "ended"}, ~Waits(p),
           UNCHANGED waiting, Alive' = Alive \ {p},
           Verdict' = "none" \/ (Alive' = {} /\ Verdict' = "halted")
    PROVE  KeptStep
<1>1. /\ blocked \in [Semaphore \cup {Clock} \cup Device -> Seq(Proc)] /\ UNCHANGED <<sem, blocked>>
      /\ Semaphore \cup {Clock} \cup Device = Semaphore \cup ({Clock} \cup Device)
  BY DEF Inv, StateType, waiting
<1>2. \A s \in Semaphore \cup ({Clock} \cup Device) : Calls!Leave(blocked[s], p) = blocked[s]
  BY <1>1, Caller, SameCallOperations
<1>3. blocked' = [s \in Semaphore \cup ({Clock} \cup Device) |-> Calls!Leave(blocked[s], p)]
  BY <1>1, <1>2
<1>4. Calls!Die(p)
  BY <1>1, <1>3, Caller DEF Calls!Die, Permits
<1> QED  BY <1>4, Caller DEF Calls!Call, Calls!Next, KeptStep

\* SYS2: the machine HALTs only when nobody is left.
LEMMA EndIsCall ==
    ASSUME Inv, NEW p \in Proc, kernel = "up", pc[p] \notin {"unborn", "ended"}, ~Waits(p),
           UNCHANGED waiting, Dies(p)
    PROVE  KeptStep
<1>1. pc'[p] = "ended" /\ \A q \in Proc \ {p} : pc'[q] = pc[q]
  BY DEF Dies, Goto, Inv, StateType
<1>2. Alive' = Alive \ {p}
  BY <1>1 DEF Alive
<1>3. Verdict' = "none" \/ (Alive' = {} /\ Verdict' = "halted")
  <2>1. CASE \A q \in Proc \ {p} : pc[q] = "ended"
    <3>1. Alive \ {p} = {} /\ kernel' = "halted"
      BY <2>1 DEF Alive, Dies
    <3> QED  BY <1>2, <3>1 DEF Verdict
  <2>2. CASE ~(\A q \in Proc \ {p} : pc[q] = "ended")
    <3>1. kernel' = "up"
      BY <2>2 DEF Dies
    <3> QED  BY <3>1 DEF Verdict
  <2> QED  BY <2>1, <2>2
<1> QED  BY <1>2, <1>3, DeathIsCall

-----------------------------------------------------------------------------
\* What a step of a process asks of the nucleus, in terms of the nucleus.
Uses(a) ==
    /\ kernel = "up" /\ pc[a] \notin {"unborn", "ended"}
    /\ \/ UNCHANGED waiting /\ kernel' = kernel /\ pc'[a] # "ended"
       \/ UNCHANGED waiting /\ Dies(a)
       \/ UNCHANGED <<waiting, pc>> /\ kernel' \in {"panic", "astray"}
       \/ /\ pc'[a] # "ended" /\ kernel' = kernel
          /\ \/ \E s \in Semaphore : P(a, s) \/ V(a, s)
             \/ UNCHANGED sem /\ \E e \in {Clock} \cup Device : Sleep(a, e)

\* The machine fails.
LEMMA FailureIsCall ==
    ASSUME UNCHANGED <<waiting, pc>>, kernel = "up", kernel' \in {"panic", "astray", "trap"}
    PROVE  KeptStep
<1>1. /\ UNCHANGED <<Alive, blocked, Permits>>
      /\ Verdict = "none" /\ Verdict' = "failed"
  BY DEF Alive, waiting, Permits, Verdict
<1> QED  BY <1>1 DEF Calls!Fail, Calls!Next, KeptStep

LEMMA UsesIsCall == ASSUME Inv, NEW a \in Asid, Steps(a), Uses(a) PROVE KeptStep
<1>1. /\ a \in Proc /\ ~Waits(a) /\ kernel = "up" /\ pc[a] \notin {"unborn", "ended"}
      /\ pc'[a] # "unborn" /\ \A b \in Proc \ {a} : pc'[b] = pc[b]
  BY Universe DEF Steps, Uses
<1>2. kernel' = kernel => Verdict' = Verdict
  BY DEF Verdict
<1>3. pc'[a] # "ended" => Alive' = Alive
  BY <1>1 DEF Alive
<1>4. CASE UNCHANGED waiting /\ Dies(a)
  BY <1>1, <1>4, EndIsCall
<1>5. CASE UNCHANGED waiting /\ kernel' = kernel /\ pc'[a] # "ended"
  BY <1>2, <1>3, <1>5, NoCallNeeded
<1>6. ASSUME pc'[a] # "ended", kernel' = kernel, NEW s \in Semaphore, P(a, s) \/ V(a, s)
      PROVE  KeptStep
  BY <1>1, <1>2, <1>3, <1>6, PIsCall, VIsCall
<1>7. ASSUME pc'[a] # "ended", kernel' = kernel, UNCHANGED sem,
             NEW e \in {Clock} \cup Device, Sleep(a, e)
      PROVE  KeptStep
  BY <1>1, <1>2, <1>3, <1>7, SleepIsCall
<1>8. CASE UNCHANGED <<waiting, pc>> /\ kernel' \in {"panic", "astray"}
  BY <1>1, <1>8, FailureIsCall
<1> QED  BY <1>4, <1>5, <1>6, <1>7, <1>8 DEF Uses

\* Steps in the order of the handlers' lemmas above.
LEMMA DoIOUses ==
    ASSUME NEW a \in Asid, NEW place, NEW commanded, NEW awaited \in Device, NEW op,
           NEW then, DoIO(a, place, commanded, awaited, op, then),
           place \notin {"unborn", "ended"}, then # "ended", Inv
    PROVE  Uses(a)
<1>1. kernel = "up" /\ kernel' = kernel /\ pc[a] = place /\ UNCHANGED sem
  BY DEF DoIO, At
<1>2. UNCHANGED blocked \/ (pc' = pc /\ Sleep(a, awaited))
  BY DEF DoIO
<1>3. pc'[a] # "ended"
  BY <1>1, Universe DEF DoIO, Goto, Inv, StateType
<1> QED  BY <1>1, <1>2, <1>3 DEF Uses, waiting

LEMMA LockUses ==
    ASSUME Inv, NEW a \in Asid, NEW place, At(a, place), place \notin {"unborn", "ended"},
           NEW to, Goto(a, to), to # "ended", NEW s \in Semaphore, P(a, s) \/ V(a, s),
           kernel' = kernel
    PROVE  Uses(a)
<1>1. pc'[a] = to
  BY Universe DEF Inv, StateType, Goto
<1> QED  BY <1>1 DEF Uses, At

LEMMA LockDiskUses ==
    ASSUME Inv, NEW a \in Asid, NEW from, NEW to, from \notin {"unborn", "ended"}, to # "ended",
           LockDisk(a, from, to) \/ UnlockDisk(a, from, to)
    PROVE  Uses(a)
<1>1. /\ At(a, from) /\ Goto(a, to) /\ kernel' = kernel
      /\ P(a, diskMutex) \/ V(a, diskMutex)
  BY DEF LockDisk, UnlockDisk, NoIO
<1> QED  BY <1>1, LockUses DEF Semaphore

LEMMA PlainUses ==
    ASSUME Inv, NEW a \in Asid, NEW place, At(a, place), place \notin {"unborn", "ended"},
           NEW to, Goto(a, to) \/ UNCHANGED pc, to # "ended", UNCHANGED waiting, kernel' = kernel
    PROVE  Uses(a)
<1>1. pc'[a] # "ended"
  BY Universe DEF Inv, StateType, Goto, At
<1> QED  BY <1>1 DEF Uses, At

LEMMA EnterUses ==
    ASSUME Inv, NEW a \in Asid, NEW place, At(a, place), place \notin {"unborn", "ended"},
           EnterTLBHandler(a), UNCHANGED waiting
    PROVE  Uses(a)
<1>1. CASE kernel' = kernel /\ \E to \in {"tlb", "sys18"} : Goto(a, to)
  BY <1>1, PlainUses
<1>2. CASE kernel' = "astray" /\ UNCHANGED pc
  BY <1>2 DEF Uses, At
<1> QED  BY <1>1, <1>2 DEF EnterTLBHandler, Syscall18

LEMMA ProfessorUses == ASSUME Inv, NEW a \in Asid, Professor(a) PROVE Uses(a)
<1>1. CASE SetVectors(a) \/ StartProgram(a) \/ NextBlock(a)
  <2>1. /\ \E place \in {"professor", "start", "stored"} : At(a, place)
        /\ \E to \in {"tape", "user", "start"} : Goto(a, to)
        /\ UNCHANGED <<waiting, kernel>>
    BY <1>1 DEF SetVectors, StartProgram, NextBlock, NoIO
  <2> QED  BY <2>1, PlainUses
<1>2. CASE ReadTape(a)
  BY <1>2, DoIOUses, Universe DEF ReadTape
<1>3. CASE StoreBlock(a)
  <2>1. CASE UnlockDisk(a, "seekUnlock", IF Ready(a, "disk") THEN "storeLock" ELSE "stored")
    <3>1. (IF Ready(a, "disk") THEN "storeLock" ELSE "stored") # "ended"
      OBVIOUS
    <3> QED  BY <2>1, <3>1, LockDiskUses
  <2>2. CASE \/ DoIO(a, "seek", Disk0, Disk0, Seek(currentPage(a)), "seekUnlock")
             \/ DoIO(a, "store", Disk0, Disk0, WriteBuffer(a), "storeUnlock")
    BY <2>2, DoIOUses, Universe
  <2>3. CASE \/ LockDisk(a, "seekLock", "seek") \/ LockDisk(a, "storeLock", "store")
             \/ UnlockDisk(a, "storeUnlock", "stored")
    BY <2>3, LockDiskUses
  <2> QED  BY <1>3, <2>1, <2>2, <2>3 DEF StoreBlock
<1> QED  BY <1>1, <1>2, <1>3 DEF Professor, ReadAndStore

LEMMA ProgramUses == ASSUME Inv, NEW a \in Asid, Program(a) PROVE Uses(a)
<1>1. At(a, "user") /\ UNCHANGED waiting
  BY DEF Program, Store, PageFault, Call, ProgramTrap
<1>2. CASE \E p \in Page : Store(a, p)
  BY <1>1, <1>2, PlainUses DEF Store
<1>3. CASE Call(a)
  <2>1. PICK c \in UserCall : Goto(a, Branch(c))
    BY <1>3 DEF Call
  <2>2. Branch(c) # "ended" /\ kernel' = kernel
    BY <1>3 DEF Branch, Call, NoIO
  <2> QED  BY <1>1, <2>1, <2>2, PlainUses
<1>4. CASE ProgramTrap(a)
  BY <1>1, <1>4, PlainUses DEF ProgramTrap, Syscall18, NoIO
<1>5. CASE PageFault(a)
  BY <1>1, <1>5, EnterUses DEF PageFault
<1> QED  BY <1>2, <1>3, <1>4, <1>5 DEF Program

LEMMA TLBHandlerUses == ASSUME Inv, NEW a \in Asid, TLBHandler(a) PROVE Uses(a)
<1>1. CASE EnterSwamp(a)
  <2>1. At(a, "tlb") /\ kernel' = kernel
    BY <1>1 DEF EnterSwamp, NoIO
  <2>2. (UNCHANGED waiting /\ Goto(a, "sys18")) \/ (P(a, swampMutex) /\ Goto(a, "victim"))
    BY <1>1 DEF EnterSwamp, Syscall18
  <2> QED  BY <2>1, <2>2, LockUses, PlainUses DEF Semaphore
<1>2. CASE WriteOut(a)
  <2>1. (IF Ready(a, "disk") THEN "outWrite" ELSE "PANIC") # "ended"
    OBVIOUS
  <2> QED  BY <1>2, <2>1, DoIOUses, LockDiskUses, Universe DEF WriteOut
<1>3. CASE ReadOut(a)
  <2>1. (IF Ready(a, "disk") THEN "inRead" ELSE "PANIC") # "ended"
    OBVIOUS
  <2> QED  BY <1>3, <2>1, DoIOUses, LockDiskUses, Universe DEF ReadOut
<1>4. CASE TakeFrame(a) \/ MaskUpdate(a) \/ MapPage(a) \/ ResumeProgram(a)
  <2>1. /\ \E place \in {"victim", "mask", "update", "LDST"} : At(a, place)
        /\ \E to \in {"mask", "writeOut", "readOut", "swampUnlock", "user"} : Goto(a, to)
        /\ UNCHANGED <<waiting, kernel>>
    BY <1>4 DEF TakeFrame, MaskUpdate, MapPage, ResumeProgram
  <2> QED  BY <2>1, PlainUses
<1>6. CASE Panic(a)
  BY <1>6 DEF Panic, At, Uses
<1>5. CASE LeaveSwamp(a)
  <2>1. At(a, "swampUnlock") /\ Goto(a, "LDST") /\ V(a, swampMutex) /\ kernel' = kernel
    BY <1>5 DEF LeaveSwamp, NoIO
  <2> QED  BY <2>1, LockUses DEF Semaphore
<1> QED  BY <1>1, <1>2, <1>3, <1>4, <1>5, <1>6 DEF TLBHandler

LEMMA StringUses ==
    ASSUME Inv, NEW a \in Asid, PrintString(a) \/ TypeString(a) PROVE Uses(a)
<1>1. ASSUME NEW loop, loop \notin {"unborn", "ended"}, NEW give, give # "ended",
             NextChar(a, loop, give)
      PROVE  Uses(a)
  <2>1. At(a, loop) /\ UNCHANGED waiting
    BY <1>1 DEF NextChar
  <2>2. \/ EnterTLBHandler(a)
        \/ kernel' = kernel /\ \E to \in {"return", "sys18", give} : Goto(a, to)
    BY <1>1 DEF NextChar, Syscall18
  <2> QED  BY <1>1, <2>1, <2>2, PlainUses, EnterUses
<1>2. ASSUME NEW place, place \notin {"unborn", "ended"}, NEW loop, loop # "ended", NEW error,
             CharSent(a, place, loop, error)
      PROVE  Uses(a)
  <2>1. /\ At(a, place) /\ UNCHANGED <<waiting, kernel>>
        /\ \E to \in {"return", loop} : Goto(a, to)
    BY <1>2 DEF CharSent, NoIO
  <2> QED  BY <1>2, <2>1, PlainUses
<1> QED  BY <1>1, <1>2, DoIOUses, Universe DEF PrintString, TypeString

LEMMA SyscallHandlerUses == ASSUME Inv, NEW a \in Asid, SyscallHandler(a) PROVE Uses(a)
<1>1. CASE Sys18(a)
  <2>1. At(a, "sys18") /\ Goto(a, "terminate") /\ V(a, masterSem) /\ kernel' = kernel
    BY <1>1 DEF Sys18, NoIO
  <2> QED  BY <2>1, LockUses DEF Semaphore
<1>2. CASE Terminate(a)
  BY <1>2 DEF Terminate, At, Uses
<1>4. CASE Return(a)
  BY <1>4, PlainUses DEF Return
<1>3. CASE Delay(a)
  <2>1. At(a, "delay") /\ kernel' = kernel
    BY <1>3 DEF Delay, NoIO
  <2>2. CASE UNCHANGED waiting /\ Goto(a, "return")
    BY <2>1, <2>2, PlainUses
  <2>3. CASE Sleep(a, Clock) /\ UNCHANGED <<pc, sem>>
    BY <2>1, <2>3 DEF Uses, At
  <2> QED  BY <1>3, <2>2, <2>3 DEF Delay
<1> QED  BY <1>1, <1>2, <1>3, <1>4, StringUses DEF SyscallHandler

-----------------------------------------------------------------------------
\* test(): births, the P for each child, and the end.
LEMMA TestIsCall == ASSUME Inv, Test_ PROVE KeptStep
<1>1. /\ Test \in Proc /\ kernel = "up" /\ ~Waits(Test) /\ pc[Test] \notin {"unborn", "ended"}
      /\ Verdict = "none" /\ DOMAIN pc = Proc
  BY Universe DEF Test_, CreateChild, AwaitChild, EndTest, Dies, At, Verdict, Inv, StateType
<1>2. CASE CreateChild
  <2> DEFINE child == Counted + 1
  <2>1. /\ pc[Test] = "create" /\ UNCHANGED waiting /\ kernel' = kernel
        /\ pc' = [pc EXCEPT ![child] = "professor",
                            ![Test] = IF child < MAXUPROC THEN "create" ELSE "await"]
    BY <1>2 DEF CreateChild, At, NoIO
  <2>2. Counted < MAXUPROC /\ Counted \in Nat
    BY <2>1, Universe DEF Inv, LockInv, Births, StateType, Locals, Counted
  <2>3. child \in Asid /\ child > Counted /\ child # Test
    BY <2>2, SizeAssumption DEF Asid, Test
  <2>4. pc[child] = "unborn" /\ child \in Proc
    BY <2>1, <2>3 DEF Inv, LockInv, Births, Proc
  <2>5. /\ pc'[child] = "professor" /\ pc'[Test] \in {"create", "await"}
        /\ \A b \in Proc \ {Test, child} : pc'[b] = pc[b]
    BY <1>1, <2>1, <2>3, <2>4
  <2>6. Alive' = Alive \cup {child} /\ child \notin Alive
    BY <1>1, <2>4, <2>5 DEF Alive
  <2>7. Verdict' = Verdict /\ Permits' = Permits /\ blocked' = blocked
    BY <2>1 DEF Verdict, Permits, waiting
  <2>8. Calls!Create(child)
    BY <2>6, <2>7 DEF Calls!Create
  <2> QED  BY <1>1, <2>4, <2>8, Caller DEF Calls!Call, Calls!Next, KeptStep
<1>3. CASE AwaitChild
  <2>1. P(Test, masterSem) /\ kernel' = kernel /\ \E to \in {"sys2", "await"} : Goto(Test, to)
    BY <1>3 DEF AwaitChild, NoIO
  <2>2. pc'[Test] \in {"sys2", "await"} /\ \A b \in Proc \ {Test} : pc'[b] = pc[b]
    BY <1>1, <2>1 DEF Goto
  <2>3. Alive' = Alive /\ Verdict' = Verdict
    BY <1>1, <2>1, <2>2 DEF Alive, Verdict
  <2> QED  BY <1>1, <2>1, <2>3, PIsCall DEF Semaphore
<1>4. CASE EndTest
  BY <1>1, <1>4, EndIsCall DEF EndTest
<1> QED  BY <1>2, <1>3, <1>4 DEF Test_

\* The devices, the clock and the scheduler.
LEMMA EventIsCall ==
    ASSUME Inv, Tick \/ Deadlock \/ \E d \in Device : DeviceInterrupt(d) PROVE KeptStep
<1>1. CASE Tick
  <2>1. blocked[Clock] # <<>> /\ blocked' = [blocked EXCEPT ![Clock] = <<>>]
    BY <1>1 DEF Tick
  <2>2. UNCHANGED <<Alive, Permits, Verdict>>
    BY <1>1, EventPermits DEF Tick, Alive, Verdict, machine, waiting
  <2>3. Calls!Happens(Clock)
    BY <2>1, <2>2 DEF Calls!Happens
  <2> QED  BY <2>3 DEF Calls!Next, KeptStep
<1>2. ASSUME NEW d \in Device, DeviceInterrupt(d) PROVE KeptStep
  <2>1. UNCHANGED <<pc, sem>> /\ kernel = "up"
    BY <1>2 DEF DeviceInterrupt
  <2>2. UNCHANGED Alive
    BY <2>1 DEF Alive
  <2>3. CASE blocked[d] = <<>>
    <3>1. UNCHANGED <<waiting, pc>> /\ kernel' = "trap"
      BY <1>2, <2>1, <2>3 DEF DeviceInterrupt, waiting
    <3> QED  BY <2>1, <3>1, FailureIsCall
  <2>4. CASE blocked[d] # <<>>
    <3>1. UNCHANGED kernel /\ blocked' = [blocked EXCEPT ![d] = Tail(@)]
      BY <1>2, <2>4 DEF DeviceInterrupt
    <3>2. Calls!Happens(d)
      BY <2>1, <2>2, <2>4, <3>1, EventPermits DEF Calls!Happens, Verdict
    <3> QED  BY <3>2 DEF Calls!Next, KeptStep
  <2> QED  BY <2>3, <2>4
<1>3. CASE Deadlock
  <2>1. UNCHANGED <<Alive, blocked, Permits>> /\ Verdict' = "deadlock" /\ Alive # {}
    BY <1>3 DEF Deadlock, Alive, Permits, Verdict, waiting
  <2>2. \A p \in Alive : Calls!WaitsFor(p, Semaphore)
    BY <1>3, SameCallOperations DEF Deadlock, Calls!WaitsFor
  <2>3. Calls!Deadlock
    BY <2>1, <2>2 DEF Calls!Deadlock
  <2> QED  BY <2>3 DEF Calls!Next, KeptStep
<1> QED  BY <1>1, <1>2, <1>3

LEMMA StepIsCall == ASSUME Inv, [Next]_vars PROVE KeptStep
<1>1. ASSUME NEW a \in Asid, Professor(a) \/ Program(a) \/ Handlers(a) PROVE KeptStep
  <2>1. Steps(a)
    BY <1>1, ProfessorSteps, ProgramSteps, TLBHandlerSteps, SyscallHandlerSteps DEF Handlers
  <2>2. Uses(a)
    BY <1>1, ProfessorUses, ProgramUses, TLBHandlerUses, SyscallHandlerUses DEF Handlers
  <2> QED  BY <2>1, <2>2, UsesIsCall
<1>2. CASE Stop \/ UNCHANGED vars
  BY <1>2, NoCallNeeded DEF Stop, vars, machine, Alive, Verdict
<1> QED  BY <1>1, <1>2, TestIsCall, EventIsCall DEF Next

LEMMA InitIsCalls == ASSUME Init PROVE Calls!Init
<1>1. Alive = {Test}
  BY SizeAssumption DEF Init, Alive, Proc, Asid, Test
<1>2. blocked = [s \in Semaphore \cup ({Clock} \cup Device) |-> <<>>]
  <2>1. Semaphore \cup {Clock} \cup Device = Semaphore \cup ({Clock} \cup Device)
    OBVIOUS
  <2> QED  BY <2>1 DEF Init
<1>3. Permits \in [Semaphore -> Nat] /\ Verdict = "none"
  <2>1. \A s \in Semaphore : sem[s] \in Nat /\ Len(blocked[s]) = 0
    BY DEF Init
  <2>2. \A s \in Semaphore : sem[s] + Len(blocked[s]) \in Nat
    BY <2>1
  <2> QED  BY <2>2 DEF Init, Permits, Verdict
<1> QED  BY <1>1, <1>2, <1>3 DEF Calls!Init

\* The support level asks of the nucleus only what the interface lets a process
\* ask, and gets no more from it, whatever the programs and devices do: births,
\* P and V, waiting for devices and the clock, deaths, and the end of the machine.
THEOREM SupportKeepsCalls == Spec => CallsKept
<1>1. Init => Calls!Init
  BY InitIsCalls
<1>2. Inv /\ [Next]_vars => [Calls!Next]_(Calls!calls)
  BY StepIsCall DEF KeptStep
<1> QED  BY <1>1, <1>2, InvHolds, PTL DEF Spec, CallsKept, Calls!Spec
=============================================================================
