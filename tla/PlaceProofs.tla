---------------------------- MODULE PlaceProofs ----------------------------
(***************************************************************************)
(* TLAPS proofs about the nucleus, first part: that a step from a state of *)
(* the inductive invariant of NucleusInv leads to a state where every      *)
(* variable has its type, the process tree and the stack of sys2 are sound *)
(* (FamilyInv), and each pcb is where its fields say (PlaceInv).           *)
(***************************************************************************)
EXTENDS NucleusInv, PcbQueueProofs

(***************************************************************************)
(* The types.                                                              *)
(***************************************************************************)

\* putInQ puts a process into one of the three queues.
LEMMA QueueForRange ==
    ASSUME NEW t, NEW w PROVE QueueFor(t, w) \in 0 .. 2
BY DEF QueueFor

\* putInQ leaves three queues of pcbs.
LEMMA PutInQType ==
    ASSUME NEW q \in [0 .. 2 -> Seq(Proc)], NEW p \in Proc, NEW r, NEW w
    PROVE  PutInQ(q, p, r, w) \in [0 .. 2 -> Seq(Proc)]
<1> DEFINE i == QueueFor(r.totalProcTime, w)
<1>1. i \in 0 .. 2
  BY QueueForRange
<1>2. InsertProcQ(q[i], p) \in Seq(Proc)
  BY <1>1, InsertQueue
<1> QED  BY <1>1, <1>2 DEF PutInQ

\* moveState leaves a pcb whose p_semAdd is no semaphore.
LEMMA MoveStateType ==
    ASSUME NEW r \in PcbFields
    PROVE  /\ MoveState(r) \in PcbFields
           /\ MoveState(r).p_semAdd = NewAreaAsid
           /\ MoveState(r).sysCallFlag = r.sysCallFlag
<1> DEFINE a == [r EXCEPT !.p_semAdd = NewAreaAsid]
           b == [a EXCEPT !.totalProcTime = NewAreaCause]
           c == [b EXCEPT !.timeLeft = 0]
<1>1. a \in PcbFields /\ a.p_semAdd = NewAreaAsid /\ a.sysCallFlag = r.sysCallFlag
  BY DEF PcbFields
<1>2. MoveState(r) = c
  BY DEF MoveState, NewAreaStatus
<1> HIDE DEF a
<1>3. b \in PcbFields /\ b.p_semAdd = NewAreaAsid /\ b.sysCallFlag = r.sysCallFlag
  BY <1>1, TimeAssumption DEF PcbFields
<1> HIDE DEF b
<1>4. c \in PcbFields /\ c.p_semAdd = NewAreaAsid /\ c.sysCallFlag = r.sysCallFlag
  BY <1>3 DEF PcbFields
<1> QED  BY <1>2, <1>4

\* moveState touches the running process only, and leaves no semaphore in
\* its p_semAdd.
LEMMA SavedType ==
    ASSUME pcb \in [Proc -> PcbFields], currentProc \in Proc
    PROVE  /\ Saved \in [Proc -> PcbFields]
           /\ Saved[currentProc] = MoveState(pcb[currentProc])
           /\ Saved[currentProc].p_semAdd = NewAreaAsid
           /\ \A p \in Proc : p # currentProc => Saved[p] = pcb[p]
<1>1. MoveState(pcb[currentProc]) \in PcbFields
  BY MoveStateType
<1>2. MoveState(pcb[currentProc]).p_semAdd = NewAreaAsid
  BY MoveStateType
<1> QED  BY <1>1, <1>2 DEF Saved

\* So does the entry to ioTrapHandler, if it interrupts a process at all.
LEMMA AfterEntryType ==
    ASSUME pcb \in [Proc -> PcbFields], currentProc \in Proc \cup {NULL}
    PROVE  /\ AfterEntry \in [Proc -> PcbFields]
           /\ \A p \in Proc : p # currentProc => AfterEntry[p] = pcb[p]
           /\ currentProc # NULL => AfterEntry[currentProc].p_semAdd = NewAreaAsid
<1>1. CASE currentProc = NULL
  BY <1>1, ProcAssumption DEF AfterEntry
<1>2. CASE currentProc # NULL
  BY <1>2, SavedType DEF AfterEntry
<1> QED  BY <1>1, <1>2

\* allocPcb's pcb has the fields of one.
LEMMA FreshPcbType == FreshPcb \in PcbFields
BY TimeAssumption DEF FreshPcb, PcbFields

\* Charging a process for its time leaves it where it is.
LEMMA ChargeType ==
    ASSUME NEW r \in PcbFields, NEW time \in Elapsed, NEW b \in BOOLEAN
    PROVE  Charge(r, time, b) \in PcbFields
           /\ Charge(r, time, b).p_semAdd = r.p_semAdd
<1> DEFINE a == [r EXCEPT !.timeLeft = @ - time]
           total == IF b THEN r.totalProcTime + time ELSE r.totalProcTime
           c == [a EXCEPT !.totalProcTime = total]
<1>1. time \in Int /\ r.timeLeft \in Int /\ r.totalProcTime \in Int
  BY TimeAssumption DEF PcbFields
<1>2. /\ a \in PcbFields /\ a.p_semAdd = r.p_semAdd
      /\ a.totalProcTime = r.totalProcTime
  BY <1>1 DEF PcbFields
<1>3. Charge(r, time, b) = c
  BY <1>2 DEF Charge
<1>4. total \in Int
  BY <1>1
<1> HIDE DEF a, total
<1>5. c \in PcbFields /\ c.p_semAdd = r.p_semAdd
  BY <1>2, <1>4 DEF PcbFields
<1> QED  BY <1>3, <1>5

\* A process that is woken has no semaphore.
LEMMA WokenType ==
    ASSUME NEW r \in PcbFields, NEW time \in Elapsed
    PROVE  Woken(r, time) \in PcbFields /\ Woken(r, time).p_semAdd = NULL
<1> DEFINE a == [r EXCEPT !.p_semAdd = NULL]
           c == [a EXCEPT !.timeLeft = r.timeLeft - time]
<1>1. time \in Int /\ r.timeLeft \in Int
  BY TimeAssumption DEF PcbFields
<1>2. a \in PcbFields /\ a.p_semAdd = NULL /\ a.timeLeft = r.timeLeft
  BY DEF PcbFields
<1>3. Woken(r, time) = c
  BY <1>2 DEF Woken
<1> HIDE DEF a
<1>4. c \in PcbFields /\ c.p_semAdd = NULL
  BY <1>1, <1>2 DEF PcbFields
<1> QED  BY <1>3, <1>4

\* The other assignments to a field of a pcb.
LEMMA FieldUpdateType ==
    ASSUME NEW r \in PcbFields
    PROVE  /\ [r EXCEPT !.timeLeft = QUANTUM] \in PcbFields
           /\ [r EXCEPT !.timeLeft = QUANTUM].p_semAdd = r.p_semAdd
           /\ [r EXCEPT !.totalProcTime = @ + QUANTUM] \in PcbFields
           /\ [r EXCEPT !.totalProcTime = @ + QUANTUM].p_semAdd = r.p_semAdd
           /\ [r EXCEPT !.p_semAdd = NULL] \in PcbFields
           /\ \A s \in Sem : [r EXCEPT !.p_semAdd = s] \in PcbFields
           /\ \A t \in ExceptionType :
                 /\ [r EXCEPT !.sysCallFlag = @ \cup {t}] \in PcbFields
                 /\ [r EXCEPT !.sysCallFlag = @ \cup {t}].p_semAdd = r.p_semAdd
<1>1. QUANTUM \in Int
  BY TimeAssumption
<1>2. /\ [r EXCEPT !.timeLeft = QUANTUM] \in PcbFields
      /\ [r EXCEPT !.timeLeft = QUANTUM].p_semAdd = r.p_semAdd
  BY <1>1 DEF PcbFields
<1>3. /\ [r EXCEPT !.totalProcTime = @ + QUANTUM] \in PcbFields
      /\ [r EXCEPT !.totalProcTime = @ + QUANTUM].p_semAdd = r.p_semAdd
  BY <1>1 DEF PcbFields
<1>4. /\ [r EXCEPT !.p_semAdd = NULL] \in PcbFields
      /\ \A s \in Sem : [r EXCEPT !.p_semAdd = s] \in PcbFields
  BY DEF PcbFields
<1>5. ASSUME NEW t \in ExceptionType
      PROVE  /\ [r EXCEPT !.sysCallFlag = @ \cup {t}] \in PcbFields
             /\ [r EXCEPT !.sysCallFlag = @ \cup {t}].p_semAdd = r.p_semAdd
  BY DEF PcbFields
<1> QED  BY <1>2, <1>3, <1>4, <1>5

\* A set of queue numbers has a least one.
LEMMA SmallMinimum ==
    ASSUME NEW S \in SUBSET (0 .. 2), S # {}
    PROVE  \E i \in S : \A j \in S : i <= j
<1>1. \A i \in S : i = 0 \/ i = 1 \/ i = 2
  <2>1. \A i \in 0 .. 2 : i = 0 \/ i = 1 \/ i = 2
    OBVIOUS
  <2>2. S \subseteq 0 .. 2
    OBVIOUS
  <2> QED  BY <2>1, <2>2, Zenon
<1>2. CASE 0 \in S
  BY <1>1, <1>2
<1>3. CASE 0 \notin S /\ 1 \in S
  BY <1>1, <1>3
<1>4. CASE 0 \notin S /\ 1 \notin S
  <2>1. PICK k \in S : TRUE
    BY Zenon
  <2>2. \A j \in S : j = 2
    BY <1>1, <1>4
  <2> QED  BY <2>1, <2>2
<1> QED  BY <1>2, <1>3, <1>4

\* nextProc finds a process when a queue is not empty.
LEMMA NextProcType ==
    ASSUME mlpq \in [0 .. 2 -> Seq(Proc)], NonEmpty # {}, ReadySound(NextQueue)
    PROVE  /\ NextQueue \in 0 .. 2 /\ mlpq[NextQueue] # <<>>
           /\ NextProc \in Proc
           /\ AfterNextProc \in [0 .. 2 -> Seq(Proc)]
<1>1. \E i \in NonEmpty : \A j \in NonEmpty : i <= j
  <2>1. NonEmpty \subseteq 0 .. 2
    BY DEF NonEmpty
  <2> QED  BY <2>1, SmallMinimum
<1>2. NextQueue \in NonEmpty
  BY <1>1 DEF NextQueue
<1>3. NextQueue \in 0 .. 2 /\ mlpq[NextQueue] # <<>>
  BY <1>2 DEF NonEmpty
<1>4. mlpq[NextQueue] \in Seq(Proc)
  BY <1>3
<1>5. Head(mlpq[NextQueue]) \in Proc /\ Tail(mlpq[NextQueue]) \in Seq(Proc)
  BY <1>3, <1>4, RemoveQueue
<1> QED  BY <1>3, <1>5 DEF NextProc, AfterNextProc

\* The semaphores the handlers compute exist.
LEMMA WaitSemType ==
    ASSUME NEW d \in Device PROVE WaitSem(d) \in DeviceSem /\ WaitSem(d) \in Sem
BY DEF DeviceSem, Sem

\* The pseudo-clock has a semaphore.
LEMMA ClockSemType == ClockSem \in DeviceSem /\ ClockSem \in Sem
BY DEF DeviceSem, Sem

\* getLineNumber finds a line with an interrupt.
LEMMA LineFacts ==
    ASSUME pending \subseteq Device, pending # {}
    PROVE  \E d \in pending : d.line = Line
<1> DEFINE lines == {d.line : d \in pending}
<1>1. lines # {} /\ lines \subseteq {3, 4, 5, 6, 7}
  BY DeviceAssumption
<1>2. \E l \in lines : \A m \in lines : l <= m
  BY <1>1
<1>3. \E l \in 3 .. 7 : (\E d \in pending : d.line = l) /\ \A d \in pending : l <= d.line
  BY <1>1, <1>2
<1> QED  BY <1>3 DEF Line

\* The semaphore of an interrupt exists, even for device number -1.
LEMMA IntrSemType ==
    ASSUME pending \subseteq Device, pending # {}
    PROVE  IntrSem(Line, DevNum) \in DeviceSem /\ IntrSem(Line, DevNum) \in Sem
<1> DEFINE here == {e \in pending : e.line = Line}
           nums == {d.num : d \in here}
<1>1. \E d \in pending : d.line = Line
  BY LineFacts
<1>2. here # {} /\ nums # {}
  BY <1>1
<1>3. DevNum = IF Cardinality(nums) = 1 THEN CHOOSE n \in nums : TRUE ELSE -1
  BY DEF DevNum
<1>4. DevNum = -1 \/ DevNum \in nums
  BY <1>2, <1>3
<1>5. \E d \in Device : d.line = Line /\ (DevNum = -1 \/ DevNum = d.num)
  BY <1>1, <1>4
<1>6. PICK d \in Device : d.line = Line /\ (DevNum = -1 \/ DevNum = d.num)
  BY <1>5
<1>7. \/ IntrSem(Line, DevNum) = IntrSem(d.line, d.num)
      \/ IntrSem(Line, DevNum) = IntrSem(d.line, -1)
  BY <1>6
<1> QED  BY <1>7 DEF DeviceSem, Sem

-----------------------------------------------------------------------------
(***************************************************************************)
(* Type correctness, one action at a time.                                 *)
(***************************************************************************)

\* A process that executes, and one that sys2 works on, are processes.
LEMMA CurrentType ==
    ASSUME TypeOK, ControlInv, kpc \in {"run", "terminate"}
    PROVE  currentProc \in Proc /\ currentProc # NULL
BY DEF TypeOK, ControlInv

\* sys2 works on a pcb.
LEMMA DoomedType ==
    ASSUME TypeOK, DyingInv, kpc = "terminate"
    PROVE  /\ Len(dying) \in Nat \ {0} /\ Doomed \in Proc
           /\ SubSeq(dying, 1, Len(dying) - 1) \in Seq(Proc)
<1>1. dying \in Seq(Proc) /\ dying # <<>>
  BY DEF TypeOK, DyingInv
<1>2. Len(dying) \in Nat \ {0}
  BY <1>1, EmptySeq
<1>3. \A i \in 1 .. Len(dying) : dying[i] \in Proc
  BY <1>1, ElementOfSeq
<1>4. SubSeq(dying, 1, Len(dying) - 1) \in Seq(Proc)
  <2>1. \A i \in 1 .. Len(dying) - 1 : dying[i] \in Proc
    BY <1>2, <1>3
  <2> QED  BY <2>1, <1>2, SubSeqProperties
<1> QED  BY <1>2, <1>3, <1>4 DEF Doomed

\* A handler that resumes the process.
LEMMA ResumeKeepsType ==
    ASSUME TypeOK, NEW saved \in [Proc -> PcbFields], Resume(saved), UNCHANGED devices
    PROVE  TypeOK'
BY DEF TypeOK, Resume, ready, tree, devices

\* A handler that calls sys2.
LEMMA CallSys2KeepsType ==
    ASSUME TypeOK, ControlInv, kpc \in {"run", "terminate"} \/ currentProc # NULL,
           NEW saved \in [Proc -> PcbFields], CallSys2(saved), UNCHANGED devices
    PROVE  TypeOK'
<1>1. currentProc \in Proc
  BY DEF TypeOK, ControlInv
<1>2. <<currentProc>> \in Seq(Proc)
  BY <1>1
<1> QED  BY <1>2 DEF TypeOK, CallSys2, ready, tree, devices

\* An operation that follows a stray tail.
LEMMA AstrayKeepsType == ASSUME TypeOK, GoAstray PROVE TypeOK'
BY DEF TypeOK, GoAstray, Stopped, ready, tree, devices

\* The scheduler.
LEMMA ScheduleKeepsType ==
    ASSUME TypeOK, Schedule PROVE TypeOK'
<1>1. CASE Dispatch
  <2>1. NextProc \in Proc /\ AfterNextProc \in [0 .. 2 -> Seq(Proc)]
    BY <1>1, NextProcType DEF Dispatch, TypeOK
  <2> QED  BY <1>1, <2>1 DEF Dispatch, TypeOK, tree, devices
<1>2. CASE Recharge
  <2>1. NextProc \in Proc /\ AfterNextProc \in [0 .. 2 -> Seq(Proc)]
    BY <1>2, NextProcType DEF Recharge, TypeOK
  <2>2. PutInQ(AfterNextProc, NextProc, pcb[NextProc], FALSE) \in [0 .. 2 -> Seq(Proc)]
    BY <2>1, PutInQType
  <2>3. [pcb[NextProc] EXCEPT !.timeLeft = QUANTUM] \in PcbFields
    BY <2>1, FieldUpdateType DEF TypeOK
  <2>4. [pcb EXCEPT ![NextProc].timeLeft = QUANTUM] \in [Proc -> PcbFields]
    BY <2>1, <2>3 DEF TypeOK
  <2> QED  BY <1>2, <2>1, <2>2, <2>4 DEF Recharge, TypeOK, tree, devices
<1>3. CASE NothingReady
  <2>1. IdleState \in {"halted", "deadlock", "wait"}
    BY DEF IdleState
  <2> QED  BY <1>3, <2>1 DEF NothingReady, TypeOK, Stopped, ready, tree, devices
<1>4. CASE ScheduleAstray
  BY <1>4, AstrayKeepsType DEF ScheduleAstray
<1> QED  BY <1>1, <1>2, <1>3, <1>4 DEF Schedule

\* sys2.
LEMMA BuryKeepsType ==
    ASSUME TypeOK, DyingInv, kpc = "terminate", NEW p \in Proc, Bury(p)
    PROVE  /\ kpc' \in {"schedule", "terminate"}
           /\ procCnt' \in Int /\ free' \subseteq Proc /\ dying' \in Seq(Proc)
BY DoomedType DEF TypeOK, Bury

\* outProcQ is called on a ready queue, and the search ends at the first that
\* does not answer NULL.
LEMMA FoundAtRange ==
    FoundAt \in 0 .. 2 /\ (SearchEnds # {} => FoundAt \in SearchEnds)
<1>1. CASE SearchEnds = {}
  BY <1>1 DEF FoundAt
<1>2. CASE SearchEnds # {}
  <2>1. SearchEnds \subseteq 0 .. 2
    BY DEF SearchEnds
  <2>2. \E i \in SearchEnds : \A j \in SearchEnds : i <= j
    BY <1>2, <2>1, SmallMinimum
  <2>3. FoundAt \in SearchEnds
    BY <1>2, <2>2 DEF FoundAt
  <2> QED  BY <2>1, <2>3
<1> QED  BY <1>1, <1>2

\* What outProcQ does with a queue whose tail may be stray.
LEMMA OutAtOutcome ==
    ASSUME NEW q \in Seq(Proc), NEW t
    PROVE  OutAt(q, t) \in Returns \cup {"trap", "hang", "astray"}
<1>1. OutProcQ(q, Doomed) \in {"removed", "absent", "trap", "hang", "dangling"}
  BY OutProcQOutcome
<1> QED  BY <1>1 DEF OutAt, Returns

\* What outBlocked does with the address in p_semAdd.
LEMMA SeekOutcome ==
    ASSUME TypeOK, NEW s
    PROVE  (IF s \notin Sem THEN "trap" ELSE IF ~HasSemd(s) THEN "absent"
            ELSE OutAt(blocked[s], stray.blocked[s]))
               \in Returns \cup {"trap", "hang", "astray"}
<1>1. s \in Sem => OutAt(blocked[s], stray.blocked[s])
                       \in Returns \cup {"trap", "hang", "astray"}
  BY OutAtOutcome DEF TypeOK
<1> QED  BY <1>1 DEF Returns

\* The process sys2 works on leaves a queue of processes.
LEMMA LeaveType ==
    ASSUME NEW q \in Seq(Proc) PROVE Leave(q) \in Seq(Proc)
BY WithoutQueue DEF Leave

\* A tail that becomes stray names a pcb.
LEMMA StrayType ==
    ASSUME stray \in StrayTails, NEW p \in Proc
    PROVE  /\ \A i \in 0 .. 2 : [stray EXCEPT !.ready[i] = p] \in StrayTails
           /\ \A s \in Sem : [stray EXCEPT !.blocked[s] = p] \in StrayTails
BY DEF StrayTails

\* A queue operation that does not come back.
LEMMA GoesWrongKeepsType ==
    ASSUME TypeOK, NEW outcome \in {"trap", "hang", "astray"}, GoesWrong(outcome),
           UNCHANGED <<currentProc, pcb, devices>>
    PROVE  TypeOK'
<1>1. kpc' \in {"hung", "astray", "trap"}
  BY DEF GoesWrong
<1> QED  BY <1>1 DEF TypeOK, GoesWrong, Stopped, ready, tree, devices

\* The steps of sys2.
LEMMA Sys2KeepsType ==
    ASSUME TypeOK, DyingInv, Sys2 PROVE TypeOK'
<1>0. kpc = "terminate"
  BY DEF Sys2, TakeChild, RetireCurrent, RetireReady, RetireBlocked
<1>1. /\ Doomed \in Proc /\ kids[Doomed] \in Seq(Proc)
  BY <1>0, DoomedType DEF TypeOK
<1>2. CASE TakeChild
  <2>1. Head(kids[Doomed]) \in Proc /\ Tail(kids[Doomed]) \in Seq(Proc)
    BY <1>1, <1>2, RemoveQueue DEF TakeChild
  <2>2. Append(dying, Head(kids[Doomed])) \in Seq(Proc)
    BY <2>1, AppendProperties DEF TypeOK
  <2>3. [kids EXCEPT ![Doomed] = Tail(@)] \in [Proc -> Seq(Proc)]
    BY <1>1, <2>1 DEF TypeOK
  <2> QED  BY <1>2, <2>2, <2>3 DEF TakeChild, TypeOK, ready, devices
<1>3. CASE RetireCurrent
  <2>1. OutChild(Doomed) \in [Proc -> Seq(Proc)]
    <3>1. ASSUME NEW q \in Proc, Doomed \in ToSet(kids[q])
          PROVE  Without(kids[q], Doomed) \in Seq(Proc)
      BY <3>1, WithoutQueue DEF TypeOK
    <3>2. \A q \in Proc : (IF Doomed \in ToSet(kids[q]) THEN Without(kids[q], Doomed)
                           ELSE kids[q]) \in Seq(Proc)
      BY <3>1 DEF TypeOK
    <3> QED  BY <3>2 DEF OutChild
  <2>2. kids' = OutChild(Doomed) /\ Bury(Doomed)
    BY <1>3 DEF RetireCurrent
  <2>3. /\ kpc' \in {"schedule", "terminate"}
        /\ procCnt' \in Int /\ free' \subseteq Proc /\ dying' \in Seq(Proc)
    BY <1>0, <1>1, <2>2, BuryKeepsType
  <2> QED  BY <1>3, <2>1, <2>2, <2>3 DEF RetireCurrent, TypeOK, ready, devices
<1>4. CASE RetireReady
  <2> DEFINE outcome == OutAt(mlpq[FoundAt], stray.ready[FoundAt])
  <2>0. FoundAt \in 0 .. 2 /\ mlpq[FoundAt] \in Seq(Proc)
    BY FoundAtRange DEF TypeOK
  <2>1. CASE outcome \in Returns
    <3>1. /\ mlpq' = [i \in 0 .. 2 |-> Leave(mlpq[i])]
          /\ stray' = IF outcome = "dangling"
                      THEN [stray EXCEPT !.ready[FoundAt] = Doomed] ELSE stray
          /\ Bury(Doomed)
          /\ UNCHANGED <<blocked, semVal, kids, softBlockCnt>>
      BY <1>4, <2>1 DEF RetireReady
    <3>2. stray' \in StrayTails
      BY <1>1, <2>0, <3>1, StrayType DEF TypeOK
    <3>3. mlpq' \in [0 .. 2 -> Seq(Proc)]
      BY <3>1, LeaveType DEF TypeOK
    <3>4. /\ kpc' \in {"schedule", "terminate"}
          /\ procCnt' \in Int /\ free' \subseteq Proc /\ dying' \in Seq(Proc)
      BY <1>0, <1>1, <3>1, BuryKeepsType
    <3> QED  BY <1>4, <3>1, <3>2, <3>3, <3>4 DEF RetireReady, TypeOK, devices
  <2>2. CASE outcome \notin Returns
    <3>1. outcome \in {"trap", "hang", "astray"}
      BY <2>0, <2>2, OutAtOutcome
    <3> QED  BY <1>4, <2>2, <3>1, GoesWrongKeepsType DEF RetireReady
  <2> QED  BY <2>1, <2>2
<1>5. CASE RetireBlocked
  <2> DEFINE s == pcb[Doomed].p_semAdd
             outcome == IF s \notin Sem THEN "trap"
                        ELSE IF ~HasSemd(s) THEN "absent"
                        ELSE OutAt(blocked[s], stray.blocked[s])
  <2>1. CASE outcome \in Returns
    <3>1. /\ blocked' = [blocked EXCEPT ![s] = Leave(@)]
          /\ stray' = IF outcome = "dangling"
                      THEN [stray EXCEPT !.blocked[s] = Doomed] ELSE stray
          /\ IF OnDevice(s)
             THEN softBlockCnt' = softBlockCnt - 1 /\ UNCHANGED semVal
             ELSE semVal' = [semVal EXCEPT ![s] = @ + 1] /\ UNCHANGED softBlockCnt
          /\ Bury(Doomed)
          /\ UNCHANGED <<mlpq, kids>>
      BY <1>5, <2>1 DEF RetireBlocked
    <3>2. s \in Sem /\ blocked[s] \in Seq(Proc) /\ semVal[s] \in Int
      BY <2>1 DEF TypeOK, Returns
    <3>3. blocked' \in [Sem -> Seq(Proc)] /\ stray' \in StrayTails
      <4>1. Leave(blocked[s]) \in Seq(Proc)
        BY <3>2, LeaveType
      <4> QED  BY <1>1, <3>1, <3>2, <4>1, StrayType DEF TypeOK
    <3>4. semVal' \in [Sem -> Int] /\ softBlockCnt' \in Int
      BY <3>1, <3>2 DEF TypeOK
    <3>5. /\ kpc' \in {"schedule", "terminate"}
          /\ procCnt' \in Int /\ free' \subseteq Proc /\ dying' \in Seq(Proc)
      BY <1>0, <1>1, <3>1, BuryKeepsType
    <3> QED  BY <1>5, <3>1, <3>3, <3>4, <3>5 DEF RetireBlocked, TypeOK, devices
  <2>2. CASE outcome \notin Returns
    <3>1. outcome \in {"trap", "hang", "astray"}
      BY <2>2, SeekOutcome
    <3> QED  BY <1>5, <2>2, <3>1, GoesWrongKeepsType DEF RetireBlocked
  <2> QED  BY <2>1, <2>2
<1> QED  BY <1>2, <1>3, <1>4, <1>5 DEF Sys2

\* A trap of the nucleus itself.
LEMMA NestedTrapKeepsType ==
    ASSUME TypeOK, ControlInv, NestedTrap PROVE TypeOK'
<1>1. CASE currentProc = NULL /\ kpc' = "hung"
           /\ UNCHANGED <<currentProc, ready, pcb, tree, softBlockCnt, dying>>
  BY <1>1 DEF NestedTrap, TypeOK, Stopped, ready, tree, devices
<1>2. CASE kpc' = "run" /\ dying' = <<>>
           /\ UNCHANGED <<currentProc, ready, pcb, tree, softBlockCnt>>
  BY <1>2 DEF NestedTrap, TypeOK, ready, tree, devices
<1>3. CASE currentProc # NULL /\ CallSys2(pcb)
  BY <1>3, CallSys2KeepsType DEF NestedTrap, TypeOK
<1> QED  BY <1>1, <1>2, <1>3 DEF NestedTrap

\* The system calls.
LEMMA CreateProcessKeepsType ==
    ASSUME TypeOK, ControlInv, CreateProcess PROVE TypeOK'
<1>1. currentProc \in Proc /\ Saved \in [Proc -> PcbFields]
  BY CurrentType, SavedType DEF CreateProcess, Running, TypeOK
<1>2. PICK c \in free :
        /\ pcb' = [Saved EXCEPT ![c] = FreshPcb]
        /\ kids' = [kids EXCEPT ![currentProc] = <<c>> \o @]
        /\ mlpq' = PutInQ(mlpq, c, FreshPcb, FALSE)
        /\ free' = free \ {c}
        /\ request' = [request EXCEPT ![c] = NULL]
  BY DEF CreateProcess
<1>3. c \in Proc
  BY DEF TypeOK
<1>4. pcb' \in [Proc -> PcbFields]
  BY <1>1, <1>2, <1>3, FreshPcbType
<1>5. <<c>> \o kids[currentProc] \in Seq(Proc)
  BY <1>1, <1>3, PushChild DEF TypeOK
<1>6. mlpq' \in [0 .. 2 -> Seq(Proc)]
  BY <1>2, <1>3, PutInQType DEF TypeOK
<1>7. kids' \in [Proc -> Seq(Proc)]
  <2>1. kids \in [Proc -> Seq(Proc)] /\ kids' = [kids EXCEPT ![currentProc] = <<c>> \o @]
    BY <1>2 DEF TypeOK
  <2> QED  BY <1>1, <1>5, <2>1
<1>8. request' \in [Proc -> Device \cup {NULL}]
  BY <1>2, <1>3 DEF TypeOK
<1>9. free' \subseteq Proc /\ procCnt' \in Int
  BY <1>2 DEF CreateProcess, TypeOK
<1>10. UNCHANGED <<kpc, currentProc, blocked, semVal, stray, softBlockCnt, dying, busy,
                   pending>>
  BY DEF CreateProcess
<1> QED  BY <1>4, <1>6, <1>7, <1>8, <1>9, <1>10 DEF TypeOK

\* SYS3.
LEMMA VerhogenKeepsType ==
    ASSUME TypeOK, ControlInv, NEW s \in UserSem, Verhogen(s) PROVE TypeOK'
<1>1. currentProc \in Proc /\ Saved \in [Proc -> PcbFields]
  BY CurrentType, SavedType DEF Verhogen, Running, TypeOK
<1>2. s \in Sem /\ semVal' \in [Sem -> Int] /\ blocked[s] \in Seq(Proc)
  BY DEF Sem, Verhogen, TypeOK
<1>3. CASE SomeoneWaits(semVal[s] + 1) /\ blocked[s] # <<>>
  <2> DEFINE p == Head(blocked[s])
  <2>1. p \in Proc /\ Tail(blocked[s]) \in Seq(Proc)
    BY <1>2, <1>3, RemoveQueue
  <2>2. /\ blocked' = [blocked EXCEPT ![s] = Tail(@)]
        /\ pcb' = [Saved EXCEPT ![p].p_semAdd = NULL]
        /\ mlpq' = PutInQ(mlpq, p, pcb[p], FALSE)
        /\ kpc' = kpc
    BY <1>3 DEF Verhogen
  <2> HIDE DEF p
  <2>3. pcb' \in [Proc -> PcbFields]
    <3>1. [Saved[p] EXCEPT !.p_semAdd = NULL] \in PcbFields
      BY <1>1, <2>1, FieldUpdateType
    <3> QED  BY <1>1, <2>1, <2>2, <3>1
  <2>4. mlpq' \in [0 .. 2 -> Seq(Proc)]
    BY <2>1, <2>2, PutInQType DEF TypeOK
  <2> QED  BY <1>2, <2>1, <2>2, <2>3, <2>4 DEF Verhogen, TypeOK, tree, devices
<1>4. CASE ~ (SomeoneWaits(semVal[s] + 1) /\ blocked[s] # <<>>)
  <2>1. pcb' = Saved /\ UNCHANGED <<blocked, mlpq>> /\ kpc' \in {"trap", kpc}
    BY <1>4 DEF Verhogen
  <2> QED  BY <1>1, <1>2, <2>1 DEF Verhogen, TypeOK, tree, devices
<1> QED  BY <1>3, <1>4

\* The P of SYS4, SYS7 and SYS8.
LEMMA PKeepsType ==
    ASSUME TypeOK, ControlInv, kpc = "run", NEW s \in Sem,
           NEW soft \in BOOLEAN, NEW toTotal \in BOOLEAN, P(s, soft, toTotal),
           busy' \subseteq Device, pending' \subseteq Device,
           request' \in [Proc -> Device \cup {NULL}]
    PROVE  TypeOK'
<1>1. currentProc \in Proc /\ Saved \in [Proc -> PcbFields]
  BY CurrentType, SavedType DEF TypeOK
<1>2. semVal' \in [Sem -> Int]
  BY DEF P, TypeOK
<1>3. UNCHANGED <<mlpq, stray, kids, free, procCnt, dying>>
  BY DEF P, tree
<1>4. CASE semVal[s] - 1 >= 0
  <2>1. pcb' = Saved /\ UNCHANGED <<kpc, currentProc, blocked, softBlockCnt>>
    BY <1>4 DEF P
  <2> QED  BY <1>1, <1>2, <1>3, <2>1 DEF TypeOK
<1>5. CASE ~ (semVal[s] - 1 >= 0)
  <2>1. PICK time \in Elapsed :
            IF NoSemd(s)
            THEN /\ kpc' = "panic"
                 /\ pcb' = [Saved EXCEPT ![currentProc] = Charge(@, time, toTotal)]
                 /\ UNCHANGED <<currentProc, blocked, softBlockCnt>>
            ELSE /\ pcb' = [Saved EXCEPT ![currentProc] =
                               [Charge(@, time, toTotal) EXCEPT !.p_semAdd = s]]
                 /\ blocked' = [blocked EXCEPT ![s] = InsertProcQ(@, currentProc)]
                 /\ softBlockCnt' = softBlockCnt + (IF soft THEN 1 ELSE 0)
                 /\ currentProc' = NULL
                 /\ kpc' = "schedule"
    BY <1>5 DEF P
  <2> DEFINE r == Charge(Saved[currentProc], time, toTotal)
  <2>2. r \in PcbFields
    BY <1>1, ChargeType
  <2>3. [r EXCEPT !.p_semAdd = s] \in PcbFields
    BY <2>2, FieldUpdateType
  <2>4. InsertProcQ(blocked[s], currentProc) \in Seq(Proc)
    BY <1>1, InsertQueue DEF TypeOK
  <2> HIDE DEF r
  <2>5. CASE NoSemd(s)
    <3>1. pcb' = [Saved EXCEPT ![currentProc] = r]
      BY <2>1, <2>5 DEF r
    <3>2. pcb' \in [Proc -> PcbFields]
      BY <1>1, <2>2, <3>1
    <3> QED  BY <1>2, <1>3, <2>1, <2>5, <3>2 DEF TypeOK, Stopped
  <2>6. CASE ~ NoSemd(s)
    <3>1. pcb' = [Saved EXCEPT ![currentProc] = [r EXCEPT !.p_semAdd = s]]
      BY <2>1, <2>6 DEF r
    <3>2. pcb' \in [Proc -> PcbFields]
      BY <1>1, <2>3, <3>1
    <3>3. blocked' \in [Sem -> Seq(Proc)] /\ softBlockCnt' \in Int
      <4>1. /\ blocked' = [blocked EXCEPT ![s] = InsertProcQ(@, currentProc)]
            /\ softBlockCnt' = softBlockCnt + (IF soft THEN 1 ELSE 0)
        BY <2>1, <2>6
      <4>2. blocked' \in [Sem -> Seq(Proc)]
        BY <2>4, <4>1 DEF TypeOK
      <4>3. (IF soft THEN 1 ELSE 0) \in {0, 1}
        OBVIOUS
      <4>4. softBlockCnt \in Int
        BY DEF TypeOK
      <4>5. softBlockCnt' \in Int
        BY <4>1, <4>3, <4>4
      <4> QED  BY <4>2, <4>5
    <3> QED  BY <1>2, <1>3, <2>1, <2>6, <3>2, <3>3 DEF TypeOK
  <2> QED  BY <2>5, <2>6
<1> QED  BY <1>4, <1>5

\* All the system calls.
LEMMA SyscallKeepsType ==
    ASSUME TypeOK, ControlInv, Syscall PROVE TypeOK'
<1>1. CASE CreateProcess
  BY <1>1, CreateProcessKeepsType
<1>2. ASSUME Running PROVE currentProc \in Proc /\ Saved \in [Proc -> PcbFields]
  BY <1>2, CurrentType, SavedType DEF Running, TypeOK
<1>3. CASE NoFreePcb \/ GetCpuTime
  BY <1>2, <1>3, ResumeKeepsType DEF NoFreePcb, GetCpuTime
<1>4. CASE TerminateProcess
  BY <1>2, <1>4, CallSys2KeepsType DEF TerminateProcess, Running
<1>5. ASSUME NEW s \in UserSem, Verhogen(s) PROVE TypeOK'
  BY <1>5, VerhogenKeepsType
<1>6. ASSUME NEW s \in UserSem, Passeren(s) PROVE TypeOK'
  <2>1. s \in Sem /\ P(s, FALSE, FALSE) /\ kpc = "run"
    BY <1>6 DEF Passeren, Sem, Running
  <2>2. busy' = busy /\ pending' = pending /\ request' = request
    BY <1>6 DEF Passeren, devices
  <2> QED  BY <2>1, <2>2, PKeepsType DEF TypeOK
<1>7. CASE WaitForClock
  <2>1. P(ClockSem, TRUE, TRUE) /\ kpc = "run"
    BY <1>7 DEF WaitForClock, Running
  <2>2. busy' = busy /\ pending' = pending /\ request' = request
    BY <1>7 DEF WaitForClock, devices
  <2> QED  BY <2>1, <2>2, PKeepsType, ClockSemType DEF TypeOK
<1>8. ASSUME NEW t \in VectorTypes, SpecifyVector(t) PROVE TypeOK'
  <2>1. currentProc \in Proc /\ Saved \in [Proc -> PcbFields] /\ kpc = "run"
    BY <1>2, <1>8 DEF SpecifyVector, Running
  <2>2. t \in ExceptionType
    BY WorkloadAssumption
  <2>3. [Saved EXCEPT ![currentProc].sysCallFlag = @ \cup {t}] \in [Proc -> PcbFields]
    <3>1. [Saved[currentProc] EXCEPT !.sysCallFlag = @ \cup {t}] \in PcbFields
      BY <2>1, <2>2, FieldUpdateType
    <3> QED  BY <2>1, <3>1
  <2> QED  BY <1>8, <2>1, <2>3, ResumeKeepsType, CallSys2KeepsType DEF SpecifyVector
<1>9. ASSUME NEW d \in Device, CommandDevice(d) PROVE TypeOK'
  <2>1. currentProc \in Proc
    BY <1>2, <1>9 DEF CommandDevice
  <2> QED  BY <1>9, <2>1 DEF CommandDevice, TypeOK, ready, tree
<1>10. ASSUME NEW d \in Device, WaitForIO(d) PROVE TypeOK'
  <2>1. currentProc \in Proc /\ kpc = "run"
    BY <1>2, <1>10 DEF WaitForIO, Running
  <2>2. busy' \subseteq Device /\ pending' = pending
    BY <1>10 DEF WaitForIO, TypeOK
  <2>3. request' \in [Proc -> Device \cup {NULL}]
    BY <1>10, <2>1 DEF WaitForIO, TypeOK
  <2>4. P(WaitSem(d), TRUE, FALSE) /\ WaitSem(d) \in Sem
    BY <1>10, WaitSemType DEF WaitForIO
  <2> QED  BY <2>1, <2>2, <2>3, <2>4, PKeepsType DEF TypeOK
<1>11. CASE CallAstray
  BY <1>11, AstrayKeepsType DEF CallAstray
<1> QED  BY <1>1, <1>3, <1>4, <1>5, <1>6, <1>7, <1>8, <1>9, <1>10, <1>11 DEF Syscall

\* The exceptions that are passed up.
LEMMA ExceptionKeepsType ==
    ASSUME TypeOK, ControlInv, Exception PROVE TypeOK'
<1>1. ASSUME NEW t, NEW saved \in [Proc -> PcbFields], PassUpOrDie(t, saved)
      PROVE  TypeOK'
  BY <1>1, ResumeKeepsType, CallSys2KeepsType DEF PassUpOrDie, Running
<1>2. Exception => Running
  BY DEF Exception, TlbException, HighSyscall, ProgramTrap, UserModeSyscall, PassUpOrDie
<1>3. Saved \in [Proc -> PcbFields] /\ pcb \in [Proc -> PcbFields]
  BY <1>2, CurrentType, SavedType DEF Running, TypeOK
<1> QED
  BY <1>1, <1>3 DEF Exception, TlbException, HighSyscall, ProgramTrap, UserModeSyscall

\* The interrupts.
LEMMA ReturnKeepsType ==
    ASSUME TypeOK, NEW queues \in [0 .. 2 -> Seq(Proc)], NEW saved, Return(queues, saved)
    PROVE  kpc' \in {"run", "schedule"} /\ mlpq' \in [0 .. 2 -> Seq(Proc)]
<1>1. CASE currentProc # NULL
  <2>1. PutInQ(queues, currentProc, saved[currentProc], FALSE) \in [0 .. 2 -> Seq(Proc)]
    BY <1>1, PutInQType DEF TypeOK
  <2> QED  BY <1>1, <2>1 DEF Return
<1>2. CASE currentProc = NULL
  BY <1>2 DEF Return
<1> QED  BY <1>1, <1>2

\* Line 1.
LEMMA ProcTimerKeepsType == ASSUME TypeOK, ProcTimer PROVE TypeOK'
<1>1. pcb' \in [Proc -> PcbFields] /\ mlpq' \in [0 .. 2 -> Seq(Proc)]
  <2>1. CASE currentProc = NULL
    BY <2>1 DEF ProcTimer, TypeOK
  <2>2. CASE currentProc # NULL
    <3> DEFINE r == Expired
    <3>1. currentProc \in Proc /\ Saved[currentProc] \in PcbFields
      BY <2>2, SavedType DEF TypeOK
    <3>2. r \in PcbFields
      BY <3>1, FieldUpdateType DEF Expired
    <3>3. PutInQ(mlpq, currentProc, r, FALSE) \in [0 .. 2 -> Seq(Proc)]
      BY <3>1, PutInQType DEF TypeOK
    <3>4. /\ pcb' = [pcb EXCEPT ![currentProc] = r]
          /\ mlpq' = PutInQ(mlpq, currentProc, r, FALSE)
      BY <2>2 DEF ProcTimer
    <3> HIDE DEF r
    <3> QED  BY <3>1, <3>2, <3>3, <3>4 DEF TypeOK
  <2> QED  BY <2>1, <2>2
<1> QED  BY <1>1 DEF ProcTimer, TypeOK, tree, devices

\* Line 2.
LEMMA IntervalTimerKeepsType == ASSUME TypeOK, IntervalTimer PROVE TypeOK'
<1>1. ClockSem \in Sem /\ AfterEntry \in [Proc -> PcbFields]
  BY ClockSemType, AfterEntryType DEF TypeOK
<1>2. TickWakes \in Seq(Proc) /\ Len(TickWakes) \in Int
  <2>1. TickWakes \in Seq(Proc)
    BY <1>1, EmptySeq DEF TickWakes, TypeOK
  <2> QED  BY <2>1, LenProperties
<1>3. PICK time \in Elapsed :
        LET saved == [p \in Proc |-> IF p \in ToSet(TickWakes)
                                     THEN Woken(AfterEntry[p], time)
                                     ELSE AfterEntry[p]]
        IN pcb' = saved /\ Return([mlpq EXCEPT ![0] = @ \o TickWakes], saved)
  BY DEF IntervalTimer
<1>4. pcb' \in [Proc -> PcbFields]
  BY <1>1, <1>3, WokenType
<1>5. mlpq[0] \o TickWakes \in Seq(Proc)
  BY <1>2, ConcatQueues DEF TypeOK
<1>6. [mlpq EXCEPT ![0] = @ \o TickWakes] \in [0 .. 2 -> Seq(Proc)]
  BY <1>5 DEF TypeOK
<1>7. kpc' \in {"run", "schedule"} /\ mlpq' \in [0 .. 2 -> Seq(Proc)]
  BY <1>3, <1>6, ReturnKeepsType
<1>8. blocked' \in [Sem -> Seq(Proc)]
  BY <1>1, EmptySeq DEF IntervalTimer, TypeOK
<1>9. softBlockCnt' \in Int /\ semVal' \in [Sem -> Int]
  BY <1>1, <1>2 DEF IntervalTimer, TypeOK
<1> QED  BY <1>4, <1>7, <1>8, <1>9 DEF IntervalTimer, TypeOK, tree, devices

\* Lines 3 to 7.
LEMMA DeviceInterruptKeepsType == ASSUME TypeOK, DeviceInterrupt PROVE TypeOK'
<1> DEFINE s == IntrSem(Line, DevNum)
           p == Head(blocked[s])
<1>1. s \in Sem
  BY IntrSemType DEF DeviceInterrupt, TypeOK
<1>2. AfterEntry \in [Proc -> PcbFields]
  BY AfterEntryType DEF TypeOK
<1>3. semVal' \in [Sem -> Int]
  <2>1. semVal' = IncrementDevice(s)
    BY DEF DeviceInterrupt
  <2> QED  BY <1>1, <2>1 DEF IncrementDevice, TypeOK
<1>4. CASE blocked[s] = <<>>
  <2>1. /\ kpc' = "trap" /\ pcb' = AfterEntry
        /\ UNCHANGED <<mlpq, blocked, softBlockCnt, pending>>
    BY <1>4 DEF DeviceInterrupt
  <2> QED  BY <1>2, <1>3, <2>1 DEF DeviceInterrupt, TypeOK, tree
<1>5. CASE blocked[s] # <<>>
  <2>1. p \in Proc /\ Tail(blocked[s]) \in Seq(Proc)
    BY <1>1, <1>5, RemoveQueue DEF TypeOK
  <2>2. PICK time \in Elapsed :
          LET saved == [AfterEntry EXCEPT ![p] = Woken(@, time)] IN
          pcb' = saved /\ Return(PutInQ(mlpq, p, saved[p], TRUE), saved)
    BY <1>5 DEF DeviceInterrupt
  <2>3. /\ blocked' = [blocked EXCEPT ![s] = Tail(@)]
        /\ softBlockCnt' = softBlockCnt - 1
        /\ pending' = pending \ Acknowledged
    BY <1>5 DEF DeviceInterrupt
  <2>4. Woken(AfterEntry[p], time) \in PcbFields
    BY <1>2, <2>1, WokenType
  <2>5. pcb' \in [Proc -> PcbFields]
    BY <1>2, <2>1, <2>2, <2>4
  <2>6. kpc' \in {"run", "schedule"} /\ mlpq' \in [0 .. 2 -> Seq(Proc)]
    <3>1. Return(PutInQ(mlpq, p, pcb'[p], TRUE), pcb')
      BY <2>2
    <3>2. PutInQ(mlpq, p, pcb'[p], TRUE) \in [0 .. 2 -> Seq(Proc)]
      BY <2>1, PutInQType DEF TypeOK
    <3> QED  BY <3>1, <3>2, ReturnKeepsType
  <2> QED  BY <1>1, <1>3, <2>1, <2>3, <2>5, <2>6 DEF DeviceInterrupt, TypeOK, tree
<1> QED  BY <1>4, <1>5

\* main() gives every variable its type.
LEMMA InitType == Init => TypeOK
<1> SUFFICES ASSUME Init PROVE TypeOK
  OBVIOUS
<1>1. /\ Test \in Proc /\ <<>> \in Seq(Proc)
  BY ProcAssumption
<1>2. mlpq \in [0 .. 2 -> Seq(Proc)]
  BY <1>1, PutInQType DEF Init
<1>3. semVal \in [Sem -> Int]
  BY WorkloadAssumption DEF Init
<1>4. /\ kids \in [Proc -> Seq(Proc)] /\ blocked \in [Sem -> Seq(Proc)]
      /\ dying \in Seq(Proc)
  BY <1>1 DEF Init
<1>5. pcb \in [Proc -> PcbFields]
  BY FreshPcbType DEF Init
<1>6. /\ request \in [Proc -> Device \cup {NULL}]
      /\ free \subseteq Proc /\ busy \subseteq Device /\ pending \subseteq Device
      /\ procCnt \in Int /\ softBlockCnt \in Int
      /\ kpc = "schedule" /\ currentProc \in Proc \cup {NULL}
      /\ stray \in StrayTails
  BY DEF Init, StrayTails
<1> QED  BY <1>2, <1>3, <1>4, <1>5, <1>6 DEF TypeOK

\* Every step of the nucleus keeps it.
LEMMA StepType ==
    ASSUME TypeOK, ControlInv, DyingInv, [Next]_vars PROVE TypeOK'
<1>1. CASE Schedule
  BY <1>1, ScheduleKeepsType
<1>2. CASE Sys2
  BY <1>2, Sys2KeepsType
<1>3. CASE NestedTrap
  BY <1>3, NestedTrapKeepsType
<1>4. CASE Syscall
  BY <1>4, SyscallKeepsType
<1>5. CASE Exception
  BY <1>5, ExceptionKeepsType
<1>6. CASE Interrupt
  BY <1>6, ProcTimerKeepsType, IntervalTimerKeepsType, DeviceInterruptKeepsType,
     AstrayKeepsType DEF Interrupt, InterruptAstray
<1>7. ASSUME NEW d \in Device, DeviceDone(d) PROVE TypeOK'
  BY <1>7 DEF DeviceDone, TypeOK, ready, tree
<1>8. CASE UNCHANGED vars
  BY <1>8 DEF TypeOK, vars, ready, tree, devices
<1> QED  BY <1>1, <1>2, <1>3, <1>4, <1>5, <1>6, <1>7, <1>8 DEF Next, Stop

-----------------------------------------------------------------------------
(***************************************************************************)
(* The process tree and the stack of sys2.                                 *)
(***************************************************************************)

\* Nobody gains offspring, nobody becomes his own descendant.
LEMMA AcyclicShrinks ==
    ASSUME Acyclic, \A p \in Proc : Offspring(p)' \subseteq Offspring(p)
    PROVE  Acyclic'
<1> SUFFICES ASSUME NEW S \in SUBSET Proc, S # {}
             PROVE  \E p \in S : Offspring(p)' \cap S = {}
  BY DEF Acyclic
<1>1. PICK p \in S : Offspring(p) \cap S = {}
  BY DEF Acyclic
<1> QED  BY <1>1

\* A step that leaves the tree, the free list and sys2 alone.
LEMMA FamilyStays ==
    ASSUME FamilyInv, UNCHANGED <<kids, free>>,
           kpc' # "terminate" \/ UNCHANGED <<kpc, dying, currentProc>>
    PROVE  FamilyInv'
<1>1. TreeSound'
  BY DEF FamilyInv, TreeSound, Live
<1>2. DyingInv'
  <2>1. CASE kpc' # "terminate"
    BY <2>1 DEF DyingInv
  <2>2. CASE UNCHANGED <<kpc, dying, currentProc>>
    BY <2>2 DEF FamilyInv, DyingInv, Live
  <2> QED  BY <2>1, <2>2
<1>3. \A p \in Proc : Offspring(p)' \subseteq Offspring(p)
  BY DEF Offspring
<1>4. Acyclic'
  BY <1>3, AcyclicShrinks DEF FamilyInv
<1> QED  BY <1>1, <1>2, <1>4 DEF FamilyInv

\* A handler calls sys2 on the current process.
LEMMA FamilyCallSys2 ==
    ASSUME TypeOK, FamilyInv, currentProc \in Live, NEW saved, CallSys2(saved)
    PROVE  FamilyInv'
<1>1. /\ kpc' = "terminate" /\ dying' = <<currentProc>>
      /\ UNCHANGED <<currentProc, kids, free>>
  BY DEF CallSys2, tree
<1>2. TreeSound'
  BY <1>1 DEF FamilyInv, TreeSound, Live
<1>3. DyingInv'
  <2>1. /\ dying' # <<>> /\ dying'[1] = currentProc' /\ Len(dying') = 1
        /\ IsInjective(dying') /\ ToSet(dying') = {currentProc}
    BY <1>1 DEF IsInjective, ToSet
  <2>2. \A i \in 2 .. Len(dying'), p \in Proc : dying'[i] \notin ToSet(kids'[p])
    BY <2>1
  <2>3. ToSet(dying') \subseteq Live'
    BY <2>1, <1>1 DEF Live
  <2> QED  BY <2>1, <2>2, <2>3 DEF DyingInv
<1>4. \A p \in Proc : Offspring(p)' \subseteq Offspring(p)
  <2>1. 1 .. Len(dying') - 1 = {}
    BY <1>1
  <2>2. \A p \in Proc : Offspring(p)' = ToSet(kids[p])
    BY <2>1, <1>1 DEF Offspring
  <2> QED  BY <2>2 DEF Offspring
<1>5. Acyclic'
  BY <1>4, AcyclicShrinks DEF FamilyInv
<1> QED  BY <1>2, <1>3, <1>5 DEF FamilyInv

\* sys1: the new child has no children, and was nobody's child.
LEMMA FamilyCreate ==
    ASSUME TypeOK, ControlInv, FamilyInv, CreateProcess PROVE FamilyInv'
<1>1. currentProc \in Live /\ kpc = "run" /\ kpc' = "run"
  BY DEF CreateProcess, Running, ControlInv, Active, Unblocked
<1>2. PICK c \in free :
        /\ kids' = [kids EXCEPT ![currentProc] = <<c>> \o @]
        /\ free' = free \ {c}
  BY DEF CreateProcess
<1>3. /\ c \in Proc /\ currentProc \in Proc /\ c # currentProc
      /\ Live' = Live \cup {c} /\ c \notin Live
  BY <1>1, <1>2 DEF Live, TypeOK
<1>4. kids[c] = <<>> /\ \A p \in Proc : c \notin ToSet(kids[p])
  BY <1>3 DEF FamilyInv, TreeSound
<1>5. /\ ToSet(kids'[currentProc]) = {c} \cup ToSet(kids[currentProc])
      /\ IsInjective(kids'[currentProc])
      /\ \A p \in Proc : p # currentProc => kids'[p] = kids[p]
  <2>1. kids'[currentProc] = <<c>> \o kids[currentProc]
    BY <1>2, <1>3 DEF TypeOK
  <2>2. \A p \in Proc : p # currentProc => kids'[p] = kids[p]
    BY <1>2 DEF TypeOK
  <2>3. kids[currentProc] \in Seq(Proc) /\ IsInjective(kids[currentProc])
    BY <1>3 DEF TypeOK, FamilyInv, TreeSound
  <2> QED  BY <2>1, <2>2, <2>3, <1>3, <1>4, PushChild
<1>6. TreeSound'
  <2>1. \A p \in Proc : IsInjective(kids'[p]) /\ (kids'[p] # <<>> => p \in Live')
    BY <1>1, <1>3, <1>5 DEF FamilyInv, TreeSound
  <2>2. \A p, q \in Proc : p # q => ToSet(kids'[p]) \cap ToSet(kids'[q]) = {}
    BY <1>4, <1>5 DEF FamilyInv, TreeSound
  <2>3. \A p \in Proc : ToSet(kids'[p]) \subseteq Live'
    BY <1>3, <1>5 DEF FamilyInv, TreeSound
  <2> QED  BY <2>1, <2>2, <2>3 DEF TreeSound
<1>7. DyingInv'
  BY <1>1 DEF DyingInv
<1>8. \A p \in Proc : Offspring(p)' = ToSet(kids'[p]) /\ Offspring(p) = ToSet(kids[p])
  BY <1>1 DEF Offspring
<1>9. Acyclic'
  <2> SUFFICES ASSUME NEW S \in SUBSET Proc, S # {}
               PROVE  \E p \in S : Offspring(p)' \cap S = {}
    BY DEF Acyclic
  <2>1. CASE c \in S
    <3>1. ToSet(kids'[c]) = {}
      BY <1>3, <1>4, <1>5 DEF ToSet
    <3> QED  BY <2>1, <3>1, <1>8
  <2>2. CASE c \notin S
    <3>1. PICK p \in S : ToSet(kids[p]) \cap S = {}
      BY <1>8 DEF FamilyInv, Acyclic
    <3> QED  BY <3>1, <2>2, <1>5, <1>8
  <2> QED  BY <2>1, <2>2
<1> QED  BY <1>6, <1>7, <1>9 DEF FamilyInv

-----------------------------------------------------------------------------
(***************************************************************************)
(* sys2.                                                                   *)
(***************************************************************************)

\* The stack of sys2, as a function of its depth.
LEMMA DyingFacts ==
    ASSUME TypeOK, FamilyInv, kpc = "terminate"
    PROVE  /\ Len(dying) \in Nat \ {0} /\ DOMAIN dying = 1 .. Len(dying)
           /\ Doomed \in Live /\ Doomed \in Proc
           /\ dying[1] = currentProc
           /\ \A i \in 1 .. Len(dying) : dying[i] \in Live
           /\ \A i, j \in 1 .. Len(dying) : dying[i] = dying[j] => i = j
<1>1. dying \in Seq(Proc) /\ dying # <<>>
  BY DEF TypeOK, FamilyInv, DyingInv
<1>2. Len(dying) \in Nat \ {0} /\ DOMAIN dying = 1 .. Len(dying)
  BY <1>1, EmptySeq, LenProperties
<1>3. \A i \in 1 .. Len(dying) : dying[i] \in Live
  BY <1>2 DEF FamilyInv, DyingInv, ToSet
<1>4. \A i, j \in 1 .. Len(dying) : dying[i] = dying[j] => i = j
  BY <1>2 DEF FamilyInv, DyingInv, IsInjective
<1>5. dying[1] = currentProc
  BY DEF FamilyInv, DyingInv
<1> QED  BY <1>2, <1>3, <1>4, <1>5 DEF Doomed, Live

\* The next child to die is not on the stack: it would be its own descendant.
LEMMA ChildIsNew ==
    ASSUME TypeOK, FamilyInv, kpc = "terminate", NEW c \in ToSet(kids[Doomed])
    PROVE  \A i \in 1 .. Len(dying) : dying[i] # c
<1> DEFINE n == Len(dying)
           S == {dying[i] : i \in 1 .. n}
<1>1. /\ n \in Nat \ {0} /\ Doomed \in Proc
      /\ \A i \in 1 .. n : dying[i] \in Proc
  BY DyingFacts DEF Live
<1>2. \A i \in 1 .. n - 1 : dying[i + 1] \in Offspring(dying[i])
  BY DEF Offspring
<1>3. c \in Offspring(Doomed)
  BY DEF Offspring
<1>4. SUFFICES ASSUME c \in S PROVE FALSE
  OBVIOUS
<1>5. PICK p \in S : Offspring(p) \cap S = {}
  <2>1. S \in SUBSET Proc /\ S # {}
    BY <1>1, <1>4
  <2> QED  BY <2>1 DEF FamilyInv, Acyclic
<1>6. PICK i \in 1 .. n : p = dying[i]
  OBVIOUS
<1>7. CASE i = n
  BY <1>3, <1>4, <1>5, <1>6, <1>7 DEF Doomed
<1>8. CASE i # n
  <2>1. i \in 1 .. n - 1 /\ i + 1 \in 1 .. n
    BY <1>1, <1>8
  <2>2. dying[i + 1] \in Offspring(p) /\ dying[i + 1] \in S
    BY <1>2, <1>6, <2>1
  <2> QED  BY <1>5, <2>2
<1> QED  BY <1>7, <1>8

\* removeChild moves a child from its parent to the stack of sys2.
LEMMA FamilyTakeChild ==
    ASSUME TypeOK, FamilyInv, TakeChild PROVE FamilyInv'
<1> DEFINE n == Len(dying)
           c == Head(kids[Doomed])
<1>1. /\ kpc = "terminate" /\ kids[Doomed] # <<>>
      /\ dying' = Append(dying, c)
      /\ kids' = [kids EXCEPT ![Doomed] = Tail(@)]
      /\ UNCHANGED <<kpc, currentProc, free>>
  BY DEF TakeChild
<1>2. /\ n \in Nat \ {0} /\ DOMAIN dying = 1 .. n
      /\ Doomed \in Live /\ Doomed \in Proc /\ Doomed = dying[n]
      /\ dying[1] = currentProc /\ dying # <<>>
      /\ \A i \in 1 .. n : dying[i] \in Live
      /\ \A i, j \in 1 .. n : dying[i] = dying[j] => i = j
  <2>1. dying # <<>>
    BY <1>1 DEF FamilyInv, DyingInv
  <2> QED  BY <1>1, <2>1, DyingFacts DEF Doomed
<1>3. /\ kids[Doomed] \in Seq(Proc) /\ IsInjective(kids[Doomed])
      /\ ToSet(kids[Doomed]) \subseteq Live
  BY <1>2 DEF TypeOK, FamilyInv, TreeSound
<1>4. /\ c \in ToSet(kids[Doomed]) /\ c \in Proc /\ c \in Live
      /\ IsInjective(Tail(kids[Doomed]))
      /\ ToSet(Tail(kids[Doomed])) = ToSet(kids[Doomed]) \ {c}
  BY <1>1, <1>3, RemoveQueue
<1> HIDE DEF c
<1>5. /\ kids'[Doomed] = Tail(kids[Doomed])
      /\ \A p \in Proc : p # Doomed => kids'[p] = kids[p]
      /\ \A p \in Proc : ToSet(kids'[p]) \subseteq ToSet(kids[p])
      /\ \A p \in Proc : c \notin ToSet(kids'[p])
  <2>1. /\ kids'[Doomed] = Tail(kids[Doomed])
        /\ \A p \in Proc : p # Doomed => kids'[p] = kids[p]
    BY <1>1, <1>2 DEF TypeOK
  <2>2. \A p \in Proc : p # Doomed => c \notin ToSet(kids[p])
    BY <1>2, <1>4 DEF FamilyInv, TreeSound
  <2> QED  BY <2>1, <2>2, <1>4
<1>6. Live' = Live
  BY <1>1 DEF Live
<1>7. /\ Len(dying') = n + 1 /\ DOMAIN dying' = 1 .. n + 1
      /\ \A i \in 1 .. n : dying'[i] = dying[i]
      /\ dying'[n + 1] = c
  <2>1. dying \in Seq(Proc)
    BY DEF TypeOK
  <2> QED  BY <2>1, <1>1, <1>4, AppendProperties, LenProperties
<1>8. TreeSound'
  <2>1. \A p \in Proc : IsInjective(kids'[p]) /\ (kids'[p] # <<>> => p \in Live')
    BY <1>2, <1>4, <1>5, <1>6 DEF FamilyInv, TreeSound
  <2>2. \A p, q \in Proc : p # q => ToSet(kids'[p]) \cap ToSet(kids'[q]) = {}
    BY <1>5 DEF FamilyInv, TreeSound
  <2>3. \A p \in Proc : ToSet(kids'[p]) \subseteq Live'
    BY <1>5, <1>6 DEF FamilyInv, TreeSound
  <2> QED  BY <2>1, <2>2, <2>3 DEF TreeSound
<1>9. \A i \in 1 .. n : dying[i] # c
  BY <1>1, <1>4, ChildIsNew
<1>10. DyingInv'
  <2>1. dying' # <<>> /\ dying'[1] = currentProc'
    <3>1. 1 \in 1 .. n
      BY <1>2
    <3>2. dying' # <<>>
      BY <1>2, <1>7
    <3> QED  BY <3>1, <3>2, <1>1, <1>2, <1>7
  <2>2. IsInjective(dying')
    BY <1>2, <1>7, <1>9 DEF IsInjective
  <2>3. \A i \in 1 .. n + 1 : dying'[i] \in Live
    BY <1>2, <1>4, <1>7
  <2>4. ToSet(dying') \subseteq Live'
    BY <2>3, <1>6, <1>7 DEF ToSet
  <2>5. ASSUME NEW i \in 2 .. n + 1, NEW p \in Proc PROVE dying'[i] \notin ToSet(kids'[p])
    <3>1. CASE i = n + 1
      BY <3>1, <1>5, <1>7
    <3>2. CASE i # n + 1
      <4>1. i \in 2 .. n /\ i \in 1 .. n
        BY <3>2, <1>2
      <4>2. dying[i] \notin ToSet(kids[p])
        BY <4>1, <1>1 DEF FamilyInv, DyingInv
      <4> QED  BY <4>1, <4>2, <1>5, <1>7
    <3> QED  BY <3>1, <3>2
  <2> QED  BY <2>1, <2>2, <2>4, <2>5, <1>7 DEF DyingInv
<1>11. ASSUME NEW p \in Proc PROVE Offspring(p)' \subseteq Offspring(p)
  <2>1. Offspring(p)' = ToSet(kids'[p]) \cup
                        {dying'[i + 1] : i \in {j \in 1 .. Len(dying') - 1 : dying'[j] = p}}
    BY <1>1 DEF Offspring
  <2>2. ToSet(kids'[p]) \subseteq Offspring(p)
    BY <1>5 DEF Offspring
  <2>3. ASSUME NEW j \in 1 .. n, dying'[j] = p PROVE dying'[j + 1] \in Offspring(p)
    <3>1. CASE j = n
      BY <3>1, <2>3, <1>2, <1>4, <1>7 DEF Offspring
    <3>2. CASE j # n
      <4>1. j \in 1 .. n - 1 /\ j + 1 \in 1 .. n
        <5>1. n \in Nat /\ j \in 1 .. n /\ j # n
          BY <3>2, <2>3, <1>2
        <5> HIDE DEF n
        <5> QED  BY <5>1
      <4>2. dying[j] = p /\ dying'[j + 1] = dying[j + 1]
        BY <4>1, <2>3, <1>7
      <4> QED  BY <4>1, <4>2, <1>1 DEF Offspring
    <3> QED  BY <3>1, <3>2
  <2>4. Len(dying') - 1 = n
    BY <1>2, <1>7
  <2> QED  BY <2>1, <2>2, <2>3, <2>4
<1>12. Acyclic'
  BY <1>11, AcyclicShrinks DEF FamilyInv
<1> QED  BY <1>8, <1>10, <1>12 DEF FamilyInv

\* The end of a call of sys2, when the process has no children left and is
\* nobody's child any more.
LEMMA FamilyBury ==
    ASSUME TypeOK, FamilyInv, kpc = "terminate", kids[Doomed] = <<>>, Bury(Doomed),
           UNCHANGED currentProc, kids' \in [Proc -> Seq(Proc)],
           \A p \in Proc : /\ IsInjective(kids'[p])
                           /\ ToSet(kids'[p]) \subseteq ToSet(kids[p]) \ {Doomed}
    PROVE  FamilyInv'
<1> DEFINE n == Len(dying)
<1>1. /\ n \in Nat \ {0} /\ DOMAIN dying = 1 .. n
      /\ Doomed \in Live /\ Doomed \in Proc /\ Doomed = dying[n]
      /\ dying[1] = currentProc
      /\ \A i \in 1 .. n : dying[i] \in Live
      /\ \A i, j \in 1 .. n : dying[i] = dying[j] => i = j
  BY DyingFacts DEF Doomed
<1>2. Live' = Live \ {Doomed}
  BY DEF Bury, Live
<1>3. \A p \in Proc : kids'[p] # <<>> => kids[p] # <<>>
  <2>1. \A p \in Proc : kids'[p] # <<>> => ToSet(kids'[p]) # {}
    BY QueueElements
  <2>2. \A p \in Proc : kids[p] = <<>> => ToSet(kids[p]) = {}
    BY QueueElements DEF TypeOK
  <2> QED  BY <2>1, <2>2
<1>4. TreeSound'
  <2>1. ASSUME NEW p \in Proc, kids'[p] # <<>> PROVE p \in Live'
    BY <2>1, <1>2, <1>3 DEF FamilyInv, TreeSound
  <2>2. \A p, q \in Proc : p # q => ToSet(kids'[p]) \cap ToSet(kids'[q]) = {}
    BY DEF FamilyInv, TreeSound
  <2>3. \A p \in Proc : ToSet(kids'[p]) \subseteq Live'
    BY <1>2 DEF FamilyInv, TreeSound
  <2> QED  BY <2>1, <2>2, <2>3 DEF TreeSound
<1>5. CASE n = 1
  <2>1. kpc' = "schedule"
    BY <1>5 DEF Bury
  <2>2. \A p \in Proc : Offspring(p)' \subseteq Offspring(p)
    BY <2>1 DEF Offspring
  <2>3. DyingInv' /\ Acyclic'
    BY <2>1, <2>2, AcyclicShrinks DEF FamilyInv, DyingInv
  <2> QED  BY <1>4, <2>3 DEF FamilyInv
<1>6. CASE n # 1
  <2>1. /\ Len(dying') = n - 1 /\ DOMAIN dying' = 1 .. n - 1 /\ dying' # <<>>
        /\ \A i \in 1 .. n - 1 : dying'[i] = dying[i]
    <3>1. dying' = SubSeq(dying, 1, n - 1) /\ dying \in Seq(Proc)
      BY DEF Bury, TypeOK
    <3>2. \A i \in 1 .. n - 1 : dying[i] \in Proc
      BY <1>1 DEF Live
    <3>3. /\ dying' \in Seq(Proc) /\ Len(dying') = n - 1
          /\ \A i \in 1 .. n - 1 : dying'[i] = dying[i]
      <4>1. /\ dying' \in Seq(Proc)
            /\ Len(dying') = IF 1 <= n - 1 THEN (n - 1) - 1 + 1 ELSE 0
            /\ \A i \in 1 .. (n - 1) - 1 + 1 : dying'[i] = dying[1 + i - 1]
        BY <3>1, <3>2, <1>1, SubSeqProperties
      <4>2. n \in Nat /\ n > 1
        BY <1>1, <1>6
      <4> HIDE DEF n
      <4>3. Len(dying') = n - 1
        BY <4>1, <4>2
      <4>4. ASSUME NEW i \in 1 .. n - 1 PROVE dying'[i] = dying[i]
        <5>1. i \in 1 .. (n - 1) - 1 + 1 /\ 1 + i - 1 = i
          BY <4>2
        <5> QED  BY <4>1, <5>1
      <4> QED  BY <4>1, <4>3, <4>4
    <3>4. Len(dying') # 0
      BY <3>3, <1>1, <1>6
    <3> QED  BY <3>3, <3>4, <1>1, LenProperties
  <2>2. kpc' = "terminate"
    BY <1>6 DEF Bury
  <2>3. DyingInv'
    <3>1. dying'[1] = currentProc'
      BY <2>1, <1>1, <1>6
    <3>2. IsInjective(dying')
      BY <2>1, <1>1 DEF IsInjective
    <3>3. \A i \in 1 .. n - 1 : dying[i] \in Live'
      BY <1>1, <1>2
    <3>4. ToSet(dying') \subseteq Live'
      BY <3>3, <2>1 DEF ToSet
    <3>5. ASSUME NEW i \in 2 .. n - 1, NEW p \in Proc PROVE dying'[i] \notin ToSet(kids'[p])
      <4>1. i \in 2 .. n /\ i \in 1 .. n - 1
        BY <1>1
      <4>2. dying[i] \notin ToSet(kids[p])
        BY <4>1 DEF FamilyInv, DyingInv
      <4> QED  BY <4>1, <4>2, <2>1
    <3> QED  BY <3>1, <3>2, <3>4, <3>5, <2>1 DEF DyingInv
  <2>4. ASSUME NEW p \in Proc PROVE Offspring(p)' \subseteq Offspring(p)
    <3>1. ASSUME NEW j \in 1 .. Len(dying') - 1, dying'[j] = p
          PROVE  dying'[j + 1] \in Offspring(p)
      <4>1. j \in 1 .. n - 1 /\ j + 1 \in 1 .. n - 1
        BY <2>1, <1>1
      <4>2. dying[j] = p /\ dying'[j + 1] = dying[j + 1]
        BY <4>1, <2>1, <3>1
      <4> QED  BY <4>1, <4>2 DEF Offspring
    <3>2. Offspring(p)' = ToSet(kids'[p]) \cup
                          {dying'[i + 1] : i \in {j \in 1 .. Len(dying') - 1 : dying'[j] = p}}
      BY <2>2 DEF Offspring
    <3>3. ToSet(kids'[p]) \subseteq Offspring(p)
      BY DEF Offspring
    <3> QED  BY <3>1, <3>2, <3>3
  <2>5. Acyclic'
    BY <2>4, AcyclicShrinks DEF FamilyInv
  <2> QED  BY <1>4, <2>3, <2>5 DEF FamilyInv
<1> QED  BY <1>5, <1>6

\* outChild takes the current process, and only it, from its parent.
LEMMA OutChildFacts ==
    ASSUME TypeOK, TreeSound, NEW p \in Proc
    PROVE  /\ OutChild(p) \in [Proc -> Seq(Proc)]
           /\ \A q \in Proc : /\ IsInjective(OutChild(p)[q])
                              /\ ToSet(OutChild(p)[q]) = ToSet(kids[q]) \ {p}
<1>1. ASSUME NEW q \in Proc
      PROVE  /\ OutChild(p)[q] \in Seq(Proc)
             /\ IsInjective(OutChild(p)[q])
             /\ ToSet(OutChild(p)[q]) = ToSet(kids[q]) \ {p}
  <2>1. kids[q] \in Seq(Proc) /\ IsInjective(kids[q])
    BY DEF TypeOK, TreeSound
  <2>2. CASE p \in ToSet(kids[q])
    BY <2>1, <2>2, WithoutQueue DEF OutChild
  <2>3. CASE p \notin ToSet(kids[q])
    BY <2>1, <2>3 DEF OutChild
  <2> QED  BY <2>2, <2>3
<1> QED  BY <1>1 DEF OutChild

\* All the steps of sys2.
LEMMA FamilySys2 ==
    ASSUME TypeOK, FamilyInv, Sys2 PROVE FamilyInv'
<1>0. kpc = "terminate"
  BY DEF Sys2, TakeChild, RetireCurrent, RetireReady, RetireBlocked
<1>1. CASE TakeChild
  BY <1>1, FamilyTakeChild
<1>2. CASE RetireCurrent
  <2>1. /\ kids[Doomed] = <<>> /\ kids' = OutChild(Doomed) /\ Bury(Doomed)
        /\ UNCHANGED currentProc
    BY <1>2 DEF RetireCurrent
  <2>2. Doomed \in Proc
    BY <1>0, DyingFacts
  <2>3. /\ kids' \in [Proc -> Seq(Proc)]
        /\ \A p \in Proc : /\ IsInjective(kids'[p])
                           /\ ToSet(kids'[p]) = ToSet(kids[p]) \ {Doomed}
    BY <2>1, <2>2, OutChildFacts DEF FamilyInv
  <2> QED  BY <1>0, <2>1, <2>3, FamilyBury
<1>3. ASSUME kids[Doomed] = <<>>, Doomed # currentProc, Bury(Doomed),
             UNCHANGED <<kids, currentProc>>
      PROVE  FamilyInv'
  <2>1. Len(dying) # 1
    BY <1>0, <1>3, DyingFacts DEF Doomed
  <2>2. \A p \in Proc : Doomed \notin ToSet(kids[p])
    <3>1. Len(dying) \in 2 .. Len(dying)
      BY <1>0, <2>1, DyingFacts
    <3> QED  BY <1>0, <3>1 DEF FamilyInv, DyingInv, Doomed
  <2>3. /\ kids' \in [Proc -> Seq(Proc)]
        /\ \A p \in Proc : /\ IsInjective(kids'[p])
                           /\ ToSet(kids'[p]) \subseteq ToSet(kids[p]) \ {Doomed}
    BY <1>3, <2>2 DEF TypeOK, FamilyInv, TreeSound
  <2> QED  BY <1>0, <1>3, <2>3, FamilyBury
<1>4. ASSUME NEW outcome, outcome # "terminate", GoesWrong(outcome), UNCHANGED currentProc
      PROVE  FamilyInv'
  <2>1. kpc' # "terminate" /\ UNCHANGED <<kids, free>>
    BY <1>4 DEF GoesWrong, tree
  <2> QED  BY <2>1, FamilyStays
<1>5. CASE RetireReady
  <2>1. mlpq[FoundAt] \in Seq(Proc)
    BY FoundAtRange DEF TypeOK
  <2>2. OutAt(mlpq[FoundAt], stray.ready[FoundAt]) # "terminate"
    BY <2>1, OutAtOutcome DEF Returns
  <2> QED  BY <1>3, <1>4, <1>5, <2>2 DEF RetireReady
<1>6. CASE RetireBlocked
  <2> DEFINE s == pcb[Doomed].p_semAdd
             outcome == IF s \notin Sem THEN "trap" ELSE IF ~HasSemd(s) THEN "absent"
                        ELSE OutAt(blocked[s], stray.blocked[s])
  <2>1. outcome # "terminate"
    BY SeekOutcome DEF Returns
  <2>2. \/ kids[Doomed] = <<>> /\ Doomed # currentProc /\ Bury(Doomed)
           /\ UNCHANGED <<kids, currentProc>>
        \/ GoesWrong(outcome) /\ UNCHANGED currentProc
    BY <1>6 DEF RetireBlocked
  <2> QED  BY <1>3, <1>4, <2>1, <2>2
<1> QED  BY <1>1, <1>2, <1>5, <1>6 DEF Sys2

-----------------------------------------------------------------------------
\* test is alone.
LEMMA InitFamily == Init => FamilyInv
<1> SUFFICES ASSUME Init PROVE FamilyInv
  OBVIOUS
<1>1. /\ \A p \in Proc : kids[p] = <<>> /\ ToSet(kids[p]) = {} /\ IsInjective(kids[p])
  BY DEF Init, ToSet, IsInjective
<1>2. TreeSound
  BY <1>1 DEF TreeSound
<1>3. DyingInv /\ \A p \in Proc : Offspring(p) = {}
  BY <1>1 DEF Init, DyingInv, Offspring
<1>4. Acyclic
  BY <1>3 DEF Acyclic
<1> QED  BY <1>2, <1>3, <1>4 DEF FamilyInv

\* The invariant of the tree and of sys2 is preserved by every step.
LEMMA StepFamily ==
    ASSUME TypeOK, ControlInv, FamilyInv, [Next]_vars PROVE FamilyInv'
<1>1. ASSUME Active # {}, currentProc # NULL, Active \subseteq Live
      PROVE  currentProc \in Live
  BY <1>1 DEF Active
<1>2. Active \subseteq Live
  BY DEF ControlInv, Unblocked
<1>3. ASSUME kpc = "run" PROVE currentProc \in Live
  BY <1>2, <1>3 DEF ControlInv, Active
<1>4. CASE Schedule
  BY <1>4, FamilyStays
     DEF Schedule, Dispatch, Recharge, NothingReady, ScheduleAstray, GoAstray, IdleState,
         tree
<1>5. CASE Sys2
  BY <1>5, FamilySys2
<1>6. CASE NestedTrap
  <2>1. CASE kpc' # "terminate"
    BY <1>6, <2>1, FamilyStays DEF NestedTrap, CallSys2, tree
  <2>2. CASE kpc' = "terminate"
    <3>1. currentProc # NULL /\ CallSys2(pcb) /\ kpc = "trap"
      BY <1>6, <2>2 DEF NestedTrap
    <3>2. currentProc \in Live
      BY <3>1, <1>2 DEF Active
    <3> QED  BY <3>1, <3>2, FamilyCallSys2
  <2> QED  BY <2>1, <2>2
<1>7. ASSUME Running, NEW saved, CallSys2(saved) PROVE FamilyInv'
  BY <1>3, <1>7, FamilyCallSys2 DEF Running
<1>8. ASSUME Running, NEW saved, Resume(saved) PROVE FamilyInv'
  BY <1>8, FamilyStays DEF Running, Resume, tree
<1>9. CASE Syscall
  <2>1. CASE CreateProcess
    BY <2>1, FamilyCreate
  <2>2. CASE NoFreePcb \/ TerminateProcess \/ GetCpuTime
    BY <2>2, <1>7, <1>8 DEF NoFreePcb, TerminateProcess, GetCpuTime
  <2>3. ASSUME NEW t \in VectorTypes, SpecifyVector(t) PROVE FamilyInv'
    BY <2>3, <1>7, <1>8 DEF SpecifyVector
  <2>4. ASSUME NEW s, Verhogen(s) PROVE FamilyInv'
    <3>1. kpc' # "terminate" /\ UNCHANGED <<kids, free>>
      BY <2>4 DEF Verhogen, Running, tree
    <3> QED  BY <3>1, FamilyStays
  <2>5. ASSUME NEW s, NEW soft, NEW toTotal, kpc = "run", P(s, soft, toTotal)
        PROVE  FamilyInv'
    <3>1. kpc' # "terminate" /\ UNCHANGED <<kids, free>>
      BY <2>5 DEF P, tree
    <3> QED  BY <3>1, FamilyStays
  <2>6. ASSUME NEW s, Passeren(s) PROVE FamilyInv'
    BY <2>5, <2>6 DEF Passeren, Running
  <2>7. CASE WaitForClock
    BY <2>5, <2>7 DEF WaitForClock, Running
  <2>8. ASSUME NEW d, WaitForIO(d) PROVE FamilyInv'
    BY <2>5, <2>8 DEF WaitForIO, Running
  <2>9. ASSUME NEW d, CommandDevice(d) PROVE FamilyInv'
    BY <2>9, FamilyStays DEF CommandDevice, Running, tree
  <2>10. CASE CallAstray
    BY <2>10, FamilyStays DEF CallAstray, GoAstray, tree
  <2> QED
    BY <1>9, <2>1, <2>2, <2>3, <2>4, <2>6, <2>7, <2>8, <2>9, <2>10 DEF Syscall
<1>10. CASE Exception
  <2>1. ASSUME NEW t, NEW saved, PassUpOrDie(t, saved) PROVE FamilyInv'
    BY <2>1, <1>7, <1>8 DEF PassUpOrDie
  <2> QED
    BY <1>10, <2>1 DEF Exception, TlbException, HighSyscall, ProgramTrap, UserModeSyscall
<1>11. CASE Interrupt
  <2>1. kpc' # "terminate" /\ UNCHANGED <<kids, free>>
    BY <1>11 DEF Interrupt, ProcTimer, IntervalTimer, DeviceInterrupt, InterruptAstray,
                 GoAstray, Return, tree
  <2> QED  BY <2>1, FamilyStays
<1>12. CASE \E d \in Device : DeviceDone(d)
  BY <1>12, FamilyStays DEF DeviceDone, tree
<1>13. CASE UNCHANGED vars
  BY <1>13, FamilyStays DEF vars, tree
<1> QED
  BY <1>4, <1>5, <1>6, <1>9, <1>10, <1>11, <1>12, <1>13 DEF Next, Stop

-----------------------------------------------------------------------------
(***************************************************************************)
(* The ready queues as a whole: what one operation on one of them does to  *)
(* the set of pcbs they hold.                                              *)
(***************************************************************************)

\* One queue is replaced.
LEMMA HoldsUpdate ==
    ASSUME NEW q \in [0 .. 2 -> Seq(Proc)], NEW S, Holds(q, S),
           NEW i \in 0 .. 2, NEW r \in Seq(Proc), IsInjective(r),
           \A j \in 0 .. 2 : j # i => ToSet(r) \cap ToSet(q[j]) = {}
    PROVE  Holds([q EXCEPT ![i] = r], (S \ ToSet(q[i])) \cup ToSet(r))
<1> DEFINE w == [q EXCEPT ![i] = r]
           U == (S \ ToSet(q[i])) \cup ToSet(r)
<1>1. w[i] = r /\ \A j \in 0 .. 2 : j # i => w[j] = q[j]
  OBVIOUS
<1> HIDE DEF w
<1>2. \A j \in 0 .. 2 : IsInjective(w[j]) /\ ToSet(w[j]) \subseteq U
  BY <1>1 DEF Holds
<1>3. \A j, k \in 0 .. 2 : j # k => ToSet(w[j]) \cap ToSet(w[k]) = {}
  BY <1>1 DEF Holds
<1>4. U \subseteq ToSet(w[0]) \cup ToSet(w[1]) \cup ToSet(w[2])
  <2>1. ASSUME NEW p \in S, p \notin ToSet(q[i]) PROVE \E j \in 0 .. 2 : p \in ToSet(w[j])
    <3>1. \E j \in 0 .. 2 : p \in ToSet(q[j])
      <4>1. 0 \in 0 .. 2 /\ 1 \in 0 .. 2 /\ 2 \in 0 .. 2
        OBVIOUS
      <4> QED  BY <4>1 DEF Holds
    <3> QED  BY <3>1, <2>1, <1>1
  <2>2. \A p \in U : \E j \in 0 .. 2 : p \in ToSet(w[j])
    BY <2>1, <1>1
  <2>3. \A j \in 0 .. 2 : j = 0 \/ j = 1 \/ j = 2
    OBVIOUS
  <2> QED  BY <2>2, <2>3
<1> QED  BY <1>2, <1>3, <1>4 DEF Holds, w

\* Every pcb the queues hold is in one of them.
LEMMA HoldsMember ==
    ASSUME NEW q, NEW S, Holds(q, S), NEW p \in S
    PROVE  \E i \in 0 .. 2 : p \in ToSet(q[i])
<1>1. 0 \in 0 .. 2 /\ 1 \in 0 .. 2 /\ 2 \in 0 .. 2
  OBVIOUS
<1> QED  BY <1>1 DEF Holds

\* putInQ adds one pcb.
LEMMA HoldsPut ==
    ASSUME NEW q \in [0 .. 2 -> Seq(Proc)], NEW S, Holds(q, S),
           NEW p \in Proc, p \notin S, NEW r, NEW w
    PROVE  Holds(PutInQ(q, p, r, w), S \cup {p})
<1> DEFINE i == QueueFor(r.totalProcTime, w)
<1>1. i \in 0 .. 2
  BY QueueForRange
<1>2. PutInQ(q, p, r, w) = [q EXCEPT ![i] = InsertProcQ(q[i], p)]
  BY DEF PutInQ
<1> HIDE DEF i
<1>3. q[i] \in Seq(Proc) /\ IsInjective(q[i]) /\ ToSet(q[i]) \subseteq S
  BY <1>1 DEF Holds
<1>4. /\ InsertProcQ(q[i], p) \in Seq(Proc) /\ IsInjective(InsertProcQ(q[i], p))
      /\ ToSet(InsertProcQ(q[i], p)) = ToSet(q[i]) \cup {p}
  BY <1>3, InsertQueue
<1>5. \A j \in 0 .. 2 : j # i => ToSet(InsertProcQ(q[i], p)) \cap ToSet(q[j]) = {}
  BY <1>1, <1>4 DEF Holds
<1>6. Holds([q EXCEPT ![i] = InsertProcQ(q[i], p)],
            (S \ ToSet(q[i])) \cup ToSet(InsertProcQ(q[i], p)))
  BY <1>1, <1>4, <1>5, HoldsUpdate
<1>7. (S \ ToSet(q[i])) \cup ToSet(InsertProcQ(q[i], p)) = S \cup {p}
  BY <1>3, <1>4
<1> QED  BY <1>2, <1>6, <1>7

\* nextProc takes one out.
LEMMA HoldsNext ==
    ASSUME mlpq \in [0 .. 2 -> Seq(Proc)], NEW S, Holds(mlpq, S), NonEmpty # {},
           ReadySound(NextQueue)
    PROVE  NextProc \in S /\ Holds(AfterNextProc, S \ {NextProc})
<1> DEFINE i == NextQueue
<1>1. i \in 0 .. 2 /\ mlpq[i] # <<>>
  BY NextProcType
<1>2. mlpq[i] \in Seq(Proc) /\ IsInjective(mlpq[i]) /\ ToSet(mlpq[i]) \subseteq S
  BY <1>1 DEF Holds
<1>3. /\ NextProc = Head(mlpq[i]) /\ AfterNextProc = [mlpq EXCEPT ![i] = Tail(mlpq[i])]
  BY DEF NextProc, AfterNextProc
<1> HIDE DEF i
<1>4. /\ Tail(mlpq[i]) \in Seq(Proc) /\ IsInjective(Tail(mlpq[i]))
      /\ NextProc \in ToSet(mlpq[i])
      /\ ToSet(Tail(mlpq[i])) = ToSet(mlpq[i]) \ {NextProc}
  BY <1>1, <1>2, <1>3, RemoveQueue
<1>5. \A j \in 0 .. 2 : j # i => ToSet(Tail(mlpq[i])) \cap ToSet(mlpq[j]) = {}
  BY <1>1, <1>4 DEF Holds
<1>6. Holds([mlpq EXCEPT ![i] = Tail(mlpq[i])], (S \ ToSet(mlpq[i])) \cup ToSet(Tail(mlpq[i])))
  BY <1>1, <1>4, <1>5, HoldsUpdate
<1>7. (S \ ToSet(mlpq[i])) \cup ToSet(Tail(mlpq[i])) = S \ {NextProc}
  BY <1>2, <1>4
<1> QED  BY <1>2, <1>3, <1>4, <1>6, <1>7

\* So does outProcQ.
LEMMA HoldsWithout ==
    ASSUME NEW q \in [0 .. 2 -> Seq(Proc)], NEW S, Holds(q, S),
           NEW i \in 0 .. 2, NEW p \in ToSet(q[i])
    PROVE  Holds([q EXCEPT ![i] = Without(@, p)], S \ {p})
<1>1. q[i] \in Seq(Proc) /\ IsInjective(q[i]) /\ ToSet(q[i]) \subseteq S
  BY DEF Holds
<1>2. /\ Without(q[i], p) \in Seq(Proc) /\ IsInjective(Without(q[i], p))
      /\ ToSet(Without(q[i], p)) = ToSet(q[i]) \ {p}
  BY <1>1, WithoutQueue
<1>3. \A j \in 0 .. 2 : j # i => ToSet(Without(q[i], p)) \cap ToSet(q[j]) = {}
  BY <1>2 DEF Holds
<1>4. Holds([q EXCEPT ![i] = Without(q[i], p)], (S \ ToSet(q[i])) \cup ToSet(Without(q[i], p)))
  BY <1>2, <1>3, HoldsUpdate
<1>5. (S \ ToSet(q[i])) \cup ToSet(Without(q[i], p)) = S \ {p}
  BY <1>1, <1>2
<1> QED  BY <1>4, <1>5

\* Whichever queue it is in, the process sys2 works on leaves.
LEMMA HoldsLeave ==
    ASSUME NEW q \in [0 .. 2 -> Seq(Proc)], NEW S, Holds(q, S), Doomed \in S
    PROVE  Holds([i \in 0 .. 2 |-> Leave(q[i])], S \ {Doomed})
<1> DEFINE w == [i \in 0 .. 2 |-> Leave(q[i])]
<1>1. PICK i \in 0 .. 2 : Doomed \in ToSet(q[i])
  BY HoldsMember
<1>2. \A j \in 0 .. 2 : j # i => Doomed \notin ToSet(q[j])
  BY <1>1 DEF Holds
<1>3. w = [q EXCEPT ![i] = Without(@, Doomed)]
  BY <1>1, <1>2 DEF Leave
<1> QED  BY <1>1, <1>3, HoldsWithout

\* The tick of the pseudo-clock puts a whole queue behind MLPQ[0].
LEMMA HoldsConcat ==
    ASSUME NEW q \in [0 .. 2 -> Seq(Proc)], NEW S, Holds(q, S),
           NEW w \in Seq(Proc), IsInjective(w), ToSet(w) \cap S = {}
    PROVE  Holds([q EXCEPT ![0] = @ \o w], S \cup ToSet(w))
<1>1. q[0] \in Seq(Proc) /\ IsInjective(q[0]) /\ ToSet(q[0]) \subseteq S
  BY DEF Holds
<1>2. /\ q[0] \o w \in Seq(Proc) /\ IsInjective(q[0] \o w)
      /\ ToSet(q[0] \o w) = ToSet(q[0]) \cup ToSet(w)
  BY <1>1, ConcatQueues
<1>3. \A j \in 0 .. 2 : j # 0 => ToSet(q[0] \o w) \cap ToSet(q[j]) = {}
  BY <1>2 DEF Holds
<1>4. Holds([q EXCEPT ![0] = q[0] \o w], (S \ ToSet(q[0])) \cup ToSet(q[0] \o w))
  <2>1. 0 \in 0 .. 2
    OBVIOUS
  <2> QED  BY <2>1, <1>2, <1>3, HoldsUpdate
<1>5. (S \ ToSet(q[0])) \cup ToSet(q[0] \o w) = S \cup ToSet(w)
  BY <1>1, <1>2
<1> QED  BY <1>4, <1>5

-----------------------------------------------------------------------------
(***************************************************************************)
(* What the places are after a step, by the kind of step.                  *)
(***************************************************************************)
LEMMA NoSemaphore == NULL \notin Sem /\ NewAreaAsid \notin Sem
BY SemAssumption

\* The ready queues and the processor hold different processes, and neither
\* holds a blocked one.
LEMMA PlaceFacts ==
    ASSUME TypeOK, PlaceInv
    PROVE  /\ Live \subseteq Proc
           /\ mlpq \in [0 .. 2 -> Seq(Proc)] /\ Holds(mlpq, Unblocked \ Active)
           /\ Active \subseteq Unblocked
           /\ \A s \in Sem : /\ blocked[s] \in Seq(Proc) /\ IsInjective(blocked[s])
                             /\ ToSet(blocked[s]) = BlockedOn(s)
                             /\ BlockedOn(s) \cap Unblocked = {}
                             /\ BlockedOn(s) \subseteq Live
           /\ Unblocked \subseteq Live
BY DEF TypeOK, PlaceInv, ControlInv, ReadyInv, BlockedInv, Unblocked, BlockedOn, Live

\* No process is blocked, woken, made or killed.
LEMMA SamePlaces ==
    ASSUME TypeOK, PlaceInv, UNCHANGED <<free, blocked>>,
           \A p \in Live : \/ pcb'[p].p_semAdd = pcb[p].p_semAdd
                           \/ pcb'[p].p_semAdd \notin Sem /\ pcb[p].p_semAdd \notin Sem
    PROVE  Unblocked' = Unblocked /\ BlockedInv'
<1>1. Live' = Live
  BY DEF Live
<1>2. Unblocked' = Unblocked
  BY <1>1 DEF Unblocked
<1>3. \A s \in Sem : BlockedOn(s)' = BlockedOn(s)
  BY <1>1 DEF BlockedOn
<1> QED  BY <1>2, <1>3 DEF BlockedInv, PlaceInv

\* A process is woken.
LEMMA WakePlaces ==
    ASSUME TypeOK, PlaceInv, UNCHANGED free,
           NEW s \in Sem, blocked[s] # <<>>,
           blocked' = [blocked EXCEPT ![s] = Tail(@)],
           pcb'[Head(blocked[s])].p_semAdd \notin Sem,
           \A p \in Live \ {Head(blocked[s])} :
               \/ pcb'[p].p_semAdd = pcb[p].p_semAdd
               \/ pcb'[p].p_semAdd \notin Sem /\ pcb[p].p_semAdd \notin Sem
    PROVE  /\ Unblocked' = Unblocked \cup {Head(blocked[s])}
           /\ Head(blocked[s]) \notin Unblocked /\ Head(blocked[s]) \in Proc
           /\ BlockedInv'
<1> DEFINE p == Head(blocked[s])
<1>1. Live' = Live /\ Live \subseteq Proc
  BY PlaceFacts DEF Live
<1>2. blocked[s] \in Seq(Proc) /\ IsInjective(blocked[s]) /\ ToSet(blocked[s]) = BlockedOn(s)
  BY PlaceFacts
<1>3. /\ p \in ToSet(blocked[s]) /\ p \in Proc /\ IsInjective(Tail(blocked[s]))
      /\ ToSet(Tail(blocked[s])) = ToSet(blocked[s]) \ {p}
  BY <1>2, RemoveQueue
<1>4. p \in Live /\ pcb[p].p_semAdd = s /\ p \notin Unblocked
  BY <1>2, <1>3 DEF BlockedOn, Unblocked
<1> HIDE DEF p
<1>5. \A q \in Live \ {p} : \/ pcb'[q].p_semAdd = pcb[q].p_semAdd
                            \/ pcb'[q].p_semAdd \notin Sem /\ pcb[q].p_semAdd \notin Sem
  BY DEF p
<1>6. pcb'[p].p_semAdd \notin Sem
  BY DEF p
<1>7. Unblocked' = Unblocked \cup {p}
  BY <1>1, <1>4, <1>5, <1>6 DEF Unblocked
<1>8. \A t \in Sem : BlockedOn(t)' = BlockedOn(t) \ {p}
  BY <1>1, <1>5, <1>6 DEF BlockedOn
<1>9. \A t \in Sem : t # s => p \notin BlockedOn(t)
  BY <1>4 DEF BlockedOn
<1>10. /\ blocked'[s] = Tail(blocked[s])
       /\ \A t \in Sem : t # s => blocked'[t] = blocked[t]
  BY DEF TypeOK
<1>11. ASSUME NEW t \in Sem
       PROVE  IsInjective(blocked'[t]) /\ ToSet(blocked'[t]) = BlockedOn(t)'
  <2>1. CASE t = s
    <3>1. IsInjective(blocked'[s]) /\ ToSet(blocked'[s]) = BlockedOn(s) \ {p}
      BY <1>2, <1>3, <1>10 DEF p
    <3>2. BlockedOn(t)' = BlockedOn(t) \ {p}
      BY <1>8
    <3> QED  BY <2>1, <3>1, <3>2
  <2>2. CASE t # s
    <3>1. IsInjective(blocked[t]) /\ ToSet(blocked[t]) = BlockedOn(t)
      BY PlaceFacts
    <3>2. blocked'[t] = blocked[t] /\ BlockedOn(t) = BlockedOn(t) \ {p}
      BY <2>2, <1>9, <1>10
    <3>3. BlockedOn(t)' = BlockedOn(t) \ {p}
      BY <1>8
    <3> QED  BY <3>1, <3>2, <3>3
  <2> QED  BY <2>1, <2>2
<1>12. BlockedInv'
  BY <1>11 DEF BlockedInv
<1> QED  BY <1>3, <1>4, <1>7, <1>12 DEF p

\* A process dies.
LEMMA BuryPlaces ==
    ASSUME TypeOK, PlaceInv, NEW p \in Live, free' = free \cup {p}, UNCHANGED pcb,
           \/ p \in Unblocked /\ UNCHANGED blocked
           \/ \E s \in Sem : /\ p \in BlockedOn(s)
                             /\ blocked' = [blocked EXCEPT ![s] = Without(@, p)]
    PROVE  Unblocked' = Unblocked \ {p} /\ BlockedInv'
<1>1. Live' = Live \ {p}
  BY DEF Live
<1>2. Unblocked' = Unblocked \ {p}
  BY <1>1 DEF Unblocked
<1>3. \A t \in Sem : BlockedOn(t)' = BlockedOn(t) \ {p}
  BY <1>1 DEF BlockedOn
<1>4. CASE p \in Unblocked /\ UNCHANGED blocked
  <2>1. \A t \in Sem : p \notin BlockedOn(t)
    BY <1>4, PlaceFacts
  <2> QED  BY <2>1, <1>2, <1>3, <1>4 DEF BlockedInv, PlaceInv
<1>5. ASSUME NEW s \in Sem, p \in BlockedOn(s),
             blocked' = [blocked EXCEPT ![s] = Without(@, p)]
      PROVE  BlockedInv'
  <2>1. blocked[s] \in Seq(Proc) /\ IsInjective(blocked[s]) /\ ToSet(blocked[s]) = BlockedOn(s)
    BY PlaceFacts
  <2>2. IsInjective(Without(blocked[s], p)) /\ ToSet(Without(blocked[s], p)) = BlockedOn(s) \ {p}
    BY <1>5, <2>1, WithoutQueue
  <2>3. \A t \in Sem : t # s => p \notin BlockedOn(t)
    BY <1>5 DEF BlockedOn
  <2>4. /\ blocked'[s] = Without(blocked[s], p)
        /\ \A t \in Sem : t # s => blocked'[t] = blocked[t]
    BY <1>5 DEF TypeOK
  <2>5. ASSUME NEW t \in Sem
        PROVE  IsInjective(blocked'[t]) /\ ToSet(blocked'[t]) = BlockedOn(t)'
    <3>1. CASE t = s
      <4>1. IsInjective(blocked'[s]) /\ ToSet(blocked'[s]) = BlockedOn(s) \ {p}
        BY <2>2, <2>4
      <4>2. BlockedOn(t)' = BlockedOn(t) \ {p}
        BY <1>3
      <4> QED  BY <3>1, <4>1, <4>2
    <3>2. CASE t # s
      <4>1. IsInjective(blocked[t]) /\ ToSet(blocked[t]) = BlockedOn(t)
        BY PlaceFacts
      <4>2. blocked'[t] = blocked[t] /\ BlockedOn(t) = BlockedOn(t) \ {p}
        BY <3>2, <2>3, <2>4
      <4>3. BlockedOn(t)' = BlockedOn(t) \ {p}
        BY <1>3
      <4> QED  BY <4>1, <4>2, <4>3
    <3> QED  BY <3>1, <3>2
  <2> QED  BY <2>5 DEF BlockedInv
<1> QED  BY <1>2, <1>4, <1>5

\* The current process is blocked.
LEMMA BlockPlaces ==
    ASSUME TypeOK, PlaceInv, UNCHANGED free, currentProc \in Unblocked,
           NEW s \in Sem, blocked' = [blocked EXCEPT ![s] = InsertProcQ(@, currentProc)],
           pcb'[currentProc].p_semAdd = s,
           \A p \in Live \ {currentProc} : pcb'[p].p_semAdd = pcb[p].p_semAdd
    PROVE  Unblocked' = Unblocked \ {currentProc} /\ BlockedInv'
<1> DEFINE c == currentProc
<1>1. Live' = Live /\ c \in Live /\ c \in Proc /\ pcb[c].p_semAdd \notin Sem
  BY DEF Live, Unblocked
<1>2. Unblocked' = Unblocked \ {c}
  BY <1>1 DEF Unblocked
<1>3. /\ BlockedOn(s)' = BlockedOn(s) \cup {c} /\ c \notin BlockedOn(s)
      /\ \A t \in Sem : t # s => BlockedOn(t)' = BlockedOn(t)
  BY <1>1 DEF BlockedOn
<1>4. blocked[s] \in Seq(Proc) /\ IsInjective(blocked[s]) /\ ToSet(blocked[s]) = BlockedOn(s)
  BY PlaceFacts
<1>5. /\ IsInjective(InsertProcQ(blocked[s], c))
      /\ ToSet(InsertProcQ(blocked[s], c)) = BlockedOn(s) \cup {c}
  <2>1. c \in Proc /\ c \notin ToSet(blocked[s])
    BY <1>1, <1>3, <1>4
  <2>2. ASSUME NEW q \in Seq(Proc), NEW p \in Proc, IsInjective(q), p \notin ToSet(q)
        PROVE  /\ IsInjective(InsertProcQ(q, p))
               /\ ToSet(InsertProcQ(q, p)) = ToSet(q) \cup {p}
    BY <2>2, InsertQueue
  <2>3. /\ IsInjective(InsertProcQ(blocked[s], c))
        /\ ToSet(InsertProcQ(blocked[s], c)) = ToSet(blocked[s]) \cup {c}
    BY <1>4, <2>1, <2>2
  <2> QED  BY <1>4, <2>3
<1>6. /\ blocked'[s] = InsertProcQ(blocked[s], c)
      /\ \A t \in Sem : t # s => blocked'[t] = blocked[t]
  BY DEF TypeOK
<1>7. ASSUME NEW t \in Sem
      PROVE  IsInjective(blocked'[t]) /\ ToSet(blocked'[t]) = BlockedOn(t)'
  <2>1. CASE t = s
    <3>1. IsInjective(blocked'[s]) /\ ToSet(blocked'[s]) = BlockedOn(s) \cup {c}
      BY <1>5, <1>6
    <3>2. BlockedOn(t)' = BlockedOn(t) \cup {c}
      BY <2>1, <1>1 DEF BlockedOn
    <3> QED  BY <2>1, <3>1, <3>2
  <2>2. CASE t # s
    <3>1. IsInjective(blocked[t]) /\ ToSet(blocked[t]) = BlockedOn(t)
      BY PlaceFacts
    <3>2. blocked'[t] = blocked[t] /\ BlockedOn(t)' = BlockedOn(t)
      BY <2>2, <1>3, <1>6
    <3> QED  BY <3>1, <3>2
  <2> QED  BY <2>1, <2>2
<1> QED  BY <1>2, <1>7 DEF BlockedInv

\* A process is made.
LEMMA CreatePlaces ==
    ASSUME TypeOK, PlaceInv, NEW c \in free, free' = free \ {c}, UNCHANGED blocked,
           pcb'[c].p_semAdd \notin Sem,
           \A p \in Live : \/ pcb'[p].p_semAdd = pcb[p].p_semAdd
                           \/ pcb'[p].p_semAdd \notin Sem /\ pcb[p].p_semAdd \notin Sem
    PROVE  /\ Unblocked' = Unblocked \cup {c} /\ c \notin Unblocked /\ c \in Proc
           /\ BlockedInv'
<1>1. c \in Proc /\ Live' = Live \cup {c} /\ c \notin Live
  BY DEF Live, TypeOK
<1>2. Unblocked' = Unblocked \cup {c} /\ c \notin Unblocked
  BY <1>1 DEF Unblocked
<1>3. \A s \in Sem : BlockedOn(s)' = BlockedOn(s)
  BY <1>1 DEF BlockedOn
<1> QED  BY <1>1, <1>2, <1>3 DEF BlockedInv, PlaceInv

\* The pseudo-clock wakes all who wait for it, or nobody.
LEMMA TickPlaces ==
    ASSUME TypeOK, PlaceInv, UNCHANGED free,
           blocked' = [blocked EXCEPT ![ClockSem] = IF TickWakes = <<>> THEN @ ELSE <<>>],
           \A p \in ToSet(TickWakes) : pcb'[p].p_semAdd \notin Sem,
           \A p \in Live \ ToSet(TickWakes) :
               \/ pcb'[p].p_semAdd = pcb[p].p_semAdd
               \/ pcb'[p].p_semAdd \notin Sem /\ pcb[p].p_semAdd \notin Sem
    PROVE  /\ TickWakes \in Seq(Proc) /\ IsInjective(TickWakes)
           /\ ToSet(TickWakes) \cap Unblocked = {}
           /\ Unblocked' = Unblocked \cup ToSet(TickWakes)
           /\ BlockedInv'
<1> DEFINE w == TickWakes
<1>0. ClockSem \in Sem
  BY ClockSemType
<1>1. /\ blocked[ClockSem] \in Seq(Proc) /\ IsInjective(blocked[ClockSem])
      /\ ToSet(blocked[ClockSem]) = BlockedOn(ClockSem)
      /\ BlockedOn(ClockSem) \subseteq Live /\ BlockedOn(ClockSem) \cap Unblocked = {}
  BY <1>0, PlaceFacts
<1>2. CASE w = <<>>
  <2>1. /\ w \in Seq(Proc) /\ IsInjective(w) /\ ToSet(w) = {}
    BY <1>2, EmptySeq DEF ToSet, IsInjective
  <2>2. blocked' = blocked
    BY <1>2, <1>0 DEF TypeOK
  <2>3. Unblocked' = Unblocked /\ BlockedInv'
    BY <2>1, <2>2, SamePlaces
  <2> QED  BY <2>1, <2>3
<1>3. CASE w # <<>>
  <2>1. w = blocked[ClockSem]
    BY <1>3 DEF TickWakes
  <2>2. Live' = Live /\ Live \subseteq Proc
    BY DEF Live
  <2> HIDE DEF w
  <2>3. ToSet(w) = BlockedOn(ClockSem) /\ w \in Seq(Proc) /\ IsInjective(w)
    BY <1>1, <2>1
  <2>4. /\ \A p \in ToSet(w) : pcb'[p].p_semAdd \notin Sem
        /\ \A p \in Live \ ToSet(w) :
               \/ pcb'[p].p_semAdd = pcb[p].p_semAdd
               \/ pcb'[p].p_semAdd \notin Sem /\ pcb[p].p_semAdd \notin Sem
    BY DEF w
  <2>5. Unblocked' = Unblocked \cup ToSet(w)
    BY <1>0, <1>1, <2>2, <2>3, <2>4 DEF Unblocked
  <2>6. ASSUME NEW t \in Sem
        PROVE  IsInjective(blocked'[t]) /\ ToSet(blocked'[t]) = BlockedOn(t)'
    <3>1. CASE t = ClockSem
      <4>1. blocked'[t] = <<>>
        BY <3>1, <1>0, <1>3 DEF TypeOK, w
      <4>2. BlockedOn(t)' = {}
        BY <3>1, <2>2, <2>3, <2>4 DEF BlockedOn
      <4> QED  BY <4>1, <4>2 DEF ToSet, IsInjective
    <3>2. CASE t # ClockSem
      <4>1. blocked'[t] = blocked[t]
        BY <3>2 DEF TypeOK
      <4>2. BlockedOn(t)' = BlockedOn(t)
        BY <3>2, <2>2, <2>3, <2>4 DEF BlockedOn
      <4>3. IsInjective(blocked[t]) /\ ToSet(blocked[t]) = BlockedOn(t)
        BY PlaceFacts
      <4> QED  BY <4>1, <4>2, <4>3
    <3> QED  BY <3>1, <3>2
  <2>7. BlockedInv'
    BY <2>6 DEF BlockedInv
  <2> QED  BY <1>1, <2>3, <2>5, <2>7 DEF w
<1> QED  BY <1>2, <1>3

-----------------------------------------------------------------------------
(***************************************************************************)
(* PlaceInv, one action at a time.                                         *)
(***************************************************************************)

\* The scheduler: a pcb goes from a ready queue to the processor, or back.
LEMMA SchedulePlaces ==
    ASSUME TypeOK, PlaceInv, Schedule, kpc' # "astray" PROVE PlaceInv'
<1>1. kpc = "schedule" /\ Active = {} /\ ~ScheduleAstray
  BY DEF Schedule, Dispatch, Recharge, NothingReady, ScheduleAstray, GoAstray, Active
<1>2. Holds(mlpq, Unblocked) /\ mlpq \in [0 .. 2 -> Seq(Proc)]
  BY <1>1, PlaceFacts
<1>3. ASSUME NonEmpty # {}, ReadySound(NextQueue)
      PROVE  /\ NextProc \in Unblocked /\ NextProc \in Proc /\ NextProc # NULL
             /\ Holds(AfterNextProc, Unblocked \ {NextProc})
             /\ AfterNextProc \in [0 .. 2 -> Seq(Proc)]
  BY <1>2, <1>3, HoldsNext, NextProcType, ProcAssumption
<1>4. CASE Dispatch
  <2>1. /\ mlpq' = AfterNextProc /\ currentProc' = NextProc /\ kpc' = "run"
        /\ NonEmpty # {} /\ ReadySound(NextQueue) /\ UNCHANGED <<free, blocked, pcb>>
    BY <1>4 DEF Dispatch, tree
  <2>2. Unblocked' = Unblocked /\ BlockedInv'
    BY <2>1, SamePlaces
  <2>3. Active' = {NextProc}
    BY <1>3, <2>1 DEF Active
  <2>4. ReadyInv'
    BY <1>3, <2>1, <2>2, <2>3 DEF ReadyInv
  <2>5. ControlInv'
    BY <1>3, <2>1, <2>2, <2>3 DEF ControlInv
  <2> QED  BY <2>2, <2>4, <2>5 DEF PlaceInv
<1>5. CASE Recharge
  <2>1. /\ mlpq' = PutInQ(AfterNextProc, NextProc, pcb[NextProc], FALSE)
        /\ kpc' = "schedule" /\ NonEmpty # {} /\ ReadySound(NextQueue)
        /\ UNCHANGED <<free, blocked>>
        /\ pcb' = [pcb EXCEPT ![NextProc].timeLeft = QUANTUM]
    BY <1>1, <1>5 DEF Recharge, tree
  <2>2. \A p \in Live : pcb'[p].p_semAdd = pcb[p].p_semAdd
    <3>1. ASSUME NEW p \in Proc PROVE pcb'[p].p_semAdd = pcb[p].p_semAdd
      <4>1. CASE p = NextProc
        <5>1. pcb'[p] = [pcb[p] EXCEPT !.timeLeft = QUANTUM] /\ pcb[p] \in PcbFields
          BY <4>1, <2>1 DEF TypeOK
        <5> QED  BY <5>1, FieldUpdateType
      <4>2. CASE p # NextProc
        BY <4>2, <2>1 DEF TypeOK
      <4> QED  BY <4>1, <4>2
    <3> QED  BY <3>1 DEF Live
  <2>3. Unblocked' = Unblocked /\ BlockedInv'
    BY <2>1, <2>2, SamePlaces
  <2>4. Active' = {}
    BY <2>1 DEF Active
  <2>5. Holds(mlpq', (Unblocked \ {NextProc}) \cup {NextProc})
    BY <1>3, <2>1, HoldsPut
  <2>6. (Unblocked \ {NextProc}) \cup {NextProc} = Unblocked' \ Active'
    BY <1>3, <2>1, <2>3, <2>4
  <2>7. ReadyInv'
    BY <2>5, <2>6 DEF ReadyInv
  <2>8. ControlInv'
    BY <2>1, <2>4 DEF ControlInv
  <2> QED  BY <2>3, <2>7, <2>8 DEF PlaceInv
<1>6. CASE NothingReady
  <2>1. /\ kpc' \in {"halted", "deadlock", "wait"} /\ currentProc' = NULL
        /\ UNCHANGED <<mlpq, free, blocked, pcb>>
    BY <1>6 DEF NothingReady, IdleState, ready, tree
  <2>2. Unblocked' = Unblocked /\ BlockedInv'
    BY <2>1, SamePlaces
  <2>3. Active' = {}
    BY <2>1 DEF Active
  <2>4. ReadyInv'
    BY <1>2, <2>1, <2>2, <2>3 DEF ReadyInv
  <2>5. ControlInv'
    BY <2>1, <2>3 DEF ControlInv
  <2> QED  BY <2>2, <2>4, <2>5 DEF PlaceInv
<1> QED  BY <1>1, <1>4, <1>5, <1>6 DEF Schedule

-----------------------------------------------------------------------------
\* A process runs: it is in no queue.
LEMMA RunningFacts ==
    ASSUME TypeOK, PlaceInv, kpc \in {"run", "terminate"}
    PROVE  /\ currentProc \in Proc /\ currentProc # NULL
           /\ Active = {currentProc} /\ currentProc \in Unblocked
           /\ currentProc \in Live
           /\ Holds(mlpq, Unblocked \ {currentProc})
<1>1. currentProc \in Proc /\ currentProc # NULL
  BY CurrentType DEF PlaceInv
<1>2. Active = {currentProc}
  BY <1>1 DEF Active
<1> QED  BY <1>1, <1>2, PlaceFacts

\* A step that moves no pcb.
LEMMA PlacesStay ==
    ASSUME TypeOK, PlaceInv, UNCHANGED <<free, blocked, mlpq>>, Active' = Active,
           kpc' \in {"run", "terminate"} => currentProc' # NULL,
           kpc' = "wait" => currentProc' = NULL,
           \A p \in Live : \/ pcb'[p].p_semAdd = pcb[p].p_semAdd
                           \/ pcb'[p].p_semAdd \notin Sem /\ pcb[p].p_semAdd \notin Sem
    PROVE  PlaceInv'
<1>1. Unblocked' = Unblocked /\ BlockedInv'
  BY SamePlaces
<1>2. ReadyInv'
  BY <1>1 DEF ReadyInv, PlaceInv
<1>3. ControlInv'
  BY <1>1, PlaceFacts DEF ControlInv
<1> QED  BY <1>1, <1>2, <1>3 DEF PlaceInv

\* The nucleus is led astray while it serves a process, or the wait for one.
LEMMA AstrayPlaces ==
    ASSUME TypeOK, PlaceInv, GoAstray, kpc \in {"run", "wait"} PROVE PlaceInv'
<1>1. UNCHANGED <<free, blocked, mlpq, currentProc, pcb>> /\ kpc' = "astray"
  BY DEF GoAstray, ready, tree
<1>2. Active' = Active
  BY <1>1 DEF Active, PlaceInv, ControlInv
<1> QED  BY <1>1, <1>2, PlacesStay

\* moveState only changes the p_semAdd of a process that is not blocked.
LEMMA SavedPlaces ==
    ASSUME TypeOK, PlaceInv, currentProc \in Unblocked
    PROVE  /\ Saved \in [Proc -> PcbFields]
           /\ Saved[currentProc].p_semAdd \notin Sem
           /\ \A p \in Live : \/ Saved[p].p_semAdd = pcb[p].p_semAdd
                              \/ Saved[p].p_semAdd \notin Sem /\ pcb[p].p_semAdd \notin Sem
<1>1. currentProc \in Proc /\ pcb \in [Proc -> PcbFields] /\ Live \subseteq Proc
  BY DEF Unblocked, Live, TypeOK
<1>2. /\ Saved \in [Proc -> PcbFields] /\ Saved[currentProc].p_semAdd = NewAreaAsid
      /\ \A p \in Proc : p # currentProc => Saved[p] = pcb[p]
  BY <1>1, SavedType
<1>3. Saved[currentProc].p_semAdd \notin Sem /\ pcb[currentProc].p_semAdd \notin Sem
  BY <1>2, NoSemaphore DEF Unblocked
<1>4. ASSUME NEW p \in Live
      PROVE  \/ Saved[p].p_semAdd = pcb[p].p_semAdd
             \/ Saved[p].p_semAdd \notin Sem /\ pcb[p].p_semAdd \notin Sem
  <2>1. CASE p = currentProc
    BY <2>1, <1>3
  <2>2. CASE p # currentProc
    BY <2>2, <1>1, <1>2
  <2> QED  BY <2>1, <2>2
<1> QED  BY <1>2, <1>3, <1>4

\* A handler resumes the process.
LEMMA ResumePlaces ==
    ASSUME TypeOK, PlaceInv, NEW saved, Resume(saved),
           \A p \in Live : \/ saved[p].p_semAdd = pcb[p].p_semAdd
                           \/ saved[p].p_semAdd \notin Sem /\ pcb[p].p_semAdd \notin Sem
    PROVE  PlaceInv'
<1>1. UNCHANGED <<free, blocked, mlpq, kpc, currentProc>> /\ pcb' = saved
  BY DEF Resume, ready, tree
<1>2. Active' = Active
  BY <1>1 DEF Active
<1>3. /\ kpc \in {"run", "terminate"} => currentProc # NULL
      /\ kpc = "wait" => currentProc = NULL
  BY DEF PlaceInv, ControlInv
<1> QED  BY <1>1, <1>2, <1>3, PlacesStay

\* A handler calls sys2.
LEMMA CallSys2Places ==
    ASSUME TypeOK, PlaceInv, NEW saved, CallSys2(saved), Active = {currentProc},
           currentProc # NULL,
           \A p \in Live : \/ saved[p].p_semAdd = pcb[p].p_semAdd
                           \/ saved[p].p_semAdd \notin Sem /\ pcb[p].p_semAdd \notin Sem
    PROVE  PlaceInv'
<1>1. UNCHANGED <<free, blocked, mlpq, currentProc>> /\ pcb' = saved /\ kpc' = "terminate"
  BY DEF CallSys2, ready, tree
<1>2. Active' = Active
  BY <1>1 DEF Active
<1> QED  BY <1>1, <1>2, PlacesStay

-----------------------------------------------------------------------------
\* sys2, one step at a time.  Whom it buries is the only process to leave its
\* place.
LEMMA TakeChildPlaces ==
    ASSUME TypeOK, PlaceInv, TakeChild PROVE PlaceInv'
<1>1. /\ UNCHANGED <<free, blocked, mlpq, kpc, currentProc, pcb>>
      /\ kpc = "terminate"
  BY DEF TakeChild, ready
<1>2. Active' = Active
  BY <1>1 DEF Active
<1> QED  BY <1>1, <1>2, RunningFacts, PlacesStay

\* A queue operation that does not come back has moved nobody.
LEMMA GoesWrongPlaces ==
    ASSUME TypeOK, PlaceInv, kpc = "terminate", NEW outcome \in {"trap", "hang", "astray"},
           GoesWrong(outcome), UNCHANGED <<currentProc, pcb>>
    PROVE  PlaceInv'
<1>1. /\ UNCHANGED <<free, blocked, mlpq>> /\ kpc' \in {"hung", "astray", "trap"}
  BY DEF GoesWrong, ready, tree
<1>2. Active' = Active
  BY <1>1 DEF Active
<1> QED  BY <1>1, <1>2, PlacesStay

\* The process that called SYS2 leaves the processor.
LEMMA RetireCurrentPlaces ==
    ASSUME TypeOK, PlaceInv, FamilyInv, RetireCurrent PROVE PlaceInv'
<1>1. /\ kpc = "terminate" /\ Doomed = currentProc /\ Bury(Doomed)
      /\ UNCHANGED <<currentProc, mlpq, blocked, pcb>>
  BY DEF RetireCurrent, ready
<1>2. /\ currentProc \in Unblocked /\ currentProc \in Live
      /\ Holds(mlpq, Unblocked \ {currentProc})
  BY <1>1, RunningFacts
<1>3. Len(dying) = 1
  BY <1>1, DyingFacts DEF Doomed
<1>4. kpc' = "schedule" /\ free' = free \cup {currentProc}
  BY <1>1, <1>3 DEF Bury
<1>5. Unblocked' = Unblocked \ {currentProc} /\ BlockedInv'
  BY <1>1, <1>2, <1>4, BuryPlaces
<1>6. Active' = {}
  BY <1>4 DEF Active
<1>7. ReadyInv'
  BY <1>1, <1>2, <1>5, <1>6 DEF ReadyInv
<1>8. ControlInv'
  BY <1>4, <1>6 DEF ControlInv
<1> QED  BY <1>5, <1>7, <1>8 DEF PlaceInv

\* A process that sys2 takes for a ready one is in a ready queue, reached from
\* its tail or not.
LEMMA DoomedIsReady ==
    ASSUME TypeOK, PlaceInv, FamilyInv, kpc = "terminate", Doomed # currentProc,
           pcb[Doomed].p_semAdd = NULL
    PROVE  Doomed \in Unblocked \ {currentProc}
BY DyingFacts, NoSemaphore DEF Unblocked

\* A ready process leaves its ready queue.
LEMMA RetireReadyPlaces ==
    ASSUME TypeOK, PlaceInv, FamilyInv, RetireReady PROVE PlaceInv'
<1> DEFINE d == Doomed
           outcome == OutAt(mlpq[FoundAt], stray.ready[FoundAt])
<1>1. /\ kpc = "terminate" /\ d # currentProc /\ pcb[d].p_semAdd = NULL
      /\ UNCHANGED <<currentProc, pcb>>
  BY DEF RetireReady
<1>2. /\ d \in Unblocked \ {currentProc}
      /\ Holds(mlpq, Unblocked \ {currentProc}) /\ currentProc \in Unblocked
      /\ currentProc # NULL /\ mlpq \in [0 .. 2 -> Seq(Proc)]
  BY <1>1, DoomedIsReady, RunningFacts DEF TypeOK
<1>3. CASE outcome \in Returns
  <2>1. /\ mlpq' = [i \in 0 .. 2 |-> Leave(mlpq[i])]
        /\ Bury(d) /\ UNCHANGED blocked
    BY <1>3 DEF RetireReady
  <2>2. Len(dying) # 1
    BY <1>1, DyingFacts DEF Doomed
  <2>3. kpc' = "terminate" /\ free' = free \cup {d}
    BY <1>1, <2>1, <2>2 DEF Bury
  <2>4. Unblocked' = Unblocked \ {d} /\ BlockedInv'
    <3>1. d \in Live
      BY <1>2 DEF Unblocked
    <3> QED  BY <1>1, <1>2, <2>1, <2>3, <3>1, BuryPlaces
  <2>5. Active' = {currentProc}
    BY <1>1, <1>2, <2>3 DEF Active
  <2>6. Holds(mlpq', (Unblocked \ {currentProc}) \ {d})
    BY <1>2, <2>1, HoldsLeave
  <2>7. (Unblocked \ {currentProc}) \ {d} = Unblocked' \ Active'
    BY <2>4, <2>5
  <2>8. ReadyInv'
    BY <2>6, <2>7 DEF ReadyInv
  <2>9. ControlInv'
    BY <1>1, <1>2, <2>3, <2>4, <2>5 DEF ControlInv
  <2> QED  BY <2>4, <2>8, <2>9 DEF PlaceInv
<1>4. CASE outcome \notin Returns
  <2>1. GoesWrong(outcome)
    BY <1>4 DEF RetireReady
  <2>2. mlpq[FoundAt] \in Seq(Proc)
    BY FoundAtRange DEF TypeOK
  <2>3. outcome \in {"trap", "hang", "astray"}
    BY <1>4, <2>2, OutAtOutcome
  <2> QED  BY <1>1, <2>1, <2>3, GoesWrongPlaces
<1> QED  BY <1>3, <1>4

\* A blocked process leaves the queue of its semaphore.
LEMMA RetireBlockedPlaces ==
    ASSUME TypeOK, PlaceInv, FamilyInv, RetireBlocked PROVE PlaceInv'
<1> DEFINE d == Doomed
           s == pcb[d].p_semAdd
           outcome == IF s \notin Sem THEN "trap"
                      ELSE IF ~HasSemd(s) THEN "absent"
                      ELSE OutAt(blocked[s], stray.blocked[s])
<1>1. /\ kpc = "terminate" /\ d # currentProc /\ UNCHANGED <<currentProc, pcb>>
  BY DEF RetireBlocked
<1>2. /\ d \in Live
      /\ Holds(mlpq, Unblocked \ {currentProc}) /\ currentProc \in Unblocked
      /\ currentProc # NULL /\ mlpq \in [0 .. 2 -> Seq(Proc)]
  BY <1>1, DyingFacts, RunningFacts DEF TypeOK
<1>3. CASE outcome \in Returns
  <2>1. /\ Bury(d) /\ UNCHANGED mlpq
        /\ blocked' = [blocked EXCEPT ![s] = Leave(@)]
    BY <1>3 DEF RetireBlocked
  <2>2. s \in Sem
    BY <1>3 DEF Returns
  <2>3. d \in BlockedOn(s) /\ d \notin Unblocked
    BY <1>2, <2>2 DEF BlockedOn, Unblocked
  <2>4. d \in ToSet(blocked[s])
    BY <2>2, <2>3, PlaceFacts
  <2>5. blocked' = [blocked EXCEPT ![s] = Without(@, d)]
    BY <2>1, <2>4 DEF Leave
  <2>6. Len(dying) # 1
    BY <1>1, DyingFacts DEF Doomed
  <2>7. kpc' = "terminate" /\ free' = free \cup {d}
    BY <1>1, <2>1, <2>6 DEF Bury
  <2>8. Unblocked' = Unblocked \ {d} /\ BlockedInv'
    BY <1>1, <1>2, <2>2, <2>3, <2>5, <2>7, BuryPlaces
  <2>9. Active' = {currentProc}
    BY <1>1, <1>2, <2>7 DEF Active
  <2>10. Unblocked' \ Active' = Unblocked \ {currentProc}
    BY <2>3, <2>8, <2>9
  <2>11. ReadyInv'
    BY <1>2, <2>1, <2>10 DEF ReadyInv
  <2>12. ControlInv'
    BY <1>1, <1>2, <2>3, <2>7, <2>8, <2>9 DEF ControlInv
  <2> QED  BY <2>8, <2>11, <2>12 DEF PlaceInv
<1>4. CASE outcome \notin Returns
  <2>1. GoesWrong(outcome)
    BY <1>4 DEF RetireBlocked
  <2>2. outcome \in {"trap", "hang", "astray"}
    BY <1>4, SeekOutcome
  <2> QED  BY <1>1, <2>1, <2>2, GoesWrongPlaces
<1> QED  BY <1>3, <1>4

\* A trap of the nucleus leaves all pcbs where they are.
LEMMA NestedTrapPlaces ==
    ASSUME TypeOK, PlaceInv, NestedTrap PROVE PlaceInv'
<1>0. kpc = "trap" /\ Active = {currentProc} \ {NULL}
  BY DEF NestedTrap, Active
<1>1. CASE currentProc # NULL /\ CallSys2(pcb)
  BY <1>0, <1>1, CallSys2Places
<1>2. CASE UNCHANGED <<currentProc, ready, pcb, tree>> /\ kpc' \in {"hung", "run"}
           /\ (kpc' = "run" => currentProc # NULL)
  <2>1. Active' = Active
    BY <1>0, <1>2 DEF Active
  <2> QED  BY <2>1, <1>2, PlacesStay DEF ready, tree
<1> QED  BY <1>1, <1>2 DEF NestedTrap

-----------------------------------------------------------------------------
\* SYS1: a pcb goes from the free list to a ready queue.
LEMMA CreateProcessPlaces ==
    ASSUME TypeOK, PlaceInv, CreateProcess PROVE PlaceInv'
<1>1. /\ kpc = "run" /\ UNCHANGED <<kpc, currentProc, blocked>>
  BY DEF CreateProcess, Running
<1>2. PICK c \in free : /\ pcb' = [Saved EXCEPT ![c] = FreshPcb]
                        /\ mlpq' = PutInQ(mlpq, c, FreshPcb, FALSE)
                        /\ free' = free \ {c}
  BY DEF CreateProcess
<1>3. /\ currentProc \in Unblocked /\ currentProc \in Live /\ currentProc # NULL
      /\ Holds(mlpq, Unblocked \ {currentProc}) /\ mlpq \in [0 .. 2 -> Seq(Proc)]
  BY <1>1, RunningFacts DEF TypeOK
<1>4. c \in Proc /\ c \notin Live /\ c # currentProc
  BY <1>3 DEF Live, TypeOK
<1>5. pcb'[c] = FreshPcb /\ \A p \in Live : pcb'[p] = Saved[p]
  BY <1>2, <1>3, <1>4, SavedPlaces DEF Live
<1>6. pcb'[c].p_semAdd \notin Sem
  BY <1>5, NoSemaphore DEF FreshPcb
<1>7. /\ Unblocked' = Unblocked \cup {c} /\ c \notin Unblocked /\ c \in Proc
      /\ BlockedInv'
  BY <1>1, <1>2, <1>3, <1>5, <1>6, SavedPlaces, CreatePlaces
<1>8. Active' = {currentProc}
  BY <1>1, <1>3 DEF Active
<1>9. Holds(mlpq', (Unblocked \ {currentProc}) \cup {c})
  BY <1>2, <1>3, <1>7, HoldsPut
<1>10. (Unblocked \ {currentProc}) \cup {c} = Unblocked' \ Active'
  BY <1>4, <1>7, <1>8
<1>11. ReadyInv'
  BY <1>9, <1>10 DEF ReadyInv
<1>12. ControlInv'
  BY <1>1, <1>3, <1>7, <1>8 DEF ControlInv
<1> QED  BY <1>7, <1>11, <1>12 DEF PlaceInv

\* SYS3: a pcb goes from the queue of the semaphore to a ready queue.
LEMMA VerhogenPlaces ==
    ASSUME TypeOK, PlaceInv, NEW s \in UserSem, Verhogen(s) PROVE PlaceInv'
<1>1. /\ kpc = "run" /\ UNCHANGED <<currentProc, free>> /\ s \in Sem
  BY DEF Verhogen, Running, tree, Sem
<1>2. /\ currentProc \in Unblocked /\ currentProc \in Proc /\ currentProc # NULL
      /\ Holds(mlpq, Unblocked \ {currentProc}) /\ mlpq \in [0 .. 2 -> Seq(Proc)]
      /\ Active = {currentProc}
  BY <1>1, RunningFacts DEF TypeOK
<1>3. CASE SomeoneWaits(semVal[s] + 1) /\ blocked[s] # <<>>
  <2> DEFINE p == Head(blocked[s])
  <2>1. /\ blocked' = [blocked EXCEPT ![s] = Tail(@)]
        /\ pcb' = [Saved EXCEPT ![p].p_semAdd = NULL]
        /\ mlpq' = PutInQ(mlpq, p, pcb[p], FALSE)
        /\ kpc' = "run"
    BY <1>1, <1>3 DEF Verhogen
  <2>2. /\ p \in Proc /\ p \notin Unblocked
    <3>1. /\ blocked[s] \in Seq(Proc) /\ ToSet(blocked[s]) = BlockedOn(s)
          /\ BlockedOn(s) \cap Unblocked = {}
      BY <1>1, PlaceFacts
    <3> QED  BY <1>3, <3>1, RemoveQueue
  <2>3. Saved \in [Proc -> PcbFields]
    BY <1>2, SavedPlaces
  <2>4. pcb'[p].p_semAdd \notin Sem
    <3>1. pcb'[p] = [Saved[p] EXCEPT !.p_semAdd = NULL] /\ Saved[p] \in PcbFields
      BY <2>1, <2>2, <2>3
    <3>2. pcb'[p].p_semAdd = NULL
      BY <3>1 DEF PcbFields
    <3> QED  BY <3>2, NoSemaphore
  <2>5. \A q \in Live \ {p} : pcb'[q] = Saved[q]
    BY <2>1, <2>2, <2>3 DEF Live
  <2>6. /\ Unblocked' = Unblocked \cup {p} /\ BlockedInv'
    BY <1>1, <1>2, <1>3, <2>1, <2>4, <2>5, SavedPlaces, WakePlaces
  <2>7. Active' = {currentProc}
    BY <1>1, <1>2, <2>1 DEF Active
  <2>8. Holds(mlpq', (Unblocked \ {currentProc}) \cup {p})
    BY <1>2, <2>1, <2>2, HoldsPut
  <2>9. (Unblocked \ {currentProc}) \cup {p} = Unblocked' \ Active'
    BY <1>2, <2>2, <2>6, <2>7
  <2>10. ReadyInv'
    BY <2>8, <2>9 DEF ReadyInv
  <2>11. ControlInv'
    BY <1>1, <1>2, <2>1, <2>6, <2>7 DEF ControlInv
  <2> QED  BY <2>6, <2>10, <2>11 DEF PlaceInv
<1>4. CASE ~(SomeoneWaits(semVal[s] + 1) /\ blocked[s] # <<>>)
  <2>1. UNCHANGED <<blocked, mlpq>> /\ pcb' = Saved /\ kpc' \in {"run", "trap"}
    BY <1>1, <1>4 DEF Verhogen
  <2>2. Active' = Active
    BY <1>1, <1>2, <2>1 DEF Active
  <2> QED  BY <1>1, <1>2, <2>1, <2>2, SavedPlaces, PlacesStay
<1> QED  BY <1>3, <1>4

\* The P of SYS4, SYS7 and SYS8: the current process goes from the processor
\* to the queue of the semaphore, or stays.
LEMMA PPlaces ==
    ASSUME TypeOK, PlaceInv, kpc = "run", NEW s \in Sem,
           NEW soft \in BOOLEAN, NEW toTotal \in BOOLEAN, P(s, soft, toTotal)
    PROVE  PlaceInv'
<1> DEFINE c == currentProc
<1>1. UNCHANGED <<mlpq, free>>
  BY DEF P, tree
<1>2. /\ c \in Unblocked /\ c \in Proc /\ c # NULL
      /\ Holds(mlpq, Unblocked \ {c}) /\ Active = {c}
      /\ Saved \in [Proc -> PcbFields]
  BY RunningFacts, SavedPlaces
<1>3. CASE semVal[s] - 1 >= 0
  <2>1. pcb' = Saved /\ UNCHANGED <<kpc, currentProc, blocked>>
    BY <1>3 DEF P
  <2>2. Active' = Active
    BY <2>1 DEF Active
  <2> QED  BY <1>1, <1>2, <2>1, <2>2, SavedPlaces, PlacesStay
<1>4. CASE ~(semVal[s] - 1 >= 0)
  <2>1. PICK time \in Elapsed :
          IF NoSemd(s)
          THEN /\ kpc' = "panic"
               /\ pcb' = [Saved EXCEPT ![c] = Charge(@, time, toTotal)]
               /\ UNCHANGED <<currentProc, blocked>>
          ELSE /\ pcb' = [Saved EXCEPT ![c] =
                             [Charge(@, time, toTotal) EXCEPT !.p_semAdd = s]]
               /\ blocked' = [blocked EXCEPT ![s] = InsertProcQ(@, c)]
               /\ currentProc' = NULL
               /\ kpc' = "schedule"
    BY <1>4 DEF P
  <2>2. /\ Charge(Saved[c], time, toTotal) \in PcbFields
        /\ Charge(Saved[c], time, toTotal).p_semAdd = Saved[c].p_semAdd
    BY <1>2, ChargeType
  <2>3. \A q \in Live \ {c} : Saved[q] = pcb[q]
    BY <1>2, SavedType DEF TypeOK, Live
  <2>4. CASE NoSemd(s)
    <3>1. /\ kpc' = "panic" /\ UNCHANGED <<currentProc, blocked>>
          /\ pcb' = [Saved EXCEPT ![c] = Charge(@, time, toTotal)]
      BY <2>1, <2>4
    <3>2. /\ pcb'[c].p_semAdd = Saved[c].p_semAdd
          /\ \A q \in Live \ {c} : pcb'[q] = pcb[q]
      <4>1. pcb'[c] = Charge(Saved[c], time, toTotal)
        BY <1>2, <3>1
      <4>2. \A q \in Live \ {c} : pcb'[q] = Saved[q]
        BY <1>2, <3>1 DEF Live
      <4> QED  BY <4>1, <4>2, <2>2, <2>3
    <3>3. \A p \in Live : \/ pcb'[p].p_semAdd = pcb[p].p_semAdd
                          \/ pcb'[p].p_semAdd \notin Sem /\ pcb[p].p_semAdd \notin Sem
      BY <1>2, <3>2, SavedPlaces DEF Unblocked
    <3>4. Active' = Active
      BY <1>2, <3>1 DEF Active
    <3> QED  BY <1>1, <1>2, <3>1, <3>3, <3>4, PlacesStay
  <2>5. CASE ~NoSemd(s)
    <3>1. /\ kpc' = "schedule" /\ currentProc' = NULL
          /\ blocked' = [blocked EXCEPT ![s] = InsertProcQ(@, currentProc)]
          /\ pcb' = [Saved EXCEPT ![c] =
                        [Charge(@, time, toTotal) EXCEPT !.p_semAdd = s]]
      BY <2>1, <2>5
    <3>2. /\ pcb'[c].p_semAdd = s
          /\ \A q \in Live \ {c} : pcb'[q] = pcb[q]
      <4>1. pcb'[c] = [Charge(Saved[c], time, toTotal) EXCEPT !.p_semAdd = s]
        BY <1>2, <3>1
      <4>2. \A q \in Live \ {c} : pcb'[q] = Saved[q]
        BY <1>2, <3>1 DEF Live
      <4>3. pcb'[c].p_semAdd = s
        BY <2>2, <4>1 DEF PcbFields
      <4> QED  BY <4>2, <4>3, <2>3
    <3>3. Unblocked' = Unblocked \ {c} /\ BlockedInv'
      BY <1>1, <1>2, <3>1, <3>2, BlockPlaces
    <3>4. Active' = {}
      BY <3>1 DEF Active
    <3>5. ReadyInv'
      BY <1>1, <1>2, <3>3, <3>4 DEF ReadyInv
    <3>6. ControlInv'
      BY <3>1, <3>4 DEF ControlInv
    <3> QED  BY <3>3, <3>5, <3>6 DEF PlaceInv
  <2> QED  BY <2>4, <2>5
<1> QED  BY <1>3, <1>4

\* All the system calls.
LEMMA SyscallPlaces ==
    ASSUME TypeOK, PlaceInv, Syscall PROVE PlaceInv'
<1>1. ASSUME Running
      PROVE  /\ kpc = "run" /\ currentProc \in Proc /\ currentProc # NULL
             /\ Active = {currentProc} /\ currentProc \in Unblocked
  BY <1>1, RunningFacts DEF Running
<1>2. CASE CreateProcess
  BY <1>2, CreateProcessPlaces
<1>3. CASE NoFreePcb \/ GetCpuTime
  BY <1>1, <1>3, SavedPlaces, ResumePlaces DEF NoFreePcb, GetCpuTime
<1>4. CASE TerminateProcess
  BY <1>1, <1>4, SavedPlaces, CallSys2Places DEF TerminateProcess
<1>5. ASSUME NEW s \in UserSem, Verhogen(s) PROVE PlaceInv'
  BY <1>5, VerhogenPlaces
<1>6. ASSUME NEW s \in UserSem, Passeren(s) PROVE PlaceInv'
  BY <1>6, PPlaces DEF Passeren, Sem, Running
<1>7. CASE WaitForClock
  BY <1>7, PPlaces, ClockSemType DEF WaitForClock, Running
<1>8. ASSUME NEW t \in VectorTypes, SpecifyVector(t) PROVE PlaceInv'
  <2>1. /\ currentProc \in Unblocked /\ currentProc \in Proc /\ currentProc # NULL
        /\ Active = {currentProc} /\ t \in ExceptionType
    BY <1>1, <1>8, WorkloadAssumption DEF SpecifyVector
  <2>2. CASE CallSys2(Saved)
    BY <2>1, <2>2, SavedPlaces, CallSys2Places
  <2>3. CASE Resume([Saved EXCEPT ![currentProc].sysCallFlag = @ \cup {t}])
    <3> DEFINE saved == [Saved EXCEPT ![currentProc].sysCallFlag = @ \cup {t}]
    <3>1. /\ saved[currentProc].p_semAdd = Saved[currentProc].p_semAdd
          /\ \A p \in Proc : p # currentProc => saved[p] = Saved[p]
      <4>1. /\ saved[currentProc] = [Saved[currentProc] EXCEPT !.sysCallFlag = @ \cup {t}]
            /\ Saved[currentProc] \in PcbFields
        BY <2>1, SavedPlaces
      <4> HIDE DEF saved
      <4>2. saved[currentProc].p_semAdd = Saved[currentProc].p_semAdd
        BY <2>1, <4>1, FieldUpdateType
      <4>3. \A p \in Proc : p # currentProc => saved[p] = Saved[p]
        BY <2>1, SavedPlaces DEF saved
      <4> QED  BY <4>2, <4>3
    <3> HIDE DEF saved
    <3>2. \A p \in Live : saved[p].p_semAdd = Saved[p].p_semAdd
      BY <3>1 DEF Live
    <3>3. Resume(saved)
      BY <2>3 DEF saved
    <3> QED  BY <2>1, <3>2, <3>3, SavedPlaces, ResumePlaces
  <2> QED  BY <1>8, <2>2, <2>3 DEF SpecifyVector
<1>9. ASSUME NEW d \in Device, CommandDevice(d) PROVE PlaceInv'
  <2>1. /\ UNCHANGED <<free, blocked, mlpq, kpc, currentProc, pcb>> /\ currentProc # NULL
        /\ kpc = "run"
    BY <1>1, <1>9 DEF CommandDevice, ready, tree
  <2>2. Active' = Active
    BY <2>1 DEF Active
  <2> QED  BY <2>1, <2>2, PlacesStay
<1>10. ASSUME NEW d \in Device, WaitForIO(d) PROVE PlaceInv'
  BY <1>10, PPlaces, WaitSemType DEF WaitForIO, Running
<1>11. CASE CallAstray
  BY <1>1, <1>11, AstrayPlaces DEF CallAstray
<1> QED
  BY <1>2, <1>3, <1>4, <1>5, <1>6, <1>7, <1>8, <1>9, <1>10, <1>11 DEF Syscall

\* The exceptions that are passed up.
LEMMA ExceptionPlaces ==
    ASSUME TypeOK, PlaceInv, Exception PROVE PlaceInv'
<1>1. PICK saved \in {pcb, Saved}, t \in ExceptionType : PassUpOrDie(t, saved)
  BY DEF Exception, TlbException, HighSyscall, ProgramTrap, UserModeSyscall, ExceptionType
<1>2. kpc = "run"
  BY <1>1 DEF PassUpOrDie, Running
<1>3. /\ currentProc # NULL /\ Active = {currentProc}
      /\ \A p \in Live : \/ saved[p].p_semAdd = pcb[p].p_semAdd
                         \/ saved[p].p_semAdd \notin Sem /\ pcb[p].p_semAdd \notin Sem
  BY <1>1, <1>2, RunningFacts, SavedPlaces
<1> QED  BY <1>1, <1>3, ResumePlaces, CallSys2Places DEF PassUpOrDie

-----------------------------------------------------------------------------
\* The interrupts.  A process that is interrupted is not blocked.
LEMMA EntryFacts ==
    ASSUME TypeOK, PlaceInv, Interruptible
    PROVE  /\ Active = {currentProc} \ {NULL}
           /\ AfterEntry \in [Proc -> PcbFields]
           /\ \A p \in Live : \/ AfterEntry[p].p_semAdd = pcb[p].p_semAdd
                              \/ AfterEntry[p].p_semAdd \notin Sem /\ pcb[p].p_semAdd \notin Sem
<1>1. Active = {currentProc} \ {NULL} /\ (currentProc # NULL => kpc = "run")
  BY DEF Interruptible, PlaceInv, ControlInv, Active
<1>2. CASE currentProc = NULL
  BY <1>1, <1>2 DEF AfterEntry, TypeOK
<1>3. CASE currentProc # NULL
  BY <1>1, <1>3, RunningFacts, SavedPlaces DEF AfterEntry
<1> QED  BY <1>1, <1>2, <1>3

\* The end of a handler finds the place of the process it interrupted.
LEMMA ReturnPlaces ==
    ASSUME TypeOK, NEW queues \in [0 .. 2 -> Seq(Proc)], NEW saved,
           Return(queues, saved), UNCHANGED currentProc, BlockedInv',
           currentProc # NULL => currentProc \in Unblocked',
           Holds(queues, Unblocked' \ ({currentProc} \ {NULL}))
    PROVE  PlaceInv'
<1>1. CASE currentProc # NULL /\ saved[currentProc].timeLeft > 0
  <2>1. kpc' = "run" /\ mlpq' = queues
    BY <1>1 DEF Return
  <2>2. Active' = {currentProc} \ {NULL} /\ Active' \subseteq Unblocked'
    BY <1>1, <2>1 DEF Active
  <2>3. ReadyInv' /\ ControlInv'
    BY <1>1, <2>1, <2>2 DEF ReadyInv, ControlInv
  <2> QED  BY <2>3 DEF PlaceInv
<1>2. CASE currentProc # NULL /\ ~(saved[currentProc].timeLeft > 0)
  <2>1. /\ kpc' = "schedule"
        /\ mlpq' = PutInQ(queues, currentProc, saved[currentProc], FALSE)
    BY <1>2 DEF Return
  <2>2. Active' = {}
    BY <2>1 DEF Active
  <2>3. /\ currentProc \in Proc /\ currentProc \notin Unblocked' \ {currentProc}
        /\ Holds(queues, Unblocked' \ {currentProc})
    <3>1. {currentProc} \ {NULL} = {currentProc}
      BY <1>2
    <3> QED  BY <1>2, <3>1 DEF TypeOK
  <2>4. Holds(mlpq', (Unblocked' \ {currentProc}) \cup {currentProc})
    BY <2>1, <2>3, HoldsPut
  <2>5. (Unblocked' \ {currentProc}) \cup {currentProc} = Unblocked' \ Active'
    BY <1>2, <2>2
  <2>6. ReadyInv' /\ ControlInv'
    BY <2>1, <2>2, <2>4, <2>5 DEF ReadyInv, ControlInv
  <2> QED  BY <2>6 DEF PlaceInv
<1>3. CASE currentProc = NULL
  <2>1. kpc' = "schedule" /\ mlpq' = queues
    BY <1>3 DEF Return
  <2>2. Active' = {}
    BY <2>1 DEF Active
  <2>3. Unblocked' \ ({currentProc} \ {NULL}) = Unblocked' \ Active'
    BY <1>3, <2>2
  <2>4. ReadyInv' /\ ControlInv'
    BY <2>1, <2>2, <2>3 DEF ReadyInv, ControlInv
  <2> QED  BY <2>4 DEF PlaceInv
<1> QED  BY <1>1, <1>2, <1>3

\* Line 1: the interrupted process goes to a ready queue.
LEMMA ProcTimerPlaces ==
    ASSUME TypeOK, PlaceInv, ProcTimer PROVE PlaceInv'
<1>1. /\ kpc' = "schedule" /\ currentProc' = NULL
      /\ UNCHANGED <<blocked, free>> /\ Interruptible
  BY DEF ProcTimer, tree
<1>2. Active' = {}
  BY <1>1 DEF Active
<1>3. CASE currentProc = NULL
  <2>1. UNCHANGED <<pcb, mlpq>>
    BY <1>3 DEF ProcTimer
  <2>2. Unblocked' = Unblocked /\ BlockedInv'
    BY <1>1, <2>1, SamePlaces
  <2>3. Active = {}
    BY <1>1, <1>3, EntryFacts
  <2>4. ReadyInv' /\ ControlInv'
    BY <1>1, <1>2, <2>1, <2>2, <2>3, PlaceFacts DEF ReadyInv, ControlInv
  <2> QED  BY <2>2, <2>4 DEF PlaceInv
<1>4. CASE currentProc # NULL
  <2> DEFINE r == Expired
  <2>1. /\ currentProc \in Proc /\ currentProc \in Unblocked
        /\ Holds(mlpq, Unblocked \ {currentProc}) /\ mlpq \in [0 .. 2 -> Seq(Proc)]
        /\ pcb \in [Proc -> PcbFields]
    BY <1>1, <1>4, RunningFacts DEF Interruptible, PlaceInv, ControlInv, TypeOK
  <2>2. Saved[currentProc] \in PcbFields /\ Saved[currentProc].p_semAdd \notin Sem
    BY <2>1, SavedPlaces
  <2>3. r.p_semAdd \notin Sem
    BY <2>2, FieldUpdateType DEF Expired
  <2>4. /\ pcb' = [pcb EXCEPT ![currentProc] = r]
        /\ mlpq' = PutInQ(mlpq, currentProc, r, FALSE)
    BY <1>4 DEF ProcTimer
  <2> HIDE DEF r
  <2>5. \A p \in Live : \/ pcb'[p].p_semAdd = pcb[p].p_semAdd
                        \/ pcb'[p].p_semAdd \notin Sem /\ pcb[p].p_semAdd \notin Sem
    BY <2>1, <2>3, <2>4 DEF Unblocked, Live
  <2>6. Unblocked' = Unblocked /\ BlockedInv'
    BY <1>1, <2>5, SamePlaces
  <2>7. Holds(mlpq', (Unblocked \ {currentProc}) \cup {currentProc})
    BY <2>1, <2>4, HoldsPut
  <2>8. (Unblocked \ {currentProc}) \cup {currentProc} = Unblocked' \ Active'
    BY <1>2, <2>1, <2>6
  <2>9. ReadyInv' /\ ControlInv'
    BY <1>1, <1>2, <2>7, <2>8 DEF ReadyInv, ControlInv
  <2> QED  BY <2>6, <2>9 DEF PlaceInv
<1> QED  BY <1>3, <1>4

\* Line 2: a whole queue, and the interrupted process, go to ready queues.
LEMMA IntervalTimerPlaces ==
    ASSUME TypeOK, PlaceInv, IntervalTimer PROVE PlaceInv'
<1> DEFINE w == TickWakes
           queues == [mlpq EXCEPT ![0] = @ \o w]
<1>1. /\ UNCHANGED <<currentProc, free>> /\ Interruptible
      /\ blocked' = [blocked EXCEPT ![ClockSem] = IF TickWakes = <<>> THEN @ ELSE <<>>]
  BY DEF IntervalTimer, tree
<1>2. PICK time \in Elapsed :
        LET saved == [p \in Proc |-> IF p \in ToSet(w)
                                     THEN Woken(AfterEntry[p], time)
                                     ELSE AfterEntry[p]]
        IN pcb' = saved /\ Return(queues, saved)
  BY DEF IntervalTimer
<1>3. /\ Active = {currentProc} \ {NULL} /\ AfterEntry \in [Proc -> PcbFields]
      /\ \A p \in Live : \/ AfterEntry[p].p_semAdd = pcb[p].p_semAdd
                         \/ AfterEntry[p].p_semAdd \notin Sem /\ pcb[p].p_semAdd \notin Sem
  BY <1>1, EntryFacts
<1>4. w \in Seq(Proc) /\ ToSet(w) \subseteq Proc
  <2>1. w \in Seq(Proc)
    BY ClockSemType, EmptySeq DEF TickWakes, TypeOK
  <2> QED  BY <2>1, QueueElements
<1>5. /\ Return(queues, pcb')
      /\ \A p \in ToSet(w) : pcb'[p] = Woken(AfterEntry[p], time)
      /\ \A p \in Proc \ ToSet(w) : pcb'[p] = AfterEntry[p]
  BY <1>2, <1>4
<1>6. \A p \in ToSet(w) : pcb'[p].p_semAdd \notin Sem
  BY <1>3, <1>4, <1>5, WokenType, NoSemaphore
<1>7. \A p \in Live \ ToSet(w) :
           \/ pcb'[p].p_semAdd = pcb[p].p_semAdd
           \/ pcb'[p].p_semAdd \notin Sem /\ pcb[p].p_semAdd \notin Sem
  BY <1>3, <1>5 DEF Live
<1>8. /\ IsInjective(w) /\ ToSet(w) \cap Unblocked = {}
      /\ Unblocked' = Unblocked \cup ToSet(w) /\ BlockedInv'
  BY <1>1, <1>6, <1>7, TickPlaces
<1>9. /\ mlpq \in [0 .. 2 -> Seq(Proc)] /\ Holds(mlpq, Unblocked \ Active)
      /\ Active \subseteq Unblocked
  BY PlaceFacts
<1> HIDE DEF w
<1>10. Holds(queues, (Unblocked \ Active) \cup ToSet(w))
  BY <1>4, <1>8, <1>9, HoldsConcat
<1>11. /\ (Unblocked \ Active) \cup ToSet(w) = Unblocked' \ ({currentProc} \ {NULL})
       /\ currentProc # NULL => currentProc \in Unblocked'
  BY <1>3, <1>8, <1>9
<1>12. queues \in [0 .. 2 -> Seq(Proc)]
  <2>1. mlpq[0] \o w \in Seq(Proc)
    BY <1>4, <1>9, ConcatQueues
  <2> QED  BY <1>9, <2>1
<1> HIDE DEF queues
<1> QED  BY <1>1, <1>5, <1>8, <1>10, <1>11, <1>12, ReturnPlaces

\* Lines 3 to 7: one blocked process, and the interrupted one, go to ready
\* queues.
LEMMA DeviceInterruptPlaces ==
    ASSUME TypeOK, PlaceInv, DeviceInterrupt PROVE PlaceInv'
<1> DEFINE s == IntrSem(Line, DevNum)
           p == Head(blocked[s])
<1>1. s \in Sem /\ UNCHANGED <<currentProc, free>> /\ Interruptible
  BY IntrSemType DEF DeviceInterrupt, TypeOK, tree
<1>2. /\ Active = {currentProc} \ {NULL} /\ AfterEntry \in [Proc -> PcbFields]
      /\ \A q \in Live : \/ AfterEntry[q].p_semAdd = pcb[q].p_semAdd
                         \/ AfterEntry[q].p_semAdd \notin Sem /\ pcb[q].p_semAdd \notin Sem
  BY <1>1, EntryFacts
<1>3. CASE blocked[s] = <<>>
  <2>1. /\ kpc' = "trap" /\ pcb' = AfterEntry
        /\ UNCHANGED <<mlpq, blocked>>
    BY <1>3 DEF DeviceInterrupt
  <2>2. Active' = Active
    BY <1>1, <1>2, <2>1 DEF Active
  <2> QED  BY <1>1, <1>2, <2>1, <2>2, PlacesStay
<1>4. CASE blocked[s] # <<>>
  <2>1. PICK time \in Elapsed :
          LET saved == [AfterEntry EXCEPT ![p] = Woken(@, time)] IN
          pcb' = saved /\ Return(PutInQ(mlpq, p, saved[p], TRUE), saved)
    BY <1>4 DEF DeviceInterrupt
  <2>2. blocked' = [blocked EXCEPT ![s] = Tail(@)]
    BY <1>4 DEF DeviceInterrupt
  <2>3. /\ mlpq \in [0 .. 2 -> Seq(Proc)] /\ Holds(mlpq, Unblocked \ Active)
        /\ Active \subseteq Unblocked
    BY PlaceFacts
  <2>4. p \in Proc
    <3>1. blocked[s] \in Seq(Proc)
      BY <1>1 DEF TypeOK
    <3> QED  BY <1>4, <3>1, RemoveQueue
  <2>5. /\ pcb'[p] = Woken(AfterEntry[p], time)
        /\ \A q \in Live \ {p} : pcb'[q] = AfterEntry[q]
    BY <1>2, <2>1, <2>4 DEF Live
  <2>6. pcb'[p].p_semAdd \notin Sem
    BY <1>2, <2>4, <2>5, WokenType, NoSemaphore
  <2>7. /\ Unblocked' = Unblocked \cup {p} /\ p \notin Unblocked /\ BlockedInv'
    BY <1>1, <1>2, <1>4, <2>2, <2>5, <2>6, WakePlaces
  <2> DEFINE queues == PutInQ(mlpq, p, pcb'[p], TRUE)
  <2>8. Return(queues, pcb')
    BY <2>1
  <2>9. queues \in [0 .. 2 -> Seq(Proc)]
    BY <2>3, <2>4, PutInQType
  <2>10. Holds(queues, (Unblocked \ Active) \cup {p})
    BY <2>3, <2>4, <2>7, HoldsPut
  <2>11. /\ (Unblocked \ Active) \cup {p} = Unblocked' \ ({currentProc} \ {NULL})
         /\ currentProc # NULL => currentProc \in Unblocked'
    BY <1>2, <2>3, <2>7
  <2> HIDE DEF queues
  <2> QED  BY <1>1, <2>7, <2>8, <2>9, <2>10, <2>11, ReturnPlaces
<1> QED  BY <1>3, <1>4

-----------------------------------------------------------------------------
\* main() leaves test, and no other process, in the queues.
LEMMA InitPlaces == ASSUME Init PROVE PlaceInv
<1> DEFINE q == [i \in 0 .. 2 |-> <<>>]
<1>1. Live = {Test} /\ Test \in Proc /\ NULL \notin Sem
  BY ProcAssumption, NoSemaphore DEF Init, Live
<1>2. pcb[Test].p_semAdd = NULL
  BY <1>1 DEF Init, FreshPcb
<1>3. Unblocked = {Test} /\ \A s \in Sem : BlockedOn(s) = {}
  BY <1>1, <1>2 DEF Unblocked, BlockedOn
<1>4. Active = {} /\ kpc = "schedule"
  BY DEF Init, Active
<1>5. q \in [0 .. 2 -> Seq(Proc)] /\ Holds(q, {})
  BY EmptySeq DEF Holds, IsInjective, ToSet
<1>6. mlpq = PutInQ(q, Test, FreshPcb, FALSE)
  BY DEF Init
<1> HIDE DEF q
<1>7. Holds(mlpq, {} \cup {Test})
  BY <1>1, <1>5, <1>6, HoldsPut
<1>8. Unblocked \ Active = {} \cup {Test}
  BY <1>3, <1>4
<1>9. ReadyInv /\ ControlInv
  BY <1>4, <1>7, <1>8 DEF ReadyInv, ControlInv
<1>10. BlockedInv
  BY <1>3 DEF Init, BlockedInv, IsInjective, ToSet
<1> QED  BY <1>9, <1>10 DEF PlaceInv

\* Every step of the nucleus that does not lead it astray keeps the pcbs in their
\* places.
LEMMA StepPlaces ==
    ASSUME TypeOK, PlaceInv, FamilyInv, [Next]_vars, kpc' # "astray" PROVE PlaceInv'
<1>1. CASE Schedule
  BY <1>1, SchedulePlaces
<1>2. CASE Sys2
  BY <1>2, TakeChildPlaces, RetireCurrentPlaces, RetireReadyPlaces, RetireBlockedPlaces
     DEF Sys2
<1>3. CASE NestedTrap
  BY <1>3, NestedTrapPlaces
<1>4. CASE Syscall
  BY <1>4, SyscallPlaces
<1>5. CASE Exception
  BY <1>5, ExceptionPlaces
<1>6. CASE Interrupt
  BY <1>6, ProcTimerPlaces, IntervalTimerPlaces, DeviceInterruptPlaces
     DEF Interrupt, InterruptAstray, GoAstray
<1>7. CASE UNCHANGED <<free, blocked, mlpq, kpc, currentProc, pcb>>
  <2>1. Active' = Active
    BY <1>7 DEF Active
  <2>2. /\ kpc \in {"run", "terminate"} => currentProc # NULL
        /\ kpc = "wait" => currentProc = NULL
    BY DEF PlaceInv, ControlInv
  <2> QED  BY <1>7, <2>1, <2>2, PlacesStay
<1>8. ASSUME NEW d \in Device, DeviceDone(d)
      PROVE  UNCHANGED <<free, blocked, mlpq, kpc, currentProc, pcb>>
  BY <1>8 DEF DeviceDone, ready, tree
<1>9. CASE UNCHANGED vars
  BY <1>7, <1>9 DEF vars, ready, tree
<1> QED  BY <1>1, <1>2, <1>3, <1>4, <1>5, <1>6, <1>7, <1>8, <1>9 DEF Next, Stop
=============================================================================
