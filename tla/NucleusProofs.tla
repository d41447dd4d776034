--------------------------- MODULE NucleusProofs ---------------------------
(***************************************************************************)
(* TLAPS proofs about the nucleus, second part: its counters and the       *)
(* semaphores of the processes; then the theorems.  IInv is put together   *)
(* from its three parts and holds until the nucleus follows a stray tail;  *)
(* what the runs check follows from it.  Then every step of the nucleus,   *)
(* mapped by NucleusLife, is shown to be a step of ProcessLife or none.    *)
(* Last comes what holds under CarefulUse: UsageInv is inductive relative  *)
(* to IInv and CountInv, and no tail becomes stray.                        *)
(***************************************************************************)
EXTENDS PlaceProofs, NucleusLife, FiniteSetTheorems

\* Without stray tails a process that runs is in no queue, so at most MAXPROC - 1
\* semaphores have one: insertBlocked finds a descriptor.
LEMMA DescriptorsLeft ==
    ASSUME TypeOK, PlaceInv, Intact, kpc = "run", NEW s \in Sem PROVE ~NoSemd(s)
<1> DEFINE used == {t \in Sem : blocked[t] # <<>>}
           others == Proc \ {currentProc}
           first == [t \in used |-> Head(blocked[t])]
<1>1. currentProc \in Proc /\ currentProc \in Unblocked
  BY RunningFacts
<1>2. /\ IsFiniteSet(Proc) /\ IsFiniteSet(others) /\ Cardinality(Proc) \in Nat
      /\ Cardinality(others) = Cardinality(Proc) - 1
  BY <1>1, ProcAssumption, FS_RemoveElement, FS_CardinalityType
<1>3. ASSUME NEW t \in used PROVE first[t] \in BlockedOn(t) /\ first[t] \in others
  <2>1. /\ blocked[t] \in Seq(Proc) /\ blocked[t] # <<>>
        /\ ToSet(blocked[t]) = BlockedOn(t) /\ BlockedOn(t) \cap Unblocked = {}
    BY PlaceFacts
  <2>2. Head(blocked[t]) \in ToSet(blocked[t]) /\ Head(blocked[t]) \in Proc
    BY <2>1, RemoveQueue
  <2> QED  BY <1>1, <2>1, <2>2
<1>4. \A t, u \in used : first[t] = first[u] => t = u
  BY <1>3 DEF BlockedOn
<1>5. first \in Injection(used, others)
  <2>1. first \in [used -> others]
    BY <1>3
  <2> QED  BY <1>4, <2>1 DEF Injection, IsInjective
<1> HIDE DEF first, used, others
<1>6. IsFiniteSet(used) /\ Cardinality(used) <= Cardinality(others)
  BY <1>2, <1>5, FS_Injection
<1>7. Cardinality(used) \in Nat
  BY <1>6, FS_CardinalityType
<1>8. ~(Cardinality(used) >= Cardinality(Proc))
  BY <1>2, <1>6, <1>7
<1>9. used = {t \in Sem : HasSemd(t)}
  BY DEF used, HasSemd, Intact
<1> QED  BY <1>8, <1>9 DEF NoSemd

-----------------------------------------------------------------------------
(***************************************************************************)
(* The three counts, and what keeps each.                                  *)
(***************************************************************************)
ProcCountExact == procCnt = Cardinality(Live)
SoftBlockCountExact == softBlockCnt = Cardinality(Waiting(DeviceSem))

\* The value v of a semaphore whose queue is q.
Exact(v, q) == IF q = <<>> THEN v >= 0 ELSE v = - Len(q)

SemCountExact == \A s \in UserSem : Exact(semVal[s], blocked[s])

CountInv == ProcCountExact /\ SoftBlockCountExact /\ SemCountExact

\* There are finitely many processes.
LEMMA FiniteFacts ==
    ASSUME TypeOK, PlaceInv
    PROVE  /\ Live \subseteq Proc /\ IsFiniteSet(Live) /\ Cardinality(Live) \in Nat
           /\ Waiting(DeviceSem) \subseteq Live /\ IsFiniteSet(Waiting(DeviceSem))
           /\ Cardinality(Waiting(DeviceSem)) \in Nat
<1>1. Live \subseteq Proc /\ IsFiniteSet(Live)
  BY ProcAssumption, FS_Subset DEF Live
<1>2. Waiting(DeviceSem) \subseteq Live
  BY PlaceFacts DEF Waiting, Sem
<1>3. IsFiniteSet(Waiting(DeviceSem))
  BY <1>1, <1>2, FS_Subset
<1> QED  BY <1>1, <1>2, <1>3, FS_CardinalityType

\* A step that neither makes nor ends a process.
LEMMA ProcCountStays ==
    ASSUME ProcCountExact, UNCHANGED <<free, procCnt>> PROVE ProcCountExact'
BY DEF ProcCountExact, Live

\* A step on no queue of a semaphore.
LEMMA SoftBlockCountStays ==
    ASSUME SoftBlockCountExact, UNCHANGED <<blocked, softBlockCnt>>
    PROVE  SoftBlockCountExact'
BY DEF SoftBlockCountExact, Waiting

\* A step on no semaphore of the processes.
LEMMA SemaphoresStay ==
    ASSUME SemCountExact,
           \A s \in UserSem : semVal'[s] = semVal[s] /\ blocked'[s] = blocked[s]
    PROVE  SemCountExact'
BY DEF SemCountExact

\* The end of a call of sys2 counts the process out.
LEMMA BuryCounts ==
    ASSUME TypeOK, PlaceInv, ProcCountExact, NEW p \in Live, Bury(p)
    PROVE  ProcCountExact'
<1>1. Live' = Live \ {p} /\ procCnt' = procCnt - 1
  BY DEF Bury, Live
<1>2. Cardinality(Live \ {p}) = Cardinality(Live) - 1
  BY FiniteFacts, FS_RemoveElement
<1> QED  BY <1>1, <1>2 DEF ProcCountExact

\* The queue of one semaphore is replaced: who waits for the clock or a device
\* changes if the semaphore is one of theirs.
LEMMA WaitingUpdate ==
    ASSUME TypeOK, PlaceInv, NEW s \in Sem, NEW r,
           blocked' = [blocked EXCEPT ![s] = r]
    PROVE  Waiting(DeviceSem)' =
             IF s \in DeviceSem THEN (Waiting(DeviceSem) \ ToSet(blocked[s])) \cup ToSet(r)
             ELSE Waiting(DeviceSem)
<1>1. /\ blocked'[s] = r
      /\ \A t \in Sem : t # s => /\ blocked'[t] = blocked[t]
                                 /\ ToSet(blocked[t]) \cap ToSet(blocked[s]) = {}
  BY PlaceFacts DEF TypeOK, BlockedOn
<1>2. DeviceSem \subseteq Sem
  BY DEF Sem
<1>3. /\ \A p : p \in Waiting(DeviceSem)' <=> \E t \in DeviceSem : p \in ToSet(blocked'[t])
      /\ \A p : p \in Waiting(DeviceSem) <=> \E t \in DeviceSem : p \in ToSet(blocked[t])
  BY DEF Waiting
<1>4. CASE s \in DeviceSem
  <2>1. ASSUME NEW p
        PROVE  p \in Waiting(DeviceSem)' <=>
                 p \in (Waiting(DeviceSem) \ ToSet(blocked[s])) \cup ToSet(r)
    <3>1. ASSUME NEW t \in DeviceSem, p \in ToSet(blocked'[t])
          PROVE  p \in (Waiting(DeviceSem) \ ToSet(blocked[s])) \cup ToSet(r)
      BY <1>1, <1>2, <1>3, <3>1
    <3>2. ASSUME NEW t \in DeviceSem, p \in ToSet(blocked[t]), p \notin ToSet(blocked[s])
          PROVE  p \in Waiting(DeviceSem)'
      BY <1>1, <1>2, <1>3, <3>2
    <3>3. p \in ToSet(r) => p \in Waiting(DeviceSem)'
      BY <1>1, <1>3, <1>4
    <3> QED  BY <1>3, <3>1, <3>2, <3>3
  <2> QED  BY <1>4, <2>1
<1>5. CASE s \notin DeviceSem
  <2>1. \A t \in DeviceSem : blocked'[t] = blocked[t]
    BY <1>1, <1>2, <1>5
  <2>2. Waiting(DeviceSem)' = Waiting(DeviceSem)
    BY <1>3, <2>1
  <2> QED  BY <1>5, <2>2
<1> QED  BY <1>4, <1>5

\* A V on an exact semaphore finds a process when it looks for one, and leaves
\* the semaphore exact; so does the V of sys2 for a process that was killed.
LEMMA ExactV ==
    ASSUME NEW q \in Seq(Proc), NEW v \in Int, Exact(v, q)
    PROVE  /\ q # <<>> => SomeoneWaits(v + 1) /\ Exact(v + 1, Tail(q))
           /\ q = <<>> => ~SomeoneWaits(v + 1) /\ Exact(v + 1, q)
           /\ \A p \in ToSet(q) : Exact(v + 1, Without(q, p))
<1>1. Len(q) \in Nat /\ (q = <<>> <=> Len(q) = 0)
  BY LenProperties, QueueElements
<1>2. ASSUME NEW r \in Seq(Proc), Len(r) = Len(q) - 1, q # <<>> PROVE Exact(v + 1, r)
  <2>1. Len(r) \in Nat /\ (r = <<>> <=> Len(r) = 0)
    BY LenProperties, QueueElements
  <2> QED  BY <1>1, <1>2, <2>1 DEF Exact
<1>3. CASE q # <<>>
  <2>1. Tail(q) \in Seq(Proc) /\ Len(Tail(q)) = Len(q) - 1
    BY <1>3, RemoveQueue
  <2>2. \A p \in ToSet(q) : Without(q, p) \in Seq(Proc) /\ Len(Without(q, p)) = Len(q) - 1
    BY WithoutQueue
  <2>3. SomeoneWaits(v + 1)
    BY <1>1, <1>3 DEF Exact, SomeoneWaits
  <2> QED  BY <1>2, <1>3, <2>1, <2>2, <2>3
<1>4. CASE q = <<>>
  <2>1. ~SomeoneWaits(v + 1) /\ Exact(v + 1, q)
    BY <1>4 DEF Exact, SomeoneWaits
  <2>2. ToSet(q) = {}
    BY <1>4, QueueElements
  <2> QED  BY <1>4, <2>1, <2>2
<1> QED  BY <1>3, <1>4

\* A P leaves it exact, whether the process passes or waits.
LEMMA ExactP ==
    ASSUME NEW q \in Seq(Proc), NEW v \in Int, NEW p \in Proc, Exact(v, q)
    PROVE  /\ v - 1 >= 0 => Exact(v - 1, q)
           /\ ~(v - 1 >= 0) => Exact(v - 1, InsertProcQ(q, p))
<1>1. Len(q) \in Nat /\ (q = <<>> <=> Len(q) = 0)
  BY LenProperties, QueueElements
<1>2. v - 1 >= 0 => Exact(v - 1, q)
  BY <1>1 DEF Exact
<1>3. ASSUME ~(v - 1 >= 0) PROVE Exact(v - 1, InsertProcQ(q, p))
  <2>1. InsertProcQ(q, p) \in Seq(Proc) /\ Len(InsertProcQ(q, p)) = Len(q) + 1
    BY InsertQueue
  <2>2. InsertProcQ(q, p) # <<>>
    BY <1>1, <2>1, QueueElements
  <2>3. v = - Len(q)
    BY <1>1, <1>3 DEF Exact
  <2> QED  BY <1>1, <2>1, <2>2, <2>3 DEF Exact
<1> QED  BY <1>2, <1>3

\* A queue is as long as the set of its pcbs is large.
LEMMA QueueCardinality ==
    ASSUME NEW q \in Seq(Proc), IsInjective(q)
    PROVE  IsFiniteSet(ToSet(q)) /\ Cardinality(ToSet(q)) = Len(q)
<1> DEFINE n == Len(q)
<1>1. n \in Nat /\ DOMAIN q = 1 .. n /\ q \in [1 .. n -> Proc]
  BY LenProperties
<1>2. q \in Surjection(1 .. n, ToSet(q))
  BY <1>1 DEF Surjection, ToSet
<1>3. q \in Injection(1 .. n, ToSet(q))
  BY <1>1 DEF Injection, IsInjective, ToSet
<1>4. IsFiniteSet(1 .. n) /\ Cardinality(1 .. n) = n
  BY <1>1, FS_Interval
<1> QED  BY <1>2, <1>3, <1>4, FS_Surjection

\* Who leaves the queue of a device's semaphore, or the clock's, is counted out.
LEMMA DeviceWaiterLeaves ==
    ASSUME TypeOK, PlaceInv, SoftBlockCountExact, NEW s \in DeviceSem,
           NEW p \in ToSet(blocked[s]), NEW r,
           blocked' = [blocked EXCEPT ![s] = r], ToSet(r) = ToSet(blocked[s]) \ {p},
           softBlockCnt' = softBlockCnt - 1
    PROVE  SoftBlockCountExact'
<1>1. p \in Waiting(DeviceSem) /\ ToSet(blocked[s]) \subseteq Waiting(DeviceSem) /\ s \in Sem
  BY DEF Waiting, Sem
<1>2. Waiting(DeviceSem)' = (Waiting(DeviceSem) \ ToSet(blocked[s])) \cup ToSet(r)
  BY <1>1, WaitingUpdate
<1>3. Waiting(DeviceSem)' = Waiting(DeviceSem) \ {p}
  BY <1>1, <1>2
<1>4. Cardinality(Waiting(DeviceSem) \ {p}) = Cardinality(Waiting(DeviceSem)) - 1
  BY <1>1, FiniteFacts, FS_RemoveElement
<1> QED  BY <1>3, <1>4 DEF SoftBlockCountExact

\* A change to the queue of a semaphore of the processes counts nobody.
LEMMA UserWaiterCounts ==
    ASSUME TypeOK, PlaceInv, SoftBlockCountExact, NEW s \in UserSem, NEW r,
           blocked' = [blocked EXCEPT ![s] = r], softBlockCnt' = softBlockCnt
    PROVE  SoftBlockCountExact'
<1>1. s \in Sem /\ s \notin DeviceSem
  BY SemAssumption DEF Sem
<1>2. Waiting(DeviceSem)' = Waiting(DeviceSem)
  BY <1>1, WaitingUpdate
<1> QED  BY <1>2 DEF SoftBlockCountExact

\* One semaphore of the processes and its queue change, and agree again.
LEMMA OneSemaphoreChanges ==
    ASSUME TypeOK, SemCountExact, NEW s \in UserSem, NEW v, NEW r,
           semVal' = [semVal EXCEPT ![s] = v], blocked' = [blocked EXCEPT ![s] = r],
           Exact(v, r)
    PROVE  SemCountExact'
<1>1. s \in Sem /\ UserSem \subseteq Sem
  BY DEF Sem
<1>2. /\ semVal'[s] = v /\ blocked'[s] = r
      /\ \A t \in Sem : t # s => semVal'[t] = semVal[t] /\ blocked'[t] = blocked[t]
  BY <1>1 DEF TypeOK
<1>3. ASSUME NEW t \in UserSem PROVE Exact(semVal'[t], blocked'[t])
  BY <1>1, <1>2 DEF Exact, SemCountExact
<1> QED  BY <1>3 DEF Exact, SemCountExact

-----------------------------------------------------------------------------
\* Steps that count nothing.
LEMMA CountsStay ==
    ASSUME CountInv, UNCHANGED <<free, procCnt, blocked, softBlockCnt, semVal>>
    PROVE  CountInv'
BY ProcCountStays, SoftBlockCountStays, SemaphoresStay DEF CountInv

\* SYS1 counts the new process in.
LEMMA CreateProcessCounts ==
    ASSUME TypeOK, PlaceInv, CountInv, CreateProcess PROVE CountInv'
<1>1. /\ UNCHANGED <<blocked, softBlockCnt, semVal>> /\ procCnt' = procCnt + 1
  BY DEF CreateProcess
<1>2. PICK c \in free : free' = free \ {c}
  BY DEF CreateProcess
<1>3. Live' = Live \cup {c} /\ c \notin Live
  BY <1>2 DEF Live, TypeOK
<1>4. Cardinality(Live \cup {c}) = Cardinality(Live) + 1
  BY <1>3, FiniteFacts, FS_AddElement
<1>5. ProcCountExact'
  BY <1>1, <1>3, <1>4 DEF ProcCountExact, CountInv
<1> QED  BY <1>1, <1>5, SoftBlockCountStays, SemaphoresStay DEF CountInv

\* SYS3 on a semaphore that is exact.
LEMMA VerhogenCounts ==
    ASSUME TypeOK, PlaceInv, CountInv, NEW s \in UserSem, Verhogen(s) PROVE CountInv'
<1>1. /\ UNCHANGED <<free, procCnt, softBlockCnt>> /\ s \in Sem
      /\ semVal' = [semVal EXCEPT ![s] = semVal[s] + 1]
  BY DEF Verhogen, tree, Sem
<1>2. /\ blocked[s] \in Seq(Proc) /\ semVal[s] \in Int
      /\ Exact(semVal[s], blocked[s])
  BY <1>1 DEF TypeOK, Exact, CountInv, SemCountExact
<1>3. CASE blocked[s] # <<>>
  <2>1. SomeoneWaits(semVal[s] + 1) /\ Exact(semVal[s] + 1, Tail(blocked[s]))
    BY <1>2, <1>3, ExactV
  <2>2. blocked' = [blocked EXCEPT ![s] = Tail(blocked[s])]
    BY <1>3, <2>1 DEF Verhogen
  <2>3. SemCountExact'
    BY <1>1, <2>1, <2>2, OneSemaphoreChanges DEF CountInv
  <2>4. SoftBlockCountExact'
    BY <1>1, <2>2, UserWaiterCounts DEF CountInv
  <2> QED  BY <1>1, <2>3, <2>4, ProcCountStays DEF CountInv
<1>4. CASE blocked[s] = <<>>
  <2>1. blocked' = blocked
    BY <1>4 DEF Verhogen
  <2>2. blocked' = [blocked EXCEPT ![s] = blocked[s]]
    BY <1>1, <2>1 DEF TypeOK
  <2>3. Exact(semVal[s] + 1, blocked[s])
    BY <1>2, <1>4, ExactV
  <2>4. SemCountExact'
    BY <1>1, <2>2, <2>3, OneSemaphoreChanges DEF CountInv
  <2> QED  BY <1>1, <2>1, <2>4, ProcCountStays, SoftBlockCountStays DEF CountInv
<1> QED  BY <1>3, <1>4

\* SYS4, SYS7 and SYS8: soft says that the process waits for the clock or a
\* device, as its semaphore does.
LEMMA PCounts ==
    ASSUME TypeOK, PlaceInv, CountInv, kpc = "run", NEW s \in Sem, NEW toTotal,
           P(s, s \in DeviceSem, toTotal), kpc' # "panic"
    PROVE  CountInv'
<1> DEFINE c == currentProc
<1>1. /\ UNCHANGED <<free, procCnt>>
      /\ semVal' = [semVal EXCEPT ![s] = semVal[s] - 1]
  BY DEF P, tree
<1>2. /\ c \in Proc /\ c \in Unblocked
      /\ blocked[s] \in Seq(Proc) /\ semVal[s] \in Int
  BY RunningFacts DEF TypeOK
<1>3. CASE semVal[s] - 1 >= 0
  <2>1. UNCHANGED <<blocked, softBlockCnt>>
    BY <1>3 DEF P
  <2>2. SemCountExact'
    <3>1. CASE s \in UserSem
      <4>1. blocked' = [blocked EXCEPT ![s] = blocked[s]]
        BY <2>1 DEF TypeOK
      <4>2. Exact(semVal[s], blocked[s])
        BY <3>1 DEF Exact, CountInv, SemCountExact
      <4>3. Exact(semVal[s] - 1, blocked[s])
        BY <1>2, <1>3, <4>2, ExactP
      <4> QED  BY <1>1, <3>1, <4>1, <4>3, OneSemaphoreChanges DEF CountInv
    <3>2. CASE s \notin UserSem
      <4>1. \A t \in UserSem : semVal'[t] = semVal[t]
        BY <1>1, <3>2 DEF TypeOK, Sem
      <4> QED  BY <2>1, <4>1, SemaphoresStay DEF CountInv
    <3> QED  BY <3>1, <3>2
  <2> QED  BY <1>1, <2>1, <2>2, ProcCountStays, SoftBlockCountStays DEF CountInv
<1>4. CASE ~(semVal[s] - 1 >= 0)
  <2>1. /\ blocked' = [blocked EXCEPT ![s] = InsertProcQ(blocked[s], c)]
        /\ softBlockCnt' = softBlockCnt + (IF s \in DeviceSem THEN 1 ELSE 0)
    BY <1>4 DEF P
  <2>2. CASE s \in UserSem
    <3>1. softBlockCnt' = softBlockCnt
      <4>1. s \notin DeviceSem
        BY <2>2, SemAssumption
      <4> QED  BY <2>1, <4>1 DEF TypeOK
    <3>2. Exact(semVal[s], blocked[s])
      BY <2>2 DEF Exact, CountInv, SemCountExact
    <3>3. Exact(semVal[s] - 1, InsertProcQ(blocked[s], c))
      BY <1>2, <1>4, <3>2, ExactP
    <3>4. SemCountExact'
      BY <1>1, <2>1, <2>2, <3>3, OneSemaphoreChanges DEF CountInv
    <3>5. SoftBlockCountExact'
      BY <2>1, <2>2, <3>1, UserWaiterCounts DEF CountInv
    <3> QED  BY <1>1, <3>4, <3>5, ProcCountStays DEF CountInv
  <2>3. CASE s \notin UserSem
    <3>1. s \in DeviceSem /\ softBlockCnt' = softBlockCnt + 1
      BY <2>1, <2>3 DEF Sem
    <3>2. \A t \in UserSem : semVal'[t] = semVal[t] /\ blocked'[t] = blocked[t]
      BY <1>1, <2>1, <2>3 DEF TypeOK, Sem
    <3>3. Waiting(DeviceSem)' = Waiting(DeviceSem) \cup {c} /\ c \notin Waiting(DeviceSem)
      <4>1. ToSet(InsertProcQ(blocked[s], c)) = ToSet(blocked[s]) \cup {c}
        BY <1>2, InsertQueue
      <4>2. ToSet(blocked[s]) \subseteq Waiting(DeviceSem)
        BY <3>1 DEF Waiting
      <4>3. c \notin Waiting(DeviceSem)
        BY <1>2, PlaceFacts DEF Waiting, Sem
      <4>4. Waiting(DeviceSem)' =
              (Waiting(DeviceSem) \ ToSet(blocked[s])) \cup ToSet(InsertProcQ(blocked[s], c))
        BY <2>1, <3>1, WaitingUpdate
      <4> QED  BY <4>1, <4>2, <4>3, <4>4
    <3>4. Cardinality(Waiting(DeviceSem) \cup {c}) = Cardinality(Waiting(DeviceSem)) + 1
      BY <3>3, FiniteFacts, FS_AddElement
    <3>5. SoftBlockCountExact'
      BY <3>1, <3>3, <3>4 DEF SoftBlockCountExact, CountInv
    <3> QED  BY <1>1, <3>2, <3>5, ProcCountStays, SemaphoresStay DEF CountInv
  <2> QED  BY <2>2, <2>3
<1> QED  BY <1>3, <1>4

\* sys2: the process it buries is counted out, of the waiting too if it waited
\* for the clock or a device; else its P on a semaphore is undone.
LEMMA Sys2Counts ==
    ASSUME TypeOK, PlaceInv, FamilyInv, CountInv, PastLookup = {}, Sys2
    PROVE  CountInv'
<1> DEFINE d == Doomed
           s == pcb[d].p_semAdd
<1>1. kpc = "terminate" /\ d \in Live
  BY DyingFacts DEF Sys2, TakeChild, RetireCurrent, RetireReady, RetireBlocked
<1>2. CASE TakeChild
  BY <1>2, CountsStay DEF TakeChild, ready
<1>3. ASSUME NEW outcome, GoesWrong(outcome) PROVE CountInv'
  BY <1>3, CountsStay DEF GoesWrong, ready, tree
<1>4. CASE Bury(d) /\ UNCHANGED <<blocked, semVal, softBlockCnt>>
  BY <1>1, <1>4, BuryCounts, SoftBlockCountStays, SemaphoresStay DEF CountInv
<1>5. CASE RetireCurrent
  BY <1>4, <1>5 DEF RetireCurrent, ready
<1>6. CASE RetireReady
  BY <1>3, <1>4, <1>6 DEF RetireReady
<1>7. CASE RetireBlocked
  <2> DEFINE outcome == IF s \notin Sem THEN "trap"
                        ELSE IF ~HasSemd(s) THEN "absent"
                        ELSE OutAt(blocked[s], stray.blocked[s])
  <2>1. CASE outcome \notin Returns
    <3>1. GoesWrong(outcome)
      BY <1>7, <2>1 DEF RetireBlocked
    <3> QED  BY <1>3, <3>1
  <2>2. CASE outcome \in Returns
    <3>1. s \in Sem
      BY <2>2 DEF Returns
    <3>2. d \in ToSet(blocked[s]) /\ blocked[s] \in Seq(Proc) /\ IsInjective(blocked[s])
      BY <1>1, <3>1, PlaceFacts DEF BlockedOn
    <3>4. Leave(blocked[s]) = Without(blocked[s], d)
      BY <3>2 DEF Leave
    <3>5. /\ blocked' = [blocked EXCEPT ![s] = Without(blocked[s], d)]
          /\ IF OnDevice(s)
             THEN softBlockCnt' = softBlockCnt - 1 /\ UNCHANGED semVal
             ELSE semVal' = [semVal EXCEPT ![s] = semVal[s] + 1] /\ UNCHANGED softBlockCnt
          /\ Bury(d)
      BY <1>7, <2>2, <3>4 DEF RetireBlocked
    <3>6. /\ Without(blocked[s], d) \in Seq(Proc)
          /\ ToSet(Without(blocked[s], d)) = ToSet(blocked[s]) \ {d}
      BY <3>2, WithoutQueue
    <3>7. OnDevice(s) <=> s \in DeviceSem
      BY DEF OnDevice
    <3>8. CASE s \in DeviceSem
      <4>1. softBlockCnt' = softBlockCnt - 1 /\ UNCHANGED semVal
        BY <3>5, <3>7, <3>8
      <4>2. SoftBlockCountExact'
        BY <3>2, <3>5, <3>6, <3>8, <4>1, DeviceWaiterLeaves DEF CountInv
      <4>3. \A t \in UserSem : semVal'[t] = semVal[t] /\ blocked'[t] = blocked[t]
        BY <3>5, <3>8, <4>1, SemAssumption DEF TypeOK, Sem
      <4> QED  BY <1>1, <3>5, <4>2, <4>3, BuryCounts, SemaphoresStay DEF CountInv
    <3>9. CASE s \notin DeviceSem
      <4>1. /\ s \in UserSem /\ softBlockCnt' = softBlockCnt
            /\ semVal' = [semVal EXCEPT ![s] = semVal[s] + 1]
        BY <3>1, <3>5, <3>7, <3>9 DEF Sem
      <4>2. semVal[s] \in Int /\ Exact(semVal[s], blocked[s])
        BY <3>1, <4>1 DEF TypeOK, Exact, CountInv, SemCountExact
      <4>3. Exact(semVal[s] + 1, Without(blocked[s], d))
        BY <3>2, <4>2, ExactV
      <4>4. SemCountExact'
        BY <3>5, <4>1, <4>3, OneSemaphoreChanges DEF CountInv
      <4>5. SoftBlockCountExact'
        BY <3>5, <4>1, UserWaiterCounts DEF CountInv
      <4> QED  BY <1>1, <3>5, <4>4, <4>5, BuryCounts DEF CountInv
    <3> QED  BY <3>8, <3>9
  <2> QED  BY <2>1, <2>2
<1> QED  BY <1>2, <1>5, <1>6, <1>7 DEF Sys2

\* A tick counts out exactly the processes it wakes.
LEMMA IntervalTimerCounts ==
    ASSUME TypeOK, PlaceInv, CountInv, IntervalTimer PROVE CountInv'
<1> DEFINE w == TickWakes
<1>1. /\ UNCHANGED <<free, procCnt>> /\ softBlockCnt' = softBlockCnt - Len(w)
      /\ blocked' = [blocked EXCEPT ![ClockSem] = IF w = <<>> THEN @ ELSE <<>>]
      /\ semVal' = [semVal EXCEPT ![ClockSem] = 0]
  BY DEF IntervalTimer, tree
<1>2. ClockSem \in DeviceSem /\ ClockSem \in Sem /\ ClockSem \notin UserSem
  BY ClockSemType, SemAssumption
<1>3. \A t \in UserSem : semVal'[t] = semVal[t] /\ blocked'[t] = blocked[t]
  BY <1>1, <1>2 DEF TypeOK, Sem
<1>4. CASE w = <<>>
  <2>1. softBlockCnt' = softBlockCnt
    <3>1. Len(w) = 0
      BY <1>4
    <3> QED  BY <1>1, <3>1 DEF TypeOK
  <2>2. blocked' = blocked
    BY <1>1, <1>2, <1>4 DEF TypeOK
  <2> QED
    BY <1>1, <1>3, <2>1, <2>2, ProcCountStays, SoftBlockCountStays, SemaphoresStay
       DEF CountInv
<1>5. CASE w # <<>>
  <2>1. w = blocked[ClockSem]
    BY <1>5 DEF TickWakes
  <2>2. w \in Seq(Proc) /\ IsInjective(w)
    BY <1>2, <2>1, PlaceFacts
  <2>3. IsFiniteSet(ToSet(w)) /\ Cardinality(ToSet(w)) = Len(w) /\ Len(w) \in Nat
    BY <2>2, QueueCardinality, LenProperties
  <2>4. ToSet(w) \subseteq Waiting(DeviceSem)
    BY <1>2, <2>1 DEF Waiting
  <2>5. blocked' = [blocked EXCEPT ![ClockSem] = <<>>]
    BY <1>1, <1>5
  <2>6. Waiting(DeviceSem)' = Waiting(DeviceSem) \ ToSet(w)
    <3>1. Waiting(DeviceSem)' = (Waiting(DeviceSem) \ ToSet(w)) \cup ToSet(<<>>)
      BY <1>2, <2>1, <2>5, WaitingUpdate
    <3>2. ToSet(<<>>) = {}
      BY DEF ToSet
    <3> QED  BY <3>1, <3>2
  <2>7. Cardinality(Waiting(DeviceSem) \ ToSet(w)) = Cardinality(Waiting(DeviceSem)) - Len(w)
    <3>1. Waiting(DeviceSem) \cap ToSet(w) = ToSet(w)
      BY <2>4
    <3>2. Cardinality(Waiting(DeviceSem) \ ToSet(w)) =
            Cardinality(Waiting(DeviceSem)) - Cardinality(Waiting(DeviceSem) \cap ToSet(w))
      BY FiniteFacts, FS_Difference
    <3> QED  BY <2>3, <3>1, <3>2
  <2>8. SoftBlockCountExact'
    BY <1>1, <2>6, <2>7 DEF SoftBlockCountExact, CountInv
  <2> QED  BY <1>1, <1>3, <2>8, ProcCountStays, SemaphoresStay DEF CountInv
<1> QED  BY <1>4, <1>5

\* A device's interrupt counts out the process it wakes, if there is one.
LEMMA DeviceInterruptCounts ==
    ASSUME TypeOK, PlaceInv, CountInv, DeviceInterrupt PROVE CountInv'
<1> DEFINE s == IntrSem(Line, DevNum)
           p == Head(blocked[s])
<1>1. s \in DeviceSem /\ s \in Sem /\ s \notin UserSem
  BY IntrSemType, SemAssumption DEF DeviceInterrupt, TypeOK
<1>2. UNCHANGED <<free, procCnt>> /\ semVal' = IncrementDevice(s)
  BY DEF DeviceInterrupt, tree
<1>3. \A t \in UserSem : semVal'[t] = semVal[t]
  BY <1>1, <1>2 DEF IncrementDevice, TypeOK, Sem
<1>4. CASE blocked[s] = <<>>
  <2>1. UNCHANGED <<blocked, softBlockCnt>>
    BY <1>4 DEF DeviceInterrupt
  <2> QED
    BY <1>2, <1>3, <2>1, ProcCountStays, SoftBlockCountStays, SemaphoresStay DEF CountInv
<1>5. CASE blocked[s] # <<>>
  <2>1. /\ blocked' = [blocked EXCEPT ![s] = Tail(blocked[s])]
        /\ softBlockCnt' = softBlockCnt - 1
    BY <1>5 DEF DeviceInterrupt
  <2>2. /\ p \in ToSet(blocked[s]) /\ ToSet(Tail(blocked[s])) = ToSet(blocked[s]) \ {p}
    BY <1>1, <1>5, PlaceFacts, RemoveQueue
  <2>3. SoftBlockCountExact'
    BY <1>1, <2>1, <2>2, DeviceWaiterLeaves DEF CountInv
  <2>4. \A t \in UserSem : blocked'[t] = blocked[t]
    BY <1>1, <2>1 DEF TypeOK, Sem
  <2> QED  BY <1>2, <1>3, <2>3, <2>4, ProcCountStays, SemaphoresStay DEF CountInv
<1> QED  BY <1>4, <1>5

\* All the system calls.
LEMMA SyscallCounts ==
    ASSUME TypeOK, PlaceInv, CountInv, Syscall, kpc' # "panic" PROVE CountInv'
<1>1. CASE CreateProcess
  BY <1>1, CreateProcessCounts
<1>2. ASSUME NEW saved, Resume(saved) \/ CallSys2(saved) PROVE CountInv'
  BY <1>2, CountsStay DEF Resume, CallSys2, ready, tree
<1>3. CASE NoFreePcb \/ GetCpuTime \/ TerminateProcess
  BY <1>2, <1>3 DEF NoFreePcb, GetCpuTime, TerminateProcess
<1>4. ASSUME NEW s \in UserSem, Verhogen(s) PROVE CountInv'
  BY <1>4, VerhogenCounts
<1>5. ASSUME NEW s \in UserSem, Passeren(s) PROVE CountInv'
  <2>1. s \in Sem /\ (s \in DeviceSem) = FALSE
    BY SemAssumption DEF Sem
  <2> QED  BY <1>5, <2>1, PCounts DEF Passeren, Running
<1>6. CASE WaitForClock
  <2>1. ClockSem \in Sem /\ (ClockSem \in DeviceSem) = TRUE
    BY ClockSemType
  <2> QED  BY <1>6, <2>1, PCounts DEF WaitForClock, Running
<1>7. ASSUME NEW t \in VectorTypes, SpecifyVector(t) PROVE CountInv'
  BY <1>2, <1>7 DEF SpecifyVector
<1>8. ASSUME NEW d \in Device, CommandDevice(d) PROVE CountInv'
  BY <1>8, CountsStay DEF CommandDevice, ready, tree
<1>9. ASSUME NEW d \in Device, WaitForIO(d) PROVE CountInv'
  <2>1. WaitSem(d) \in Sem /\ (WaitSem(d) \in DeviceSem) = TRUE
    BY WaitSemType
  <2> QED  BY <1>9, <2>1, PCounts DEF WaitForIO, Running
<1>10. CASE CallAstray
  BY <1>10, CountsStay DEF CallAstray, GoAstray, ready, tree
<1> QED  BY <1>1, <1>3, <1>4, <1>5, <1>6, <1>7, <1>8, <1>9, <1>10 DEF Syscall

-----------------------------------------------------------------------------
\* main() counts test, and nobody waits.
LEMMA InitCounts == ASSUME Init PROVE CountInv
<1>1. Live = {Test} /\ procCnt = 1 /\ softBlockCnt = 0
  BY ProcAssumption DEF Init, Live
<1>2. ProcCountExact
  BY <1>1, FS_Singleton DEF ProcCountExact
<1>3. Waiting(DeviceSem) = {}
  BY DEF Init, Waiting, Sem, ToSet
<1>4. SoftBlockCountExact
  BY <1>1, <1>3, FS_EmptySet DEF SoftBlockCountExact
<1>5. SemCountExact
  <2>1. PICK init \in [UserSem -> 0 .. MaxSem] :
          semVal = [s \in Sem |-> IF s \in UserSem THEN init[s] ELSE 0]
    BY DEF Init
  <2>2. \A s \in UserSem : blocked[s] = <<>> /\ semVal[s] = init[s] /\ init[s] \in Nat
    BY <2>1, WorkloadAssumption DEF Init, Sem
  <2> QED  BY <2>2 DEF SemCountExact, Exact
<1> QED  BY <1>2, <1>4, <1>5 DEF CountInv

\* Every step of the nucleus keeps the counts.
LEMMA StepCounts ==
    ASSUME TypeOK, PlaceInv, FamilyInv, CountInv, PastLookup = {}, [Next]_vars,
           kpc' # "panic"
    PROVE  CountInv'
<1>1. CASE Schedule
  BY <1>1, CountsStay DEF Schedule, Dispatch, Recharge, NothingReady, ScheduleAstray,
                          GoAstray, ready, tree
<1>2. CASE Sys2
  BY <1>2, Sys2Counts
<1>3. CASE NestedTrap
  BY <1>3, CountsStay DEF NestedTrap, CallSys2, ready, tree
<1>4. CASE Syscall
  BY <1>4, SyscallCounts
<1>5. CASE Exception
  BY <1>5, CountsStay
     DEF Exception, TlbException, HighSyscall, ProgramTrap, UserModeSyscall, PassUpOrDie,
         Resume, CallSys2, ready, tree
<1>6. CASE ProcTimer
  BY <1>6, CountsStay DEF ProcTimer, tree
<1>7. CASE IntervalTimer \/ DeviceInterrupt
  BY <1>7, IntervalTimerCounts, DeviceInterruptCounts
<1>8. ASSUME NEW d \in Device, DeviceDone(d) PROVE CountInv'
  BY <1>8, CountsStay DEF DeviceDone, ready, tree
<1>9. CASE UNCHANGED vars
  BY <1>9, CountsStay DEF vars, ready, tree
<1>10. CASE InterruptAstray
  BY <1>10, CountsStay DEF InterruptAstray, GoAstray, ready, tree
<1> QED
  BY <1>1, <1>2, <1>3, <1>4, <1>5, <1>6, <1>7, <1>8, <1>9, <1>10 DEF Next, Stop, Interrupt

-----------------------------------------------------------------------------
\* A nucleus that has stopped does nothing more.
LEMMA StoppedStays ==
    ASSUME kpc \in {"astray", "panic", "hung"}, [Next]_vars PROVE UNCHANGED vars
<1>1. ~Schedule /\ ~Sys2 /\ ~NestedTrap
  BY DEF Schedule, Dispatch, Recharge, NothingReady, ScheduleAstray, Sys2, TakeChild,
         RetireCurrent, RetireReady, RetireBlocked, NestedTrap
<1>2. ~Syscall /\ ~Exception
  BY DEF Syscall, CreateProcess, NoFreePcb, TerminateProcess, Verhogen, Passeren,
         SpecifyVector, GetCpuTime, WaitForClock, CommandDevice, WaitForIO, CallAstray,
         Exception, TlbException, HighSyscall, ProgramTrap, UserModeSyscall, PassUpOrDie,
         Running
<1>3. ~Interrupt /\ \A d \in Device : ~DeviceDone(d)
  BY DEF Interrupt, ProcTimer, IntervalTimer, DeviceInterrupt, InterruptAstray,
         Interruptible, DeviceDone, Stopped
<1> QED  BY <1>1, <1>2, <1>3 DEF Next, Stop

\* Before the nucleus follows a stray tail it has not followed one.
LEMMA NotYetAstray == ASSUME [Next]_vars, kpc' # "astray" PROVE kpc # "astray"
BY StoppedStays DEF vars

\* The inductive invariant: every variable has its type, and until a list operation
\* follows a tail pointer that names a freed pcb, each pcb is where its fields say
\* and the tree and the stack of sys2 are sound.
THEOREM Invariant == Spec => [](TypeOK /\ (kpc # "astray" => IInv))
<1>1. Init => TypeOK /\ (kpc # "astray" => IInv)
  BY InitType, InitPlaces, InitFamily DEF IInv
<1>2. TypeOK /\ (kpc # "astray" => IInv) /\ [Next]_vars
          => (TypeOK /\ (kpc # "astray" => IInv))'
  <2> SUFFICES ASSUME TypeOK, kpc # "astray" => IInv, [Next]_vars
               PROVE  TypeOK' /\ (kpc' # "astray" => IInv')
    OBVIOUS
  <2>1. CASE kpc = "astray"
    <3>1. UNCHANGED vars
      BY <2>1, StoppedStays
    <3>2. kpc' = "astray"
      BY <2>1, <3>1 DEF vars
    <3>3. TypeOK'
      BY <3>1 DEF vars, ready, tree, devices, TypeOK
    <3> QED  BY <3>2, <3>3
  <2>2. CASE kpc # "astray"
    <3>1. TypeOK /\ ControlInv /\ DyingInv /\ PlaceInv /\ FamilyInv
      BY <2>2 DEF IInv, PlaceInv, FamilyInv
    <3>2. TypeOK'
      BY <3>1, StepType
    <3>3. FamilyInv' /\ (kpc' # "astray" => PlaceInv')
      BY <3>1, StepFamily, StepPlaces
    <3> QED  BY <3>2, <3>3 DEF IInv
  <2> QED  BY <2>1, <2>2
<1> QED  BY <1>1, <1>2, PTL DEF Spec

\* Every variable of the nucleus keeps its type.
THEOREM TypeCorrect == Spec => []TypeOK
BY Invariant, PTL

-----------------------------------------------------------------------------
\* Where no tail is stray, putInQ finds a queue for every process.
LEMMA IntactTargets ==
    ASSUME Intact PROVE \A r : TargetSound(r)
BY QueueForRange DEF Intact, TargetSound

\* A step of sys2 goes astray only on a stray tail.
LEMMA Sys2Follows ==
    ASSUME TypeOK, Sys2, kpc' = "astray" PROVE UNCHANGED stray /\ ~Intact
<1>1. \A q \in Seq(Proc) : OutAt(q, NULL) # "astray"
  <2> TAKE q \in Seq(Proc)
  <2>1. OutProcQ(q, Doomed) # "astray"
    BY OutProcQOutcome
  <2> QED  BY <2>1 DEF OutAt
<1>2. kpc = "terminate"
  BY DEF Sys2, TakeChild, RetireCurrent, RetireReady, RetireBlocked
<1>3. ~TakeChild /\ ~RetireCurrent
  BY <1>2 DEF TakeChild, RetireCurrent, Bury
<1>4. CASE RetireReady
  <2> DEFINE outcome == OutAt(mlpq[FoundAt], stray.ready[FoundAt])
  <2>1. FoundAt \in 0 .. 2 /\ mlpq[FoundAt] \in Seq(Proc)
    BY FoundAtRange DEF TypeOK
  <2>2. GoesWrong(outcome)
    BY <1>2, <1>4 DEF RetireReady, Bury
  <2>3. outcome = "astray"
    BY <2>2 DEF GoesWrong
  <2>4. stray.ready[FoundAt] # NULL
    BY <1>1, <2>1, <2>3
  <2> QED  BY <2>1, <2>2, <2>4 DEF GoesWrong, ready, Intact, ReadySound
<1>5. CASE RetireBlocked
  <2> DEFINE s == pcb[Doomed].p_semAdd
             outcome == IF s \notin Sem THEN "trap" ELSE IF ~HasSemd(s) THEN "absent"
                        ELSE OutAt(blocked[s], stray.blocked[s])
  <2>1. GoesWrong(outcome)
    BY <1>2, <1>5 DEF RetireBlocked, Bury
  <2>2. outcome = "astray"
    BY <2>1 DEF GoesWrong
  <2>3. s \in Sem /\ OutAt(blocked[s], stray.blocked[s]) = "astray"
    BY <2>2
  <2>4. stray.blocked[s] # NULL
    BY <1>1, <2>3 DEF TypeOK
  <2> QED  BY <2>1, <2>3, <2>4 DEF GoesWrong, ready, Intact, SemSound
<1> QED  BY <1>3, <1>4, <1>5 DEF Sys2

\* No step leads the nucleus astray while every tail is sound.
LEMMA AstrayFollows ==
    ASSUME TypeOK, [Next]_vars, kpc # "astray", kpc' = "astray"
    PROVE  UNCHANGED stray /\ ~Intact
<1>1. ASSUME GoAstray PROVE UNCHANGED stray
  BY <1>1 DEF GoAstray, ready
<1>2. CASE Schedule
  <2>1. ScheduleAstray
    BY <1>2 DEF Schedule, Dispatch, Recharge, NothingReady, IdleState
  <2>2. NonEmpty \subseteq 0 .. 2 /\ NonEmpty # {}
    BY <2>1 DEF ScheduleAstray, NonEmpty
  <2>3. NextQueue \in 0 .. 2
    BY <2>2, SmallMinimum DEF NextQueue
  <2> QED  BY <1>1, <2>1, <2>3, IntactTargets DEF ScheduleAstray, Intact
<1>3. CASE Syscall
  <2>1. CallAstray
    BY <1>3 DEF Syscall, CreateProcess, NoFreePcb, TerminateProcess, Verhogen, Passeren,
         SpecifyVector, GetCpuTime, WaitForClock, CommandDevice, WaitForIO,
         P, Resume, CallSys2, Running
  <2>2. /\ UserSem \cup {ClockSem} \subseteq Sem
        /\ \A d \in Device : WaitSem(d) \in Sem
    BY ClockSemType, WaitSemType DEF Sem
  <2> QED
    BY <1>1, <2>1, <2>2, IntactTargets DEF CallAstray, WakesSoundly, JoinsSoundly, Intact
<1>4. CASE Interrupt
  <2>1. InterruptAstray
    BY <1>4 DEF Interrupt, ProcTimer, IntervalTimer, DeviceInterrupt, Return
  <2>2. ASSUME Intact PROVE FALSE
    <3>1. ReturnsSoundly /\ TargetSound(Expired)
      BY <2>2, IntactTargets DEF ReturnsSoundly
    <3>2. TicksSoundly
      BY <2>2, <3>1, ClockSemType DEF TicksSoundly, Intact
    <3>3. pending # {} => SignalsSoundly
      BY <2>2, <3>1, IntrSemType DEF SignalsSoundly, Intact, TypeOK
    <3> QED  BY <2>1, <3>1, <3>2, <3>3 DEF InterruptAstray
  <2> QED  BY <1>1, <2>1, <2>2 DEF InterruptAstray
<1>5. ~NestedTrap /\ ~Exception /\ \A d \in Device : ~DeviceDone(d)
  BY DEF NestedTrap, CallSys2, DeviceDone, Exception, TlbException, HighSyscall,
         ProgramTrap, UserModeSyscall, PassUpOrDie, Running, Resume
<1>6. ~UNCHANGED vars
  BY DEF vars
<1> QED  BY <1>2, <1>3, <1>4, <1>5, <1>6, Sys2Follows DEF Next, Stop

\* Nothing but a stray tail leads the nucleus astray: what holds until then holds
\* for ever in a workload in which SYS2 never frees the tail of a queue of several.
THEOREM OnlyStrayTailsLeadAstray == Spec => [](Intact => kpc # "astray")
<1>1. Init => (Intact => kpc # "astray")
  BY DEF Init
<1>2. TypeOK /\ (Intact => kpc # "astray") /\ [Next]_vars => (Intact => kpc # "astray")'
  <2> SUFFICES ASSUME TypeOK, Intact => kpc # "astray", [Next]_vars, kpc' = "astray"
               PROVE  ~Intact'
    OBVIOUS
  <2>1. UNCHANGED stray /\ ~Intact
    BY AstrayFollows, StoppedStays DEF vars, ready
  <2> QED  BY <2>1 DEF Intact, ReadySound, SemSound
<1> QED  BY <1>1, <1>2, TypeCorrect, PTL DEF Spec

-----------------------------------------------------------------------------
\* Who is ready and who waits.
LEMMA WhoWaits ==
    ASSUME TypeOK, PlaceInv
    PROVE  /\ UNION {ToSet(mlpq[i]) : i \in 0 .. 2} = Unblocked \ Active
           /\ Waiting(Sem) = Live \ Unblocked
<1> DEFINE inReady == UNION {ToSet(mlpq[i]) : i \in 0 .. 2}
<1>1. /\ Holds(mlpq, Unblocked \ Active) /\ Unblocked \subseteq Live
      /\ \A s \in Sem : ToSet(blocked[s]) = BlockedOn(s)
  BY PlaceFacts
<1>2. inReady \subseteq Unblocked \ Active
  BY <1>1 DEF Holds
<1>3. ASSUME NEW p \in Unblocked \ Active PROVE p \in inReady
  BY <1>1, HoldsMember
<1>4. Waiting(Sem) = UNION {BlockedOn(s) : s \in Sem}
  BY <1>1 DEF Waiting
<1>5. UNION {BlockedOn(s) : s \in Sem} = Live \ Unblocked
  BY DEF BlockedOn, Unblocked
<1> QED  BY <1>2, <1>3, <1>4, <1>5

\* The invariant tells, for every pcb, its one place.
LEMMA PlaceIsOne == ASSUME TypeOK, PlaceInv PROVE OnePlace
<1> DEFINE inReady == UNION {ToSet(mlpq[i]) : i \in 0 .. 2}
<1>1. /\ Holds(mlpq, Unblocked \ Active) /\ Active \subseteq Unblocked
      /\ Unblocked \subseteq Live
      /\ \A s \in Sem : /\ IsInjective(blocked[s]) /\ ToSet(blocked[s]) = BlockedOn(s)
                        /\ BlockedOn(s) \cap Unblocked = {} /\ BlockedOn(s) \subseteq Live
  BY PlaceFacts
<1>2. \A q \in Queues : IsInjective(q)
  BY <1>1 DEF Queues, Holds
<1>3. \A i, j \in 0 .. 2 : i # j => ToSet(mlpq[i]) \cap ToSet(mlpq[j]) = {}
  BY <1>1 DEF Holds
<1>4. \A s, t \in Sem : s # t => ToSet(blocked[s]) \cap ToSet(blocked[t]) = {}
  BY <1>1 DEF BlockedOn
<1>5. inReady = Unblocked \ Active /\ Waiting(Sem) = Live \ Unblocked
  BY WhoWaits
<1> HIDE DEF inReady
<1>6. /\ inReady \cap Waiting(Sem) = {}
      /\ Active \cap (inReady \cup Waiting(Sem)) = {}
      /\ inReady \cup Waiting(Sem) \cup Active = Live
  BY <1>1, <1>5
<1> QED  BY <1>2, <1>3, <1>4, <1>6 DEF OnePlace, inReady

\* However many processes and semaphores there are and in whatever order the
\* handlers run: as long as no tail is stray, a pcb is free, running, or once in
\* one queue.
THEOREM EveryPcbInOnePlace == Spec => []OnePlace
<1>1. (kpc # "astray" => IInv) /\ (Intact => kpc # "astray") => OnePlace
  BY PlaceIsOne DEF IInv, OnePlace
<1> QED  BY <1>1, Invariant, OnlyStrayTailsLeadAstray, PTL

\* The same for the tree of processes, stray tails or not: until one is followed it
\* has live processes only, each the child of one at most, and sys2 finds an end on
\* every path down.
THEOREM TreeIsSound == Spec => []FamilyKept
<1>1. (kpc # "astray" => IInv) => FamilyKept
  BY DEF IInv, FamilyKept
<1> QED  BY <1>1, Invariant, PTL

\* p_semAdd and currentProc tell where a pcb is, through traps in the middle of a
\* handler and through kills, until a queue is reached by a tail that SYS2 freed.
THEOREM FieldsTellThePlace == Spec => []FieldsTellPlace
<1>1. (kpc # "astray" => IInv) => FieldsTellPlace
  BY DEF IInv, FieldsTellPlace
<1> QED  BY <1>1, Invariant, PTL

-----------------------------------------------------------------------------
\* The counts are exact in every state up to a P without a descriptor, if none of
\* the nine words after deviceLookup is a semaphore.
LEMMA CountsStayExact ==
    ASSUME PastLookup = {} PROVE Spec => [](kpc # "panic" => CountInv)
<1>1. Init => (kpc # "panic" => CountInv)
  BY InitCounts
<1>2. (kpc # "astray" => IInv) /\ (kpc # "panic" => CountInv) /\ [Next]_vars
          => (kpc # "panic" => CountInv)'
  <2> SUFFICES ASSUME kpc # "astray" => IInv, kpc # "panic" => CountInv, [Next]_vars,
                      kpc' # "panic"
               PROVE  CountInv'
    OBVIOUS
  <2>1. kpc # "panic" /\ CountInv
    BY StoppedStays DEF vars
  <2>2. CASE kpc = "astray"
    BY <2>1, <2>2, StoppedStays, CountsStay DEF vars, ready, tree
  <2>3. CASE kpc # "astray"
    BY <2>1, <2>3, StepCounts DEF IInv
  <2> QED  BY <2>2, <2>3
<1> QED  BY <1>1, <1>2, Invariant, PTL DEF Spec

\* procCnt and softBlockCnt, by which an idle scheduler decides, are right after
\* every handler, kills that leave a stray tail and traps of the nucleus included.
THEOREM CountersAreExact == ASSUME PastLookup = {} PROVE Spec => []CountsExact
<1>1. (kpc # "panic" => CountInv) => CountsExact
  BY DEF CountInv, ProcCountExact, SoftBlockCountExact, CountsExact, OnCourse
<1> QED  BY <1>1, CountsStayExact, PTL

\* A semaphore of the processes tells how many wait for it, whoever is killed and
\* whatever tail that leaves, until the tail is followed.
THEOREM SemaphoresAreExact == ASSUME PastLookup = {} PROVE Spec => []SemaphoresExact
<1>1. (kpc # "panic" => CountInv) => SemaphoresExact
  BY DEF CountInv, SemCountExact, Exact, SemaphoresExact, OnCourse
<1> QED  BY <1>1, CountsStayExact, PTL

-----------------------------------------------------------------------------
\* Without a ready process, everybody waits for a semaphore.
LEMMA NobodyReady ==
    ASSUME TypeOK, PlaceInv, kpc = "schedule", NonEmpty = {}
    PROVE  Live = Waiting(DeviceSem) \cup Waiting(UserSem)
<1>1. \A i \in 0 .. 2 : mlpq[i] = <<>>
  BY DEF NonEmpty
<1>2. UNION {ToSet(mlpq[i]) : i \in 0 .. 2} = {}
  BY <1>1 DEF ToSet
<1>3. Active = {}
  BY DEF Active
<1>4. Waiting(Sem) = Live
  <2>1. Unblocked = {}
    BY <1>2, <1>3, WhoWaits
  <2> QED  BY <2>1, WhoWaits
<1>5. Waiting(Sem) = Waiting(DeviceSem) \cup Waiting(UserSem)
  BY DEF Waiting, Sem
<1> QED  BY <1>4, <1>5

\* The scheduler's verdict is right when it is given.
LEMMA VerdictIsTrue ==
    ASSUME TypeOK, PlaceInv, CountInv, NothingReady PROVE StopIsRight'
<1>1. /\ kpc = "schedule" /\ NonEmpty = {} /\ kpc' = IdleState
      /\ UNCHANGED <<free, blocked>>
  BY DEF NothingReady, ready, tree
<1>2. Live = Waiting(DeviceSem) \cup Waiting(UserSem)
  BY <1>1, NobodyReady
<1>3. Live' = Live /\ Waiting(UserSem)' = Waiting(UserSem)
  BY <1>1 DEF Live, Waiting
<1>4. (procCnt = 0 <=> Live = {}) /\ (softBlockCnt = 0 <=> Waiting(DeviceSem) = {})
  BY FiniteFacts, FS_EmptySet DEF CountInv, ProcCountExact, SoftBlockCountExact
<1>5. kpc' = "halted" => procCnt = 0
  BY <1>1 DEF IdleState
<1>6. kpc' = "deadlock" => procCnt # 0 /\ softBlockCnt = 0
  BY <1>1 DEF IdleState
<1> QED  BY <1>2, <1>3, <1>4, <1>5, <1>6 DEF StopIsRight

\* Only NothingReady gives it.
LEMMA OthersGoOn ==
    ASSUME TypeOK, [Next]_vars, ~NothingReady, StopIsRight PROVE StopIsRight'
<1>1. ASSUME kpc' \notin {"halted", "deadlock"} PROVE StopIsRight'
  BY <1>1 DEF StopIsRight
<1>2. ASSUME UNCHANGED <<kpc, free, blocked>> PROVE StopIsRight'
  BY <1>2 DEF StopIsRight, Live, Waiting
<1>3. CASE Schedule
  BY <1>1, <1>3 DEF Schedule, Dispatch, Recharge, ScheduleAstray, GoAstray
<1>4. CASE Sys2
  <2>1. ASSUME NEW outcome \in {"trap", "hang", "astray"}, GoesWrong(outcome)
        PROVE  StopIsRight'
    BY <1>1, <2>1 DEF GoesWrong
  <2>2. ASSUME NEW p, Bury(p), kpc = "terminate" PROVE StopIsRight'
    BY <1>1, <2>2 DEF Bury
  <2>3. CASE TakeChild \/ RetireCurrent
    BY <1>1, <2>2, <2>3 DEF TakeChild, RetireCurrent
  <2>4. CASE RetireReady
    <3>1. OutAt(mlpq[FoundAt], stray.ready[FoundAt]) \in Returns \cup {"trap", "hang", "astray"}
      BY FoundAtRange, OutAtOutcome DEF TypeOK
    <3> QED  BY <2>1, <2>2, <2>4, <3>1 DEF RetireReady
  <2>5. CASE RetireBlocked
    <3> DEFINE s == pcb[Doomed].p_semAdd
               outcome == IF s \notin Sem THEN "trap" ELSE IF ~HasSemd(s) THEN "absent"
                          ELSE OutAt(blocked[s], stray.blocked[s])
    <3>1. outcome \in Returns \cup {"trap", "hang", "astray"}
      BY SeekOutcome
    <3>2. /\ kpc = "terminate"
          /\ IF outcome \in Returns THEN Bury(Doomed) ELSE GoesWrong(outcome)
      BY <2>5 DEF RetireBlocked
    <3> QED  BY <2>1, <2>2, <3>1, <3>2
  <2> QED  BY <1>4, <2>3, <2>4, <2>5 DEF Sys2
<1>5. CASE NestedTrap
  BY <1>1, <1>5 DEF NestedTrap, CallSys2
<1>6. CASE Syscall
  <2>1. Running
    BY <1>6 DEF Syscall, CreateProcess, NoFreePcb, TerminateProcess, Verhogen, Passeren,
         SpecifyVector, GetCpuTime, WaitForClock, CommandDevice, WaitForIO, CallAstray
  <2>2. kpc' \in {kpc, "trap", "terminate", "panic", "schedule", "astray"}
    BY <1>6 DEF Syscall, CreateProcess, NoFreePcb, TerminateProcess, Verhogen, Passeren,
         SpecifyVector, GetCpuTime, WaitForClock, CommandDevice, WaitForIO,
         CallAstray, GoAstray, P, Resume, CallSys2
  <2> QED  BY <1>1, <2>1, <2>2 DEF Running
<1>7. CASE Exception
  BY <1>1, <1>7 DEF Exception, TlbException, HighSyscall, ProgramTrap, UserModeSyscall,
       PassUpOrDie, Running, Resume, CallSys2
<1>8. CASE Interrupt
  <2>1. kpc' \in {"run", "schedule", "trap", "astray"}
    BY <1>8 DEF Interrupt, ProcTimer, IntervalTimer, DeviceInterrupt, InterruptAstray,
         GoAstray, Return
  <2> QED  BY <1>1, <2>1
<1>9. ASSUME NEW d \in Device, DeviceDone(d) PROVE StopIsRight'
  BY <1>2, <1>9 DEF DeviceDone, ready, tree
<1>10. CASE UNCHANGED vars
  BY <1>2, <1>10 DEF vars, ready, tree
<1> QED  BY <1>3, <1>4, <1>5, <1>6, <1>7, <1>8, <1>9, <1>10 DEF Next, Stop

\* The scheduler HALTs only when no process is left, and PANICs for a deadlock
\* only when all processes wait for each other: never while the clock or a
\* device may still wake one.  A stray tail does not make it stop: the queue it
\* belongs to does not look empty.
THEOREM SchedulerStopsRightly == ASSUME PastLookup = {} PROVE Spec => []StopIsRight
<1>1. Init => StopIsRight
  BY DEF Init, StopIsRight
<1>2. TypeOK /\ (kpc # "astray" => IInv) /\ (kpc # "panic" => CountInv) /\ StopIsRight
          /\ [Next]_vars => StopIsRight'
  <2>1. NothingReady => kpc \notin {"astray", "panic"}
    BY DEF NothingReady
  <2> QED  BY <2>1, VerdictIsTrue, OthersGoOn DEF IInv
<1> QED  BY <1>1, <1>2, Invariant, CountsStayExact, PTL DEF Spec

-----------------------------------------------------------------------------
\* A step is one of ProcessLife or leaves what ProcessLife sees alone.
LifeStep == Life!Next \/ UNCHANGED Life!life

\* The queue operations of ProcessLife are those of the nucleus.
LEMMA SameQueueOperations ==
    /\ \A q, p : Life!InsertProcQ(q, p) = InsertProcQ(q, p)
    /\ \A q, p : Life!Leave(q, p) = IF p \in ToSet(q) THEN Without(q, p) ELSE q
    /\ \A q : Life!ToSet(q) = ToSet(q)
<1>1. \A q : Life!ToSet(q) = ToSet(q)
  BY DEF Life!ToSet, ToSet
<1>2. \A q, p : Life!Without(q, p) = Without(q, p)
  BY DEF Life!Without, Without, Life!RemoveAt, RemoveAt
<1>3. \A q, p : Life!InsertProcQ(q, p) = InsertProcQ(q, p)
  BY DEF Life!InsertProcQ, InsertProcQ
<1> QED  BY <1>1, <1>2, <1>3 DEF Life!Leave

\* Nothing happens that a process would see.
LEMMA Unseen ==
    ASSUME UNCHANGED <<free, blocked, semVal>>, Active' = Active, Verdict' = Verdict
    PROVE  LifeStep
BY DEF LifeStep, Life!life, Live, Permits

\* At most the turn of the running process ends.
LEMMA TurnEnds ==
    ASSUME UNCHANGED <<free, blocked, semVal>>, Active' = {}, Verdict' = Verdict
    PROVE  LifeStep
BY DEF LifeStep, Life!Next, Life!Preempt, Live, Permits

\* The semaphores of the processes have the value their queues tell.
LEMMA PermitsOf ==
    ASSUME TypeOK, SemCountExact, NEW s \in UserSem
    PROVE  /\ semVal[s] \in Int /\ blocked[s] \in Seq(Proc)
           /\ blocked[s] # <<>> => semVal[s] < 0 /\ Permits[s] = 0
           /\ blocked[s] = <<>> => semVal[s] >= 0 /\ Permits[s] = semVal[s]
<1>1. /\ semVal[s] \in Int /\ blocked[s] \in Seq(Proc) /\ s \in Sem
  BY DEF TypeOK, Sem
<1>2. Len(blocked[s]) \in Nat /\ (blocked[s] = <<>> <=> Len(blocked[s]) = 0)
  BY <1>1, QueueElements
<1>3. Permits[s] = semVal[s] + Len(blocked[s])
  BY DEF Permits
<1> QED  BY <1>1, <1>2, <1>3 DEF SemCountExact, Exact

\* A P that waits, a V that wakes and the death of one that waits change none.
LEMMA PermitsStay ==
    ASSUME TypeOK, NEW s \in UserSem, NEW v, semVal' = [semVal EXCEPT ![s] = v],
           NEW q, blocked' = [blocked EXCEPT ![s] = q],
           v + Len(q) = semVal[s] + Len(blocked[s])
    PROVE  Permits' = Permits
<1>1. \A t \in UserSem : /\ semVal'[t] = IF t = s THEN v ELSE semVal[t]
                         /\ blocked'[t] = IF t = s THEN q ELSE blocked[t]
  BY DEF TypeOK, Sem
<1>2. \A t \in UserSem : semVal'[t] + Len(blocked'[t]) = semVal[t] + Len(blocked[t])
  BY <1>1
<1> QED  BY <1>2 DEF Permits

\* What happens to a semaphore of the nucleus changes no permits.
LEMMA DevicePermits ==
    ASSUME TypeOK, NEW s \in DeviceSem, NEW v, semVal' = [semVal EXCEPT ![s] = v],
           NEW q, blocked' = [blocked EXCEPT ![s] = q]
    PROVE  Permits' = Permits
<1>1. \A t \in UserSem : semVal'[t] = semVal[t] /\ blocked'[t] = blocked[t]
  BY SemAssumption DEF TypeOK, Sem
<1> QED  BY <1>1 DEF Permits

\* The machine fails: in a P it cannot finish, or within a call of its own.
LEMMA FailLife ==
    ASSUME TypeOK, Verdict = "none", Verdict' = "failed", UNCHANGED <<free, blocked>>,
           currentProc' \in Proc \cup {NULL},
           \/ UNCHANGED Permits
           \/ \E s \in UserSem : Permits' = [Permits EXCEPT ![s] = @ - 1]
    PROVE  LifeStep
<1>1. Active' \in SUBSET Proc
  BY DEF Active
<1>2. Life!Fail
  BY <1>1 DEF Life!Fail, Live
<1> QED  BY <1>2 DEF LifeStep, Life!Next

\* It fails since it follows a stray tail.
LEMMA AstrayLife ==
    ASSUME TypeOK, kpc \notin Stopped, GoAstray PROVE LifeStep
<1>1. kpc' = "astray" /\ UNCHANGED <<currentProc, free, blocked, semVal>>
  BY DEF GoAstray, ready, tree
<1>2. Verdict = "none" /\ Verdict' = "failed"
  BY <1>1 DEF Verdict, Stopped
<1> QED  BY <1>1, <1>2, FailLife DEF Permits, TypeOK

-----------------------------------------------------------------------------
\* The scheduler.
LEMMA ScheduleLife ==
    ASSUME TypeOK, PlaceInv, StopIsRight, StopIsRight', Schedule PROVE LifeStep
<1>1. /\ kpc = "schedule" /\ Active = {} /\ Verdict = "none"
      /\ UNCHANGED <<free, blocked, semVal>>
  BY DEF Schedule, Dispatch, Recharge, NothingReady, ScheduleAstray, GoAstray, Active,
         Verdict, ready, tree
<1>2. CASE Recharge
  BY <1>1, <1>2, Unseen DEF Recharge, Active, Verdict
<1>3. CASE Dispatch
  <2>1. NextProc \in Unblocked \ Active
    BY <1>3, HoldsNext, PlaceFacts DEF Dispatch
  <2>2. NextProc \in Live /\ NextProc \in Proc
    BY <2>1, PlaceFacts
  <2>3. \A s \in Sem : NextProc \notin ToSet(blocked[s])
    BY <2>1, PlaceFacts
  <2>4. ~Life!Waits(NextProc, UserSem \cup DeviceSem)
    BY <2>3, SameQueueOperations DEF Life!Waits, Sem
  <2>5. NextProc # NULL
    BY <2>2, ProcAssumption
  <2>6. Active' = {NextProc} /\ Verdict' = "none"
    BY <1>3, <2>5 DEF Dispatch, Active, Verdict
  <2>7. Life!Run(NextProc)
    BY <1>1, <2>2, <2>4, <2>6 DEF Life!Run, Live, Permits
  <2> QED  BY <2>2, <2>7 DEF LifeStep, Life!Next
<1>4. CASE NothingReady
  <2>1. kpc' \in {"wait", "halted", "deadlock"} /\ Active' = {}
    BY <1>4 DEF NothingReady, IdleState, Active
  <2>2. CASE kpc' = "wait"
    BY <1>1, <2>1, <2>2, Unseen DEF Verdict
  <2>3. CASE kpc' = "halted"
    <3>1. Live = {} /\ Verdict' = "halted"
      BY <1>1, <2>3 DEF StopIsRight, Live, Verdict
    <3>2. Life!Halt
      BY <1>1, <2>1, <3>1 DEF Life!Halt, Live, Permits
    <3> QED  BY <3>2 DEF LifeStep, Life!Next
  <2>4. CASE kpc' = "deadlock"
    <3>1. Live # {} /\ Live = Waiting(UserSem) /\ Verdict' = "deadlock"
      BY <1>1, <2>4 DEF StopIsRight, Live, Waiting, Verdict
    <3>2. \A p \in Live : Life!Waits(p, UserSem)
      BY <3>1, SameQueueOperations DEF Life!Waits, Waiting
    <3>3. Life!Deadlock
      BY <1>1, <2>1, <3>1, <3>2 DEF Life!Deadlock, Live, Permits
    <3> QED  BY <3>3 DEF LifeStep, Life!Next
  <2> QED  BY <2>1, <2>2, <2>3, <2>4
<1>5. CASE ScheduleAstray
  BY <1>1, <1>5, AstrayLife DEF ScheduleAstray, Stopped
<1> QED  BY <1>2, <1>3, <1>4, <1>5 DEF Schedule
-----------------------------------------------------------------------------
\* A process dies: it is not blocked, or leaves the queue of its semaphore.
LEMMA DeathLife ==
    ASSUME TypeOK, PlaceInv, kpc = "terminate", NEW d \in Live,
           free' = free \cup {d}, Active' = Active \ {d}, Verdict' = Verdict,
           Permits' = Permits,
           \/ d \in Unblocked /\ UNCHANGED blocked
           \/ \E s \in Sem : /\ d \in BlockedOn(s)
                             /\ blocked' = [blocked EXCEPT ![s] = Without(@, d)]
    PROVE  LifeStep
<1>1. /\ d \in Proc /\ Active # {} /\ blocked \in [Sem -> Seq(Proc)]
      /\ blocked' \in [Sem -> Seq(Proc)]
      /\ Live' = Live \ {d}
  <2>1. d \in Proc /\ Active # {} /\ blocked \in [Sem -> Seq(Proc)] /\ Live' = Live \ {d}
    BY RunningFacts DEF Live, TypeOK
  <2>2. ASSUME NEW s \in Sem, d \in BlockedOn(s) PROVE Without(blocked[s], d) \in Seq(Proc)
    BY <2>2, PlaceFacts, WithoutQueue
  <2> QED  BY <2>1, <2>2
<1>2. \A s \in Sem : blocked'[s] = IF d \in ToSet(blocked[s]) THEN Without(blocked[s], d)
                                   ELSE blocked[s]
  <2>1. CASE d \in Unblocked /\ UNCHANGED blocked
    BY <2>1, PlaceFacts
  <2>2. ASSUME NEW t \in Sem, d \in BlockedOn(t),
               blocked' = [blocked EXCEPT ![t] = Without(@, d)]
        PROVE  \A s \in Sem : blocked'[s] = IF d \in ToSet(blocked[s])
                                            THEN Without(blocked[s], d) ELSE blocked[s]
    <3>1. \A s \in Sem : d \in ToSet(blocked[s]) <=> s = t
      BY <2>2, PlaceFacts DEF BlockedOn
    <3> QED  BY <1>1, <2>2, <3>1
  <2> QED  BY <2>1, <2>2
<1>3. blocked' = [s \in Sem |-> Life!Leave(blocked[s], d)]
  BY <1>1, <1>2, SameQueueOperations
<1>4. Life!Die(d)
  BY <1>1, <1>3 DEF Life!Die, Sem, DeviceSem
<1> QED  BY <1>1, <1>4 DEF LifeStep, Life!Next

\* The body of sys2 for the process at the end of the recursion.
LEMMA BuryLife ==
    ASSUME TypeOK, PlaceInv, FamilyInv, kpc = "terminate", Bury(Doomed),
           UNCHANGED currentProc
    PROVE  /\ Doomed \in Live /\ free' = free \cup {Doomed}
           /\ Active' = Active \ {Doomed} /\ Verdict' = Verdict
<1> DEFINE d == Doomed
<1>1. /\ Len(dying) \in Nat \ {0} /\ d \in Live /\ dying[1] = currentProc
      /\ \A i, j \in 1 .. Len(dying) : dying[i] = dying[j] => i = j
  BY DyingFacts
<1>2. Active = {currentProc}
  BY RunningFacts
<1>3. d = currentProc <=> Len(dying) = 1
  <2>1. d = dying[Len(dying)] /\ 1 \in 1 .. Len(dying) /\ Len(dying) \in 1 .. Len(dying)
    BY <1>1 DEF Doomed
  <2> HIDE DEF d
  <2> QED  BY <1>1, <2>1
<1>4. CASE Len(dying) = 1
  BY <1>1, <1>2, <1>3, <1>4 DEF Bury, Active, Verdict
<1>5. CASE Len(dying) # 1
  <2>1. kpc' = "terminate" /\ free' = free \cup {d}
    BY <1>5 DEF Bury
  <2>2. Active' = {currentProc}
    BY <1>2, <2>1 DEF Active
  <2> QED  BY <1>1, <1>2, <1>3, <1>5, <2>1, <2>2 DEF Verdict
<1> QED  BY <1>4, <1>5

\* A queue operation of sys2 goes wrong: the processes stay where they are.
LEMMA GoesWrongLife ==
    ASSUME TypeOK, kpc = "terminate", NEW outcome \in {"trap", "hang", "astray"},
           GoesWrong(outcome), UNCHANGED currentProc
    PROVE  LifeStep
<1>1. UNCHANGED <<free, blocked, semVal>> /\ kpc' \in {"hung", "astray", "trap"}
  BY DEF GoesWrong, ready, tree
<1>2. CASE kpc' = "trap"
  BY <1>1, <1>2, Unseen DEF Active, Verdict
<1>3. CASE kpc' \in {"hung", "astray"}
  <2>1. Verdict = "none" /\ Verdict' = "failed"
    BY <1>3 DEF Verdict
  <2> QED  BY <1>1, <2>1, FailLife DEF Permits, TypeOK
<1> QED  BY <1>1, <1>2, <1>3

\* sys2, one call or one return at a time.
LEMMA Sys2Life ==
    ASSUME TypeOK, PlaceInv, FamilyInv, SemCountExact, PastLookup = {}, Sys2
    PROVE  LifeStep
<1> DEFINE d == Doomed
           s == pcb[d].p_semAdd
<1>1. kpc = "terminate" /\ d \in Live /\ UNCHANGED currentProc
  BY DyingFacts DEF Sys2, TakeChild, RetireCurrent, RetireReady, RetireBlocked
<1>2. CASE TakeChild
  BY <1>2, Unseen DEF TakeChild, ready, Active, Verdict
<1>3. CASE RetireCurrent
  <2>1. d = currentProc /\ Bury(d) /\ UNCHANGED <<blocked, semVal>>
    BY <1>3 DEF RetireCurrent, ready
  <2>2. d \in Unblocked
    BY <1>1, <2>1, RunningFacts
  <2>3. Permits' = Permits
    BY <2>1 DEF Permits
  <2> QED  BY <1>1, <2>1, <2>2, <2>3, BuryLife, DeathLife
<1>4. CASE RetireReady
  <2>1. d # currentProc /\ pcb[d].p_semAdd = NULL
    BY <1>4 DEF RetireReady
  <2>2. CASE Bury(d) /\ UNCHANGED <<blocked, semVal>>
    <3>1. d \in Unblocked
      BY <1>1, <2>1, DoomedIsReady
    <3>2. Permits' = Permits
      BY <2>2 DEF Permits
    <3> QED  BY <1>1, <2>2, <3>1, <3>2, BuryLife, DeathLife
  <2>3. ASSUME NEW outcome \in {"trap", "hang", "astray"}, GoesWrong(outcome) PROVE LifeStep
    BY <1>1, <2>3, GoesWrongLife
  <2>4. OutAt(mlpq[FoundAt], stray.ready[FoundAt]) \in Returns \cup {"trap", "hang", "astray"}
    BY FoundAtRange, OutAtOutcome DEF TypeOK
  <2> QED  BY <1>4, <2>2, <2>3, <2>4 DEF RetireReady, Returns
<1>5. CASE RetireBlocked
  <2> DEFINE outcome == IF s \notin Sem THEN "trap"
                        ELSE IF ~HasSemd(s) THEN "absent"
                        ELSE OutAt(blocked[s], stray.blocked[s])
  <2>1. CASE outcome \notin Returns
    <3>1. GoesWrong(outcome)
      BY <1>5, <2>1 DEF RetireBlocked
    <3>2. outcome \in {"trap", "hang", "astray"}
      BY <2>1, SeekOutcome DEF Returns
    <3> HIDE DEF outcome
    <3> QED  BY <1>1, <3>1, <3>2, GoesWrongLife
  <2>2. CASE outcome \in Returns
    <3>1. s \in Sem
      BY <2>2 DEF Returns
    <3>2. /\ d \in ToSet(blocked[s]) /\ blocked[s] \in Seq(Proc) /\ d \in BlockedOn(s)
      BY <1>1, <3>1, PlaceFacts DEF BlockedOn
    <3>4. Leave(blocked[s]) = Without(blocked[s], d)
      BY <3>2 DEF Leave
    <3>5. /\ blocked' = [blocked EXCEPT ![s] = Without(blocked[s], d)]
          /\ IF OnDevice(s) THEN UNCHANGED semVal
             ELSE semVal' = [semVal EXCEPT ![s] = semVal[s] + 1]
          /\ Bury(d)
      BY <1>5, <2>2, <3>4 DEF RetireBlocked
    <3>6. Permits' = Permits
      <4>1. CASE OnDevice(s)
        <5>1. \A t \in UserSem : blocked'[t] = blocked[t]
          BY <3>5, <4>1, SemAssumption DEF OnDevice, TypeOK, Sem
        <5> QED  BY <3>5, <4>1, <5>1 DEF Permits
      <4>2. CASE ~OnDevice(s)
        <5>1. s \in UserSem
          BY <3>1, <4>2 DEF OnDevice, Sem
        <5>2. semVal[s] \in Int /\ Len(blocked[s]) \in Nat
          BY <3>2, <5>1, PermitsOf, LenProperties
        <5>3. Len(Without(blocked[s], d)) = Len(blocked[s]) - 1
          BY <3>2, WithoutQueue
        <5>4. (semVal[s] + 1) + Len(Without(blocked[s], d)) = semVal[s] + Len(blocked[s])
          BY <5>2, <5>3
        <5> QED  BY <3>5, <4>2, <5>1, <5>4, PermitsStay
      <4> QED  BY <4>1, <4>2
    <3> QED  BY <1>1, <3>1, <3>2, <3>5, <3>6, BuryLife, DeathLife
  <2> QED  BY <2>1, <2>2
<1> QED  BY <1>2, <1>3, <1>4, <1>5 DEF Sys2

\* A trap inside the nucleus; without a current process it fails.
LEMMA NestedTrapLife ==
    ASSUME TypeOK, NestedTrap PROVE LifeStep
<1>1. /\ kpc = "trap" /\ kpc' \in {"hung", "run", "terminate"}
      /\ UNCHANGED <<currentProc, free, blocked, semVal>>
  BY DEF NestedTrap, CallSys2, ready, tree
<1>2. CASE kpc' # "hung"
  BY <1>1, <1>2, Unseen DEF Active, Verdict
<1>3. CASE kpc' = "hung"
  <2>1. Verdict = "none" /\ Verdict' = "failed"
    BY <1>1, <1>3 DEF Verdict
  <2> QED  BY <1>1, <2>1, FailLife DEF Permits, TypeOK
<1> QED  BY <1>2, <1>3
-----------------------------------------------------------------------------
\* What holds while a process runs.
LEMMA RunningLife ==
    ASSUME TypeOK, PlaceInv, kpc = "run"
    PROVE  /\ Active = {currentProc} /\ Active # {} /\ Verdict = "none"
           /\ (CHOOSE p \in Active : TRUE) = currentProc
<1>1. Active = {currentProc}
  BY RunningFacts
<1> QED  BY <1>1 DEF Verdict

\* SYS1.
LEMMA CreateLife ==
    ASSUME TypeOK, PlaceInv, CreateProcess PROVE LifeStep
<1>1. kpc = "run" /\ UNCHANGED <<kpc, currentProc, blocked, semVal>>
  BY DEF CreateProcess, Running
<1>2. PICK c \in free : free' = free \ {c}
  BY DEF CreateProcess
<1>3. c \in Proc /\ c \notin Live /\ Live' = Live \cup {c}
  BY <1>2 DEF TypeOK, Live
<1>4. Active' = Active /\ Verdict' = Verdict /\ Permits' = Permits
  BY <1>1 DEF Active, Verdict, Permits
<1>5. Life!Create(c)
  BY <1>1, <1>3, <1>4, RunningLife DEF Life!Create
<1> QED  BY <1>3, <1>5 DEF LifeStep, Life!Next

\* SYS3.
LEMMA VerhogenLife ==
    ASSUME TypeOK, PlaceInv, SemCountExact, NEW s \in UserSem, Verhogen(s)
    PROVE  LifeStep
<1>1. /\ kpc = "run" /\ UNCHANGED <<currentProc, free>> /\ s \in Sem
      /\ semVal' = [semVal EXCEPT ![s] = semVal[s] + 1]
  BY DEF Verhogen, Running, tree, Sem
<1>2. /\ semVal[s] \in Int /\ semVal \in [Sem -> Int]
      /\ blocked[s] # <<>> => semVal[s] < 0 /\ Permits[s] = 0
      /\ blocked[s] = <<>> => semVal[s] >= 0 /\ Permits[s] = semVal[s]
  BY PermitsOf DEF TypeOK
<1>3. kpc' \in {"run", "trap"}
  BY <1>1 DEF Verhogen
<1>4. Active' = Active /\ Verdict' = Verdict
  BY <1>1, <1>3 DEF Active, Verdict
<1>5. Live' = Live
  BY <1>1 DEF Live
<1>6. CASE blocked[s] = <<>>
  <2>1. ~SomeoneWaits(semVal[s] + 1) \/ blocked[s] = <<>>
    BY <1>6
  <2>2. UNCHANGED blocked
    BY <1>6 DEF Verhogen
  <2>3. Permits' = [Permits EXCEPT ![s] = @ + 1]
    <3>1. \A t \in UserSem : Permits'[t] = IF t = s THEN Permits[s] + 1 ELSE Permits[t]
      <4>1. Len(blocked[s]) = 0
        BY <1>6
      <4> QED  BY <1>1, <1>2, <2>2, <4>1 DEF Permits, Sem
    <3>2. /\ Permits' = [t \in UserSem |-> Permits'[t]]
          /\ DOMAIN Permits = UserSem
      BY DEF Permits
    <3> QED  BY <3>1, <3>2
  <2>4. Life!Verhogen(s)
    BY <1>1, <1>4, <1>5, <1>6, <2>2, <2>3, RunningLife DEF Life!Verhogen
  <2> QED  BY <2>4 DEF LifeStep, Life!Next
<1>7. CASE blocked[s] # <<>>
  <2>1. SomeoneWaits(semVal[s] + 1)
    BY <1>2, <1>7 DEF SomeoneWaits
  <2>2. blocked' = [blocked EXCEPT ![s] = Tail(@)]
    BY <1>7, <2>1 DEF Verhogen
  <2>3. Permits' = Permits
    <3>1. Len(Tail(blocked[s])) = Len(blocked[s]) - 1 /\ Len(blocked[s]) \in Nat
      BY <1>7, PermitsOf, HeadTailProperties, LenProperties
    <3>2. (semVal[s] + 1) + Len(Tail(blocked[s])) = semVal[s] + Len(blocked[s])
      BY <1>2, <3>1
    <3> QED  BY <1>1, <2>2, <3>2, PermitsStay
  <2>4. Life!Verhogen(s)
    BY <1>1, <1>4, <1>5, <1>7, <2>2, <2>3, RunningLife DEF Life!Verhogen
  <2> QED  BY <2>4 DEF LifeStep, Life!Next
<1> QED  BY <1>6, <1>7

\* SYS4, SYS7 and SYS8.
LEMMA PLife ==
    ASSUME TypeOK, PlaceInv, SemCountExact, kpc = "run", NEW s \in Sem,
           NEW soft, NEW toTotal, P(s, soft, toTotal)
    PROVE  LifeStep
<1> DEFINE c == currentProc
<1>1. /\ UNCHANGED free /\ semVal' = [semVal EXCEPT ![s] = semVal[s] - 1]
      /\ semVal \in [Sem -> Int] /\ semVal[s] \in Int /\ blocked \in [Sem -> Seq(Proc)]
  BY DEF P, tree, TypeOK
<1>2. Live' = Live /\ (s \in UserSem \/ s \in DeviceSem)
  BY <1>1 DEF Live, Sem
<1>3. ASSUME s \in DeviceSem, NEW q, blocked' = [blocked EXCEPT ![s] = q]
      PROVE  Permits' = Permits
  BY <1>1, <1>3, DevicePermits
<1>4. CASE semVal[s] - 1 >= 0
  <2>1. UNCHANGED <<kpc, currentProc, blocked>>
    BY <1>4 DEF P
  <2>2. Active' = Active /\ Verdict' = Verdict
    BY <2>1 DEF Active, Verdict
  <2>3. CASE s \in DeviceSem
    <3>1. blocked' = [blocked EXCEPT ![s] = blocked[s]]
      BY <1>1, <2>1
    <3> QED  BY <1>2, <1>3, <2>1, <2>2, <2>3, <3>1 DEF LifeStep, Life!life
  <2>4. CASE s \in UserSem
    <3>1. Permits[s] > 0 /\ blocked[s] = <<>>
      BY <1>1, <1>4, <2>4, PermitsOf
    <3>2. \A t \in UserSem : Permits'[t] = IF t = s THEN Permits[s] - 1 ELSE Permits[t]
      <4>1. Len(blocked[s]) = 0
        BY <3>1
      <4> QED  BY <1>1, <1>4, <2>1, <2>4, <4>1 DEF Permits, Sem
    <3>3. /\ Permits' = [t \in UserSem |-> Permits'[t]] /\ DOMAIN Permits = UserSem
          /\ Permits = [t \in UserSem |-> Permits[t]]
      BY DEF Permits
    <3>4. Permits' = [Permits EXCEPT ![s] = @ - 1]
      BY <2>4, <3>2, <3>3
    <3>5. Life!Passeren(s)
      BY <1>2, <2>1, <2>2, <3>1, <3>4, RunningLife DEF Life!Passeren
    <3> QED  BY <2>4, <3>5 DEF LifeStep, Life!Next
  <2> QED  BY <1>2, <2>3, <2>4
<1>5. CASE ~(semVal[s] - 1 >= 0) /\ NoSemd(s)
  <2>1. kpc' = "panic" /\ UNCHANGED <<currentProc, blocked>>
    BY <1>5 DEF P
  <2>2. Verdict = "none" /\ Verdict' = "failed"
    BY <2>1 DEF Verdict
  <2>3. CASE s \in DeviceSem
    <3>1. blocked' = [blocked EXCEPT ![s] = blocked[s]]
      BY <1>1, <2>1
    <3> QED  BY <1>1, <1>3, <2>1, <2>2, <2>3, <3>1, FailLife DEF TypeOK
  <2>4. CASE s \in UserSem
    <3>1. \A t \in UserSem : Permits'[t] = IF t = s THEN Permits[s] - 1 ELSE Permits[t]
      <4>1. \A t \in UserSem : /\ Len(blocked[t]) \in Int /\ semVal[t] \in Int
                               /\ semVal'[t] = IF t = s THEN semVal[s] - 1 ELSE semVal[t]
        <5>1. \A t \in UserSem : t \in Sem /\ blocked[t] \in Seq(Proc)
          BY <1>1 DEF Sem
        <5>2. \A t \in UserSem : Len(blocked[t]) \in Int
          BY <5>1, LenProperties
        <5> QED  BY <1>1, <5>1, <5>2
      <4> QED  BY <2>1, <2>4, <4>1 DEF Permits
    <3>2. /\ Permits' = [t \in UserSem |-> Permits'[t]] /\ DOMAIN Permits = UserSem
          /\ Permits = [t \in UserSem |-> Permits[t]]
      BY DEF Permits
    <3>3. Permits' = [Permits EXCEPT ![s] = @ - 1]
      BY <2>4, <3>1, <3>2
    <3> QED  BY <1>1, <2>1, <2>2, <2>4, <3>3, FailLife DEF TypeOK
  <2> QED  BY <1>2, <2>3, <2>4
<1>6. CASE ~(semVal[s] - 1 >= 0) /\ ~NoSemd(s)
  <2>2. blocked' = [blocked EXCEPT ![s] = InsertProcQ(@, c)] /\ kpc' = "schedule"
    BY <1>6 DEF P
  <2>3. Active' = {} /\ Verdict' = Verdict
    BY <2>2 DEF Active, Verdict
  <2>4. Life!Join(s)
    BY <2>2, <2>3, RunningLife, SameQueueOperations DEF Life!Join
  <2>5. CASE s \in DeviceSem
    <3>1. Permits' = Permits
      BY <1>3, <2>2, <2>5
    <3>2. Life!WaitFor(s)
      BY <1>2, <2>3, <2>4, <2>5, <3>1, RunningLife DEF Life!WaitFor
    <3> QED  BY <2>5, <3>2 DEF LifeStep, Life!Next
  <2>6. CASE s \in UserSem
    <3>1. Permits[s] = 0
      BY <1>1, <1>6, <2>6, PermitsOf
    <3>2. Permits' = Permits
      <4>1. blocked'[s] = Append(blocked[s], c) /\ c \in Proc /\ blocked[s] \in Seq(Proc)
        BY <1>1, <2>2, RunningFacts DEF InsertProcQ
      <4>2. Len(Append(blocked[s], c)) = Len(blocked[s]) + 1 /\ Len(blocked[s]) \in Nat
        BY <4>1, AppendProperties, LenProperties
      <4>3. (semVal[s] - 1) + Len(Append(blocked[s], c)) = semVal[s] + Len(blocked[s])
        BY <1>1, <4>2
      <4> QED  BY <1>1, <2>2, <2>6, <4>3, PermitsStay DEF InsertProcQ
    <3>3. Life!Passeren(s)
      BY <1>2, <2>3, <2>4, <3>1, <3>2, RunningLife DEF Life!Passeren
    <3> QED  BY <2>6, <3>3 DEF LifeStep, Life!Next
  <2> QED  BY <1>2, <2>5, <2>6
<1> QED  BY <1>4, <1>5, <1>6

\* A handler that resumes the process, or calls sys2 for it.
LEMMA HandlerLife ==
    ASSUME kpc = "run", NEW saved, Resume(saved) \/ CallSys2(saved) PROVE LifeStep
<1>1. UNCHANGED <<currentProc, free, blocked, semVal>> /\ kpc' \in {"run", "terminate"}
  BY DEF Resume, CallSys2, ready, tree
<1>2. Active' = Active /\ Verdict' = Verdict
  BY <1>1 DEF Active, Verdict
<1> QED  BY <1>1, <1>2, Unseen

\* All system calls and exceptions.
LEMMA SyscallLife ==
    ASSUME TypeOK, PlaceInv, SemCountExact, Syscall \/ Exception PROVE LifeStep
<1>1. CASE CreateProcess
  BY <1>1, CreateLife
<1>2. ASSUME NEW saved, kpc = "run", Resume(saved) \/ CallSys2(saved) PROVE LifeStep
  BY <1>2, HandlerLife
<1>3. CASE NoFreePcb \/ TerminateProcess \/ GetCpuTime
  BY <1>2, <1>3 DEF NoFreePcb, TerminateProcess, GetCpuTime, Running
<1>4. ASSUME NEW s \in UserSem, Verhogen(s) PROVE LifeStep
  BY <1>4, VerhogenLife
<1>5. ASSUME NEW s \in UserSem, Passeren(s) PROVE LifeStep
  BY <1>5, PLife DEF Passeren, Running, Sem
<1>6. ASSUME NEW type \in VectorTypes, SpecifyVector(type) PROVE LifeStep
  BY <1>2, <1>6 DEF SpecifyVector, Running
<1>7. CASE WaitForClock
  BY <1>7, PLife, ClockSemType DEF WaitForClock, Running
<1>8. ASSUME NEW d \in Device, WaitForIO(d) PROVE LifeStep
  BY <1>8, PLife, WaitSemType DEF WaitForIO, Running
<1>9. ASSUME NEW d \in Device, CommandDevice(d) PROVE LifeStep
  BY <1>9, Unseen DEF CommandDevice, ready, tree, Active, Verdict
<1>10. CASE Exception
  BY <1>2, <1>10 DEF Exception, TlbException, HighSyscall, ProgramTrap, UserModeSyscall,
       PassUpOrDie, Running
<1>11. CASE CallAstray
  BY <1>11, AstrayLife DEF CallAstray, Running, Stopped
<1> QED
  BY <1>1, <1>3, <1>4, <1>5, <1>6, <1>7, <1>8, <1>9, <1>10, <1>11 DEF Syscall

-----------------------------------------------------------------------------
\* The end of an interrupt handler: the turn of the running process may end.
LEMMA ReturnLife ==
    ASSUME TypeOK, PlaceInv, Interruptible, NEW q, NEW saved, Return(q, saved),
           UNCHANGED currentProc
    PROVE  (Active' = Active \/ Active' = {}) /\ Verdict' = Verdict
<1>1. kpc = "run" \/ (kpc = "wait" /\ currentProc = NULL)
  BY DEF Interruptible, PlaceInv, ControlInv
<1>2. kpc' = "schedule" \/ (kpc' = "run" /\ currentProc # NULL)
  BY DEF Return
<1> QED  BY <1>1, <1>2 DEF Active, Verdict

\* Those who wait for an event go on, one or all.
LEMMA EventLife ==
    ASSUME TypeOK, NEW s \in DeviceSem, blocked[s] # <<>>,
           \/ blocked' = [blocked EXCEPT ![s] = Tail(@)]
           \/ blocked' = [blocked EXCEPT ![s] = <<>>],
           UNCHANGED free, NEW v, semVal' = [semVal EXCEPT ![s] = v],
           Active' = Active \/ Active' = {}, Verdict' = Verdict
    PROVE  LifeStep
<1>1. Live' = Live
  BY DEF Live
<1>2. Permits' = Permits
  BY DevicePermits
<1>3. Life!Happens(s)
  BY <1>1, <1>2 DEF Life!Happens
<1> QED  BY <1>3 DEF LifeStep, Life!Next

\* A tick of the pseudo-clock.
LEMMA IntervalTimerLife ==
    ASSUME TypeOK, PlaceInv, IntervalTimer PROVE LifeStep
<1>1. /\ UNCHANGED <<free, currentProc>> /\ Interruptible
      /\ semVal' = [semVal EXCEPT ![ClockSem] = 0]
      /\ blocked' = [blocked EXCEPT ![ClockSem] = IF TickWakes = <<>> THEN @ ELSE <<>>]
  BY DEF IntervalTimer, tree
<1>2. (Active' = Active \/ Active' = {}) /\ Verdict' = Verdict
  BY <1>1, ReturnLife DEF IntervalTimer
<1>3. CASE TickWakes = <<>>
  <2>1. UNCHANGED blocked
    BY <1>1, <1>3 DEF TypeOK
  <2>2. Permits' = Permits
    <3>1. blocked' = [blocked EXCEPT ![ClockSem] = blocked[ClockSem]]
      BY <2>1 DEF TypeOK
    <3> QED  BY <1>1, <3>1, ClockSemType, DevicePermits
  <2> QED
    BY <1>1, <1>2, <2>1, <2>2 DEF LifeStep, Life!Next, Life!Preempt, Life!life, Live
<1>4. CASE TickWakes # <<>>
  <2>1. blocked[ClockSem] # <<>>
    BY <1>4 DEF TickWakes
  <2>2. blocked' = [blocked EXCEPT ![ClockSem] = <<>>]
    BY <1>1, <1>4
  <2> QED  BY <1>1, <1>2, <2>1, <2>2, ClockSemType, EventLife
<1> QED  BY <1>3, <1>4

\* An interrupt of a device.
LEMMA DeviceInterruptLife ==
    ASSUME TypeOK, PlaceInv, DeviceInterrupt PROVE LifeStep
<1> DEFINE s == IntrSem(Line, DevNum)
<1>1. s \in DeviceSem
  BY IntrSemType DEF DeviceInterrupt, TypeOK
<1>2. /\ UNCHANGED <<free, currentProc>> /\ Interruptible
      /\ semVal' = IncrementDevice(s)
  BY DEF DeviceInterrupt, tree
<1>3. PICK v : semVal' = [semVal EXCEPT ![s] = v]
  BY <1>2 DEF IncrementDevice
<1>4. CASE blocked[s] = <<>>
  <2>1. UNCHANGED blocked /\ kpc' = "trap"
    BY <1>4 DEF DeviceInterrupt
  <2>2. Active' = Active /\ Verdict' = Verdict
    BY <1>2, <2>1 DEF Active, Verdict, Interruptible, PlaceInv, ControlInv
  <2>3. Permits' = Permits
    <3>1. blocked' = [blocked EXCEPT ![s] = blocked[s]]
      BY <2>1 DEF TypeOK
    <3> QED  BY <1>1, <1>3, <3>1, DevicePermits
  <2> QED  BY <1>2, <2>1, <2>2, <2>3 DEF LifeStep, Life!life, Live
<1>5. CASE blocked[s] # <<>>
  <2>1. /\ blocked' = [blocked EXCEPT ![s] = Tail(@)]
        /\ \E q, saved : Return(q, saved)
    BY <1>5 DEF DeviceInterrupt
  <2>2. (Active' = Active \/ Active' = {}) /\ Verdict' = Verdict
    BY <1>2, <2>1, ReturnLife
  <2> QED  BY <1>1, <1>2, <1>3, <1>5, <2>1, <2>2, EventLife
<1> QED  BY <1>4, <1>5

\* All interrupts.
LEMMA InterruptLife ==
    ASSUME TypeOK, PlaceInv, Interrupt PROVE LifeStep
<1>1. CASE ProcTimer
  <2>1. UNCHANGED <<free, blocked, semVal>> /\ kpc' = "schedule" /\ Interruptible
    BY <1>1 DEF ProcTimer, tree
  <2>2. Active' = {} /\ Verdict' = Verdict
    BY <2>1 DEF Active, Verdict, Interruptible
  <2> QED  BY <2>1, <2>2, TurnEnds
<1>2. CASE InterruptAstray
  BY <1>2, AstrayLife DEF InterruptAstray, Interruptible, Stopped
<1> QED  BY <1>1, <1>2, IntervalTimerLife, DeviceInterruptLife DEF Interrupt

-----------------------------------------------------------------------------
\* main() starts ProcessLife.
LEMMA InitLife == ASSUME Init PROVE Life!Init
<1>1. Live = {Test} /\ Active = {} /\ Verdict = "none"
  BY ProcAssumption DEF Init, Live, Active, Verdict
<1>2. blocked = [s \in UserSem \cup DeviceSem |-> <<>>]
  BY DEF Init, Sem
<1>3. Permits \in [UserSem -> Nat]
  <2>1. \A s \in UserSem : semVal[s] \in 0 .. MaxSem
    BY DEF Init, Sem
  <2>2. \A s \in UserSem : semVal[s] + Len(blocked[s]) \in Nat
    BY <1>2, <2>1, WorkloadAssumption
  <2> QED  BY <2>2 DEF Permits
<1> QED  BY <1>1, <1>2, <1>3 DEF Life!Init

\* Every step of the nucleus is one of ProcessLife or none; one that has failed
\* takes none.
LEMMA StepLife ==
    ASSUME TypeOK, kpc # "astray" => IInv, kpc # "panic" => CountInv,
           StopIsRight, StopIsRight', PastLookup = {}, [Next]_vars
    PROVE  LifeStep
<1>1. CASE Verdict = "failed"
  <2>1. UNCHANGED vars
    BY <1>1, StoppedStays DEF Verdict
  <2> QED  BY <2>1, Unseen DEF vars, ready, tree, Active, Verdict
<1>2. CASE Verdict # "failed"
  <2>1. TypeOK /\ PlaceInv /\ FamilyInv /\ CountInv /\ SemCountExact
    BY <1>2 DEF IInv, CountInv, Verdict
  <2>2. ASSUME NEW d \in Device, DeviceDone(d) PROVE LifeStep
    BY <2>2, Unseen DEF DeviceDone, ready, tree, Active, Verdict
  <2>3. CASE UNCHANGED vars
    BY <2>3, Unseen DEF vars, ready, tree, Active, Verdict
  <2> QED
    BY <2>1, <2>2, <2>3, ScheduleLife, Sys2Life, NestedTrapLife, SyscallLife, InterruptLife
       DEF Next, Stop
<1> QED  BY <1>1, <1>2

\* The nucleus keeps its promise to the processes, for any number of processes,
\* semaphores and devices, through kills, the stray tails they leave and its own
\* traps, until it fails, which ends the behaviour: one process runs at a time,
\* semaphores are first come, first served and lose no P or V, and HALT and the
\* PANIC for a deadlock come only when nobody can go on.
THEOREM NucleusImplementsLife == ASSUME PastLookup = {} PROVE Spec => LifeKept
<1>1. Init => Life!Init
  BY InitLife
<1>2. TypeOK /\ (kpc # "astray" => IInv) /\ (kpc # "panic" => CountInv)
          /\ StopIsRight /\ StopIsRight' /\ [Next]_vars
          => [Life!Next]_(Life!life)
  BY StepLife DEF LifeStep
<1> QED
  BY <1>1, <1>2, Invariant, CountsStayExact, SchedulerStopsRightly, PTL
     DEF Spec, LifeKept, Life!Spec

-----------------------------------------------------------------------------
\* The queue operations of ProcessCalls are those of ProcessLife.
LEMMA SameCallOperations ==
    /\ \A q, p : Calls!InsertProcQ(q, p) = Life!InsertProcQ(q, p)
    /\ \A q, p : Calls!Leave(q, p) = Life!Leave(q, p)
    /\ \A q : Calls!ToSet(q) = ToSet(q)
<1>1. \A q : Calls!ToSet(q) = ToSet(q) /\ Life!ToSet(q) = ToSet(q)
  BY DEF Calls!ToSet, Life!ToSet, ToSet
<1>2. \A q, p : Calls!Without(q, p) = Life!Without(q, p)
  BY DEF Life!Without, Calls!Without, Life!RemoveAt, Calls!RemoveAt
<1>3. \A q, p : Calls!InsertProcQ(q, p) = Life!InsertProcQ(q, p)
  BY DEF Life!InsertProcQ, Calls!InsertProcQ
<1> QED  BY <1>1, <1>2, <1>3 DEF Life!Leave, Calls!Leave

\* The process that runs may call.
LEMMA RunningCalls ==
    ASSUME TypeOK, PlaceInv, Verdict # "failed", Active # {}
    PROVE  /\ Verdict = "none" /\ currentProc \in Proc /\ currentProc \in Live
           /\ (CHOOSE p \in Active : TRUE) = currentProc
           /\ ~Calls!WaitsFor(currentProc, UserSem \cup DeviceSem)
<1>1. Active = {currentProc} /\ Verdict = "none"
  BY DEF Active, Verdict
<1>2. currentProc \in Unblocked
  BY <1>1, PlaceFacts
<1>3. currentProc \in Live /\ currentProc \in Proc
  BY <1>2, PlaceFacts
<1>4. \A s \in Sem : currentProc \notin ToSet(blocked[s])
  BY <1>2, PlaceFacts
<1>5. ~Calls!WaitsFor(currentProc, UserSem \cup DeviceSem)
  BY <1>4, SameCallOperations DEF Calls!WaitsFor, Sem
<1> QED  BY <1>1, <1>3, <1>5

\* A step of ProcessLife is a call, an event, the end, or the turn of another process.
LEMMA LifeIsCalls ==
    ASSUME TypeOK, PlaceInv, Verdict # "failed", Life!Next
    PROVE  Calls!Next \/ UNCHANGED Calls!calls
<1> DEFINE Caller ==
        /\ Verdict = "none" /\ currentProc \in Proc /\ currentProc \in Live
        /\ (CHOOSE p \in Active : TRUE) = currentProc
        /\ ~Calls!WaitsFor(currentProc, UserSem \cup DeviceSem)
<1>1. Active # {} => Caller
  BY RunningCalls
<1>2. ASSUME NEW c \in Proc, Life!Create(c) PROVE Calls!Next
  <2>1. Caller /\ Calls!Create(c)
    BY <1>1, <1>2 DEF Life!Create, Calls!Create
  <2> QED  BY <2>1 DEF Calls!Call, Calls!Next
<1>3. ASSUME NEW d \in Proc, Life!Die(d) PROVE Calls!Next
  <2>1. Caller /\ Calls!Die(d)
    BY <1>1, <1>3, SameCallOperations DEF Life!Die, Calls!Die
  <2> QED  BY <2>1 DEF Calls!Call, Calls!Next
<1>4. ASSUME NEW s \in UserSem, Life!Passeren(s) PROVE Calls!Next
  <2>1. Caller /\ Calls!Passeren(currentProc, s)
    BY <1>1, <1>4, SameCallOperations DEF Life!Passeren, Life!Join, Calls!Passeren, Calls!Join
  <2> QED  BY <2>1 DEF Calls!Call, Calls!Next
<1>5. ASSUME NEW s \in UserSem, Life!Verhogen(s) PROVE Calls!Next
  <2>1. Caller /\ Calls!Verhogen(s)
    BY <1>1, <1>5 DEF Life!Verhogen, Calls!Verhogen
  <2> QED  BY <2>1 DEF Calls!Call, Calls!Next
<1>6. ASSUME NEW e \in DeviceSem, Life!WaitFor(e) PROVE Calls!Next
  <2>1. Caller /\ Calls!WaitFor(currentProc, e)
    BY <1>1, <1>6, SameCallOperations DEF Life!WaitFor, Life!Join, Calls!WaitFor, Calls!Join
  <2> QED  BY <2>1 DEF Calls!Call, Calls!Next
<1>7. ASSUME NEW e \in DeviceSem, Life!Happens(e) PROVE Calls!Next
  BY <1>7 DEF Life!Happens, Calls!Happens, Calls!Next
<1>8. CASE Life!Preempt \/ \E p \in Proc : Life!Run(p)
  BY <1>8 DEF Life!Preempt, Life!Run, Calls!calls
<1>9. CASE Life!Halt
  BY <1>9 DEF Life!Halt, Calls!Halt, Calls!Next
<1>10. CASE Life!Deadlock
  BY <1>10, SameQueueOperations, SameCallOperations
     DEF Life!Deadlock, Life!Waits, Calls!Deadlock, Calls!WaitsFor, Calls!Next
<1>11. CASE Life!Fail
  BY <1>11 DEF Life!Fail, Calls!Fail, Calls!Next
<1> QED  BY <1>2, <1>3, <1>4, <1>5, <1>6, <1>7, <1>8, <1>9, <1>10, <1>11 DEF Life!Next

\* What a process calls SYS1 to SYS8 for it gets, of the nucleus as it is and until
\* the nucleus fails: the interface that the support level is written against.
THEOREM NucleusProvidesCalls == ASSUME PastLookup = {} PROVE Spec => CallsProvided
<1>1. Init => Calls!Init
  BY InitLife DEF Life!Init, Calls!Init
<1>2. TypeOK /\ (kpc # "astray" => IInv) /\ (kpc # "panic" => CountInv)
          /\ StopIsRight /\ StopIsRight' /\ [Next]_vars
          => [Calls!Next]_(Calls!calls)
  <2>1. UNCHANGED Life!life => UNCHANGED Calls!calls
    BY DEF Life!life, Calls!calls
  <2>2. Verdict = "failed" /\ [Next]_vars => UNCHANGED Calls!calls
    BY StoppedStays DEF Verdict, vars, ready, tree, Calls!calls, Live, Permits
  <2>3. Verdict # "failed" => kpc # "astray"
    BY DEF Verdict
  <2> QED  BY <2>1, <2>2, <2>3, StepLife, LifeIsCalls DEF LifeStep, IInv
<1> QED
  BY <1>1, <1>2, Invariant, CountsStayExact, SchedulerStopsRightly, PTL
     DEF Spec, CallsProvided, Calls!Spec

-----------------------------------------------------------------------------
(***************************************************************************)
(* The semaphores of the devices.                                          *)
(***************************************************************************)

\* Each device has a semaphore of its own, and none has the clock's.
LEMMA OwnSemaphores ==
    ASSUME CarefulUse, NEW d \in Device
    PROVE  /\ WaitSem(d) = IntrSem(d.line, d.num) /\ WaitSem(d) # ClockSem
           /\ \A e \in Device : WaitSem(e) = WaitSem(d) => e = d
<1>1. \A e \in Device : /\ e.line \in 3 .. 7 /\ e.num \in 0 .. 7 /\ ~e.recv
                        /\ WaitSem(e) = 8 * (e.line - 2) + e.num
  BY DeviceAssumption DEF CarefulUse, WaitSem, DeviceLookup, DEVPERINT
<1>2. WaitSem(d) = IntrSem(d.line, d.num)
  BY <1>1 DEF IntrSem, DeviceLookup, DEVPERINT
<1>3. WaitSem(d) # ClockSem
  BY <1>1 DEF ClockSem, DeviceLookup, DEVPERINT
<1>4. ASSUME NEW e \in Device, WaitSem(e) = WaitSem(d) PROVE e = d
  <2>1. e.line = d.line
    BY <1>1, <1>4
  <2> QED  BY <2>1 DEF CarefulUse
<1> QED  BY <1>2, <1>3, <1>4

\* The lowest line with an interrupt has one, and getDevNum finds its device.
LEMMA InterruptOf ==
    ASSUME CarefulUse, pending \subseteq Device, pending # {}
    PROVE  \E d \in pending : IntrSem(Line, DevNum) = WaitSem(d) /\ Acknowledged = {d}
<1> DEFINE here == {e \in pending : e.line = Line}
<1>1. PICK d \in pending : d.line = Line
  BY LineFacts
<1>2. here = {d}
  BY <1>1 DEF CarefulUse
<1>3. {e.num : e \in here} = {d.num}
  BY <1>2
<1>4. DevNum = d.num
  <2>1. Cardinality({d.num}) = 1
    BY FS_Singleton
  <2> QED  BY <1>3, <2>1 DEF DevNum
<1>5. d.recv = FALSE /\ (Line = 7 => Transmits(DevNum) = TRUE)
  <2>1. d.recv = FALSE
    BY DeviceAssumption DEF CarefulUse
  <2> QED  BY <1>1, <1>4, <2>1 DEF Transmits
<1>6. \A e \in pending : /\ e.line \in 3 .. 7 /\ e.num \in 0 .. 7
                         /\ RegisterOf(e.line, e.num) = 8 * (e.line - 3) + e.num
  BY DeviceAssumption DEF RegisterOf, DEVPERINT
<1>7. ASSUME NEW e \in pending, RegisterOf(e.line, e.num) = RegisterOf(d.line, d.num)
       PROVE  e = d
  <2>1. e.line = d.line
    BY <1>6, <1>7
  <2> QED  BY <2>1 DEF CarefulUse
<1>8. Acknowledged = {d}
  <2>1. d \in Acknowledged
    BY <1>1, <1>4, <1>5 DEF Acknowledged
  <2>2. ASSUME NEW e \in Acknowledged PROVE e = d
    BY <1>1, <1>4, <1>7 DEF Acknowledged
  <2> QED  BY <2>1, <2>2
<1>9. IntrSem(Line, DevNum) = WaitSem(d)
  BY <1>1, <1>4, OwnSemaphores
<1> QED  BY <1>8, <1>9

-----------------------------------------------------------------------------
(***************************************************************************)
(* Steps that leave one part of the invariant alone.                       *)
(***************************************************************************)

\* A step on no device and no semaphore of the nucleus.
LEMMA DevicesStay ==
    ASSUME DeviceInv, DeviceSemaphoresExact, UNCHANGED <<busy, pending>>,
           \A s \in DeviceSem : blocked'[s] = blocked[s] /\ semVal'[s] = semVal[s]
    PROVE  DeviceInv' /\ DeviceSemaphoresExact'
BY WaitSemType DEF DeviceInv, DeviceSemaphoresExact, Idle

\* A step after which a process runs or the scheduler is called.
LEMMA RunsOn ==
    ASSUME UsageInv, UNCHANGED stray, kpc' \in {"run", "schedule"}
    PROVE  NucleusSound' /\ DeathInv' /\ IdleInv'
<1>1. Intact'
  BY DEF UsageInv, NucleusSound, Intact, ReadySound, SemSound
<1> QED  BY <1>1 DEF NucleusSound, DeathInv, IdleInv

\* A step on no queue and no device; sys2 may be called.
LEMMA UsageStays ==
    ASSUME UsageInv, UNCHANGED <<blocked, semVal, stray, busy, pending>>,
           kpc' \in {"run", "schedule"} \/ (kpc' = "terminate" /\ DeathInv')
    PROVE  UsageInv'
<1>1. DeviceInv' /\ DeviceSemaphoresExact'
  BY DevicesStay DEF UsageInv
<1>2. NucleusSound' /\ DeathInv' /\ IdleInv'
  <2>1. CASE kpc' \in {"run", "schedule"}
    BY <2>1, RunsOn
  <2>2. CASE kpc' = "terminate" /\ DeathInv'
    <3>1. Intact'
      BY DEF UsageInv, NucleusSound, Intact, ReadySound, SemSound
    <3> QED  BY <2>2, <3>1 DEF NucleusSound, IdleInv
  <2> QED  BY <2>1, <2>2
<1> QED  BY <1>1, <1>2 DEF UsageInv

\* Children are processes.
LEMMA KidsType ==
    ASSUME TypeOK, NEW p \in Proc PROVE kids[p] \in Seq(Proc) /\ ToSet(kids[p]) \subseteq Proc
BY QueueElements DEF TypeOK

\* A handler that goes on with the running process, or ends one whose children have
\* all entered the nucleus.
LEMMA HandlerUsage ==
    ASSUME CarefulUse, TypeOK, PlaceInv, UsageInv, Running, UNCHANGED devices, NEW saved,
           Resume(saved) \/ (saved \in {pcb, Saved} /\ MayDie /\ CallSys2(saved))
    PROVE  UsageInv'
<1>1. kpc = "run" /\ UNCHANGED <<blocked, semVal, stray, busy, pending, kids, currentProc>>
  BY DEF Running, Resume, CallSys2, ready, tree, devices
<1>2. CASE Resume(saved)
  BY <1>1, <1>2, UsageStays DEF Resume
<1>3. CASE saved \in {pcb, Saved} /\ MayDie /\ CallSys2(saved)
  <2>1. currentProc \in Proc /\ pcb \in [Proc -> PcbFields]
    BY <1>1, RunningFacts DEF TypeOK
  <2>2. kpc' = "terminate" /\ dying' = <<currentProc>> /\ pcb' \in {pcb, Saved}
    BY <1>3 DEF CallSys2
  <2>3. ASSUME NEW c \in ToSet(kids[currentProc]) PROVE Entered(c)'
    <3>1. c \in Proc /\ Entered(c)
      BY <1>3, <2>1, KidsType DEF CarefulUse, MayDie
    <3> QED  BY <1>1, <2>1, <2>2, <3>1, SavedType DEF Entered
  <2>4. Len(dying') = 1 /\ dying'[1] = currentProc /\ dying' # <<>>
    BY <2>2
  <2>5. DeathInv'
    BY <1>1, <2>3, <2>4 DEF DeathInv
  <2> QED  BY <1>1, <2>2, <2>5, UsageStays
<1> QED  BY <1>2, <1>3

-----------------------------------------------------------------------------
(***************************************************************************)
(* The scheduler and sys2.                                                 *)
(***************************************************************************)

\* The scheduler waits only if somebody waits for the clock or a device.
LEMMA ScheduleUsage ==
    ASSUME TypeOK, PlaceInv, CountInv, UsageInv, Schedule, kpc' # "astray" PROVE UsageInv'
<1>1. CASE Dispatch \/ Recharge
  BY <1>1, UsageStays DEF Dispatch, Recharge, devices
<1>2. CASE NothingReady
  <2>1. UNCHANGED <<blocked, semVal, stray, busy, pending>> /\ kpc' = IdleState
    BY <1>2 DEF NothingReady, ready, devices
  <2>2. DeviceInv' /\ DeviceSemaphoresExact'
    BY <2>1, DevicesStay DEF UsageInv
  <2>3. NucleusSound' /\ DeathInv'
    <3>1. Intact'
      BY <2>1 DEF UsageInv, NucleusSound, Intact, ReadySound, SemSound
    <3> QED  BY <2>1, <3>1 DEF DeathInv, NucleusSound, IdleState
  <2>4. ASSUME kpc' = "wait"
        PROVE  blocked[ClockSem] # <<>> \/ \E d \in busy \cup pending : blocked[WaitSem(d)] # <<>>
    <3>1. softBlockCnt # 0
      BY <2>1, <2>4 DEF IdleState
    <3>2. Waiting(DeviceSem) # {}
      BY <3>1, FS_EmptySet DEF CountInv, SoftBlockCountExact
    <3>3. PICK s \in DeviceSem : ToSet(blocked[s]) # {}
      BY <3>2 DEF Waiting
    <3>4. blocked[s] # <<>>
      BY <3>3 DEF ToSet
    <3>5. s # ClockSem => \E d \in Device : s = WaitSem(d) /\ ~Idle(d)
      BY <3>4 DEF UsageInv, DeviceInv
    <3> QED  BY <3>4, <3>5 DEF Idle
  <2>5. IdleInv'
    BY <2>1, <2>4 DEF IdleInv
  <2> QED  BY <2>2, <2>3, <2>5 DEF UsageInv
<1>3. ~ScheduleAstray
  BY DEF ScheduleAstray, GoAstray
<1> QED  BY <1>1, <1>2, <1>3 DEF Schedule

\* The first recursive call of sys2.
LEMMA SecondDying ==
    ASSUME NEW q \in Seq(Proc), Len(q) = 1, NEW p \in Proc, NEW r, r = Append(q, p)
    PROVE  r # <<>> /\ Len(r) = 2 /\ r[1] = q[1] /\ r[2] = p
<1> DEFINE a == Append(q, p)
<1>1. /\ a \in Seq(Proc) /\ Len(a) = Len(q) + 1
      /\ \A i \in 1 .. Len(q) : a[i] = q[i]
      /\ a[Len(q) + 1] = p
  BY AppendProperties
<1>2. r = a
  OBVIOUS
<1> HIDE DEF a
<1>3. Len(a) = 2 /\ a[1] = q[1] /\ a[2] = p
  BY <1>1
<1>4. a # <<>>
  BY <1>1, <1>3, QueueElements
<1> QED  BY <1>2, <1>3, <1>4, Zenon

\* sys2 takes the current process from its parent and frees it, or traps on its
\* first child.
LEMMA Sys2Usage ==
    ASSUME TypeOK, PlaceInv, FamilyInv, UsageInv, Sys2 PROVE UsageInv'
<1>1. /\ kpc = "terminate" /\ UNCHANGED <<busy, pending, currentProc, pcb>>
  BY DEF Sys2, TakeChild, RetireCurrent, RetireReady, RetireBlocked, devices
<1>2. /\ Len(dying) \in Nat \ {0} /\ dying[1] = currentProc /\ dying # <<>>
      /\ currentProc \in Proc /\ currentProc # NULL /\ Doomed = dying[Len(dying)]
      /\ \A i \in 2 .. Len(dying) : Entered(dying[i])
      /\ \A c \in ToSet(kids[currentProc]) : Entered(c)
  BY <1>1, DyingFacts, RunningFacts DEF UsageInv, DeathInv, Doomed
<1>3. (Doomed # currentProc => Entered(Doomed)) /\ (Doomed = currentProc => Len(dying) = 1)
  <2>1. \A i, j \in 1 .. Len(dying) : dying[i] = dying[j] => i = j
    BY <1>1, DyingFacts
  <2>2. 1 \in 1 .. Len(dying) /\ Len(dying) \in 1 .. Len(dying)
    BY <1>2
  <2> QED  BY <1>2, <2>1, <2>2
<1>4. CASE TakeChild
  <2> DEFINE h == Head(kids[currentProc])
  <2>1. /\ UNCHANGED <<blocked, semVal, stray>> /\ kpc' = "terminate"
        /\ kids[Doomed] # <<>>
    BY <1>4 DEF TakeChild, ready
  <2>2. Doomed = currentProc
    BY <1>3, <2>1 DEF Entered
  <2>3. Len(dying) = 1
    BY <1>3, <2>2
  <2>4. dying \in Seq(Proc)
    BY DEF TypeOK
  <2>5. /\ dying' = Append(dying, h)
        /\ kids' = [kids EXCEPT ![currentProc] = Tail(@)]
    BY <1>4, <2>2 DEF TakeChild
  <2>6. kids[currentProc] \in Seq(Proc) /\ kids[currentProc] # <<>>
    BY <1>2, <2>1, <2>2 DEF TypeOK
  <2>7. /\ h \in ToSet(kids[currentProc]) /\ h \in Proc
        /\ ToSet(Tail(kids[currentProc])) \subseteq ToSet(kids[currentProc])
    BY <2>6, RemoveQueue
  <2>8. \A c \in ToSet(kids[currentProc]) : Entered(c)'
    <3> TAKE c \in ToSet(kids[currentProc])
    <3>1. Entered(c) /\ c \in Proc
      BY <1>2, KidsType
    <3>2. c # currentProc
      BY <2>6, <3>1 DEF Entered
    <3> QED  BY <1>1, <2>5, <3>1, <3>2 DEF Entered, TypeOK
  <2>9. kids'[currentProc] = Tail(kids[currentProc])
    BY <1>2, <2>5 DEF TypeOK
  <2>10. DeathInv'
    <3>1. Len(dying') = 2 /\ dying'[1] = currentProc /\ dying'[2] = h /\ dying' # <<>>
      <4>1. h \in Proc /\ dying' = Append(dying, h) /\ dying[1] = currentProc
        BY <1>2, <2>5, <2>7
      <4> HIDE DEF h
      <4> QED  BY <2>3, <2>4, <4>1, SecondDying
    <3> QED  BY <1>1, <2>7, <2>8, <2>9, <3>1 DEF DeathInv
  <2> QED  BY <1>1, <2>1, <2>10, UsageStays
<1>5. CASE RetireCurrent
  <2>1. Doomed = currentProc /\ UNCHANGED <<blocked, semVal, stray>>
    BY <1>5 DEF RetireCurrent, ready
  <2>2. Len(dying) = 1
    BY <1>3, <2>1
  <2>3. kpc' = "schedule"
    BY <1>5, <2>2 DEF RetireCurrent, Bury
  <2> QED  BY <1>1, <2>1, <2>3, UsageStays
<1>6. ~RetireReady
  BY <1>3, SemAssumption DEF RetireReady, Entered
<1>7. CASE RetireBlocked
  <2>1. pcb[Doomed].p_semAdd = NewAreaAsid
    BY <1>3, <1>7 DEF RetireBlocked, Entered
  <2>2. pcb[Doomed].p_semAdd \notin Sem
    BY <2>1, SemAssumption
  <2>3. GoesWrong("trap")
    BY <1>7, <2>2 DEF RetireBlocked, Returns
  <2>4. kpc' = "trap" /\ UNCHANGED <<blocked, semVal, stray, kids, dying>>
    BY <2>3 DEF GoesWrong, ready, tree
  <2>5. DeviceInv' /\ DeviceSemaphoresExact'
    BY <1>1, <2>4, DevicesStay DEF UsageInv
  <2>6. NucleusSound'
    <3>1. Intact'
      BY <2>4 DEF UsageInv, NucleusSound, Intact, ReadySound, SemSound
    <3> QED  BY <1>1, <1>2, <2>4, <3>1 DEF NucleusSound
  <2>7. DeathInv'
    BY <1>1, <1>2, <2>4 DEF DeathInv, Entered
  <2>8. IdleInv'
    BY <2>4 DEF IdleInv
  <2> QED  BY <2>5, <2>6, <2>7, <2>8 DEF UsageInv
<1> QED  BY <1>4, <1>5, <1>6, <1>7 DEF Sys2

\* The trap of sys2: the process goes on at its own handler, or sys2 begins again.
LEMMA NestedTrapUsage ==
    ASSUME TypeOK, UsageInv, NestedTrap PROVE UsageInv'
<1>1. kpc = "trap" /\ currentProc # NULL
      /\ UNCHANGED <<blocked, semVal, stray, busy, pending, currentProc, pcb, kids>>
  BY DEF NestedTrap, CallSys2, UsageInv, NucleusSound, ready, tree, devices
<1>2. CASE kpc' = "run"
  BY <1>1, <1>2, UsageStays
<1>3. CASE CallSys2(pcb)
  <2>1. kpc' = "terminate" /\ dying' = <<currentProc>>
    BY <1>3 DEF CallSys2
  <2>2. Len(dying') = 1 /\ dying'[1] = currentProc /\ dying' # <<>>
    BY <2>1
  <2>3. \A c \in ToSet(kids[currentProc]) : Entered(c)'
    BY <1>1 DEF UsageInv, DeathInv, Entered
  <2>4. DeathInv'
    BY <1>1, <2>2, <2>3 DEF DeathInv
  <2> QED  BY <1>1, <2>1, <2>4, UsageStays
<1> QED  BY <1>1, <1>2, <1>3 DEF NestedTrap

-----------------------------------------------------------------------------
(***************************************************************************)
(* The system calls.                                                       *)
(***************************************************************************)

\* SYS1.
LEMMA CreateUsage ==
    ASSUME UsageInv, CreateProcess PROVE UsageInv'
BY UsageStays DEF CreateProcess, Running

\* SYS3 finds a process whenever it looks for one.
LEMMA VerhogenUsage ==
    ASSUME TypeOK, PlaceInv, CountInv, UsageInv, NEW s \in UserSem, Verhogen(s)
    PROVE  UsageInv'
<1>1. /\ UNCHANGED <<busy, pending, stray>> /\ kpc = "run"
      /\ \A t \in DeviceSem : blocked'[t] = blocked[t] /\ semVal'[t] = semVal[t]
  BY SemAssumption DEF Verhogen, Running, devices, TypeOK, Sem
<1>2. DeviceInv' /\ DeviceSemaphoresExact'
  BY <1>1, DevicesStay DEF UsageInv
<1>3. s \in Sem /\ semVal[s] \in Int
  BY DEF Sem, TypeOK
<1>4. ~(SomeoneWaits(semVal[s] + 1) /\ blocked[s] = <<>>)
  BY <1>3 DEF CountInv, SemCountExact, Exact, SomeoneWaits
<1>5. kpc' = "run"
  BY <1>1, <1>4 DEF Verhogen
<1> QED  BY <1>1, <1>2, <1>5, RunsOn DEF UsageInv

\* A P on a semaphore of the processes.
LEMMA PasserenUsage ==
    ASSUME TypeOK, PlaceInv, UsageInv, NEW s \in UserSem, Passeren(s)
    PROVE  UsageInv'
<1>1. /\ UNCHANGED <<busy, pending, stray>> /\ kpc = "run" /\ P(s, FALSE, FALSE)
      /\ s \in Sem /\ s \notin DeviceSem /\ Intact
  BY SemAssumption DEF Passeren, Running, P, devices, Sem, UsageInv, NucleusSound
<1>2. \A t \in DeviceSem : blocked'[t] = blocked[t] /\ semVal'[t] = semVal[t]
  BY <1>1 DEF P, TypeOK, Sem
<1>3. DeviceInv' /\ DeviceSemaphoresExact'
  BY <1>1, <1>2, DevicesStay DEF UsageInv
<1>4. kpc' \in {"run", "schedule"}
  BY <1>1, DescriptorsLeft DEF P
<1> QED  BY <1>1, <1>3, <1>4, RunsOn DEF UsageInv

\* A P on a semaphore of the nucleus always blocks.
LEMMA DeviceP ==
    ASSUME TypeOK, PlaceInv, UsageInv, kpc = "run", NEW s \in DeviceSem, NEW toTotal,
           P(s, TRUE, toTotal)
    PROVE  /\ kpc' = "schedule" /\ UNCHANGED stray
           /\ blocked' = [blocked EXCEPT ![s] = Append(@, currentProc)]
           /\ blocked'[s] # <<>>
           /\ currentProc \in Proc
           /\ DeviceSemaphoresExact'
<1>1. /\ s \in Sem /\ blocked[s] \in Seq(Proc) /\ semVal[s] = - Len(blocked[s])
      /\ currentProc \in Proc /\ Len(blocked[s]) \in Nat
  BY RunningFacts, LenProperties DEF Sem, TypeOK, UsageInv, DeviceSemaphoresExact
<1>2. ~(semVal[s] - 1 >= 0) /\ ~NoSemd(s)
  BY <1>1, DescriptorsLeft DEF UsageInv, NucleusSound
<1>3. /\ kpc' = "schedule" /\ UNCHANGED stray
      /\ blocked' = [blocked EXCEPT ![s] = InsertProcQ(@, currentProc)]
      /\ semVal' = [semVal EXCEPT ![s] = @ - 1]
  BY <1>2 DEF P, tree
<1>4. blocked' = [blocked EXCEPT ![s] = Append(@, currentProc)]
  BY <1>3 DEF InsertProcQ
<1>5. blocked'[s] = InsertProcQ(blocked[s], currentProc) /\ semVal'[s] = semVal[s] - 1
  BY <1>1, <1>3 DEF TypeOK
<1>6. /\ Len(blocked'[s]) = Len(blocked[s]) + 1 /\ blocked'[s] \in Seq(Proc)
  <2>1. /\ InsertProcQ(blocked[s], currentProc) \in Seq(Proc)
        /\ Len(InsertProcQ(blocked[s], currentProc)) = Len(blocked[s]) + 1
    BY <1>1, InsertQueue
  <2> QED  BY <1>5, <2>1
<1>7. blocked'[s] # <<>>
  BY <1>1, <1>6, QueueElements
<1>8. \A t \in DeviceSem : t # s => blocked'[t] = blocked[t] /\ semVal'[t] = semVal[t]
  BY <1>3 DEF TypeOK, Sem
<1>9. semVal'[s] = - Len(blocked'[s])
  BY <1>1, <1>5, <1>6
<1>10. DeviceSemaphoresExact'
  BY <1>8, <1>9 DEF UsageInv, DeviceSemaphoresExact
<1> QED  BY <1>1, <1>3, <1>4, <1>7, <1>10

\* SYS7 joins the queue of the clock.
LEMMA WaitForClockUsage ==
    ASSUME CarefulUse, TypeOK, PlaceInv, UsageInv, WaitForClock PROVE UsageInv'
<1>1. kpc = "run" /\ P(ClockSem, TRUE, TRUE) /\ UNCHANGED <<busy, pending>>
  BY DEF WaitForClock, Running, devices
<1>2. /\ kpc' = "schedule" /\ UNCHANGED stray
      /\ blocked' = [blocked EXCEPT ![ClockSem] = Append(@, currentProc)]
      /\ DeviceSemaphoresExact'
  BY <1>1, ClockSemType, DeviceP
<1>3. \A t \in DeviceSem : t # ClockSem => blocked'[t] = blocked[t]
  BY <1>2 DEF TypeOK, Sem
<1>4. DeviceInv'
  BY <1>1, <1>3, OwnSemaphores, WaitSemType DEF UsageInv, DeviceInv, Idle
<1> QED
  BY <1>2, <1>4, RunsOn DEF UsageInv

\* SYS8 is the only process in the queue of the device it has commanded.
LEMMA WaitForIOUsage ==
    ASSUME CarefulUse, TypeOK, PlaceInv, UsageInv, NEW d \in Device, WaitForIO(d)
    PROVE  UsageInv'
<1> DEFINE s == WaitSem(d)
<1>1. /\ kpc = "run" /\ P(s, TRUE, FALSE) /\ s \in DeviceSem /\ s \in Sem
      /\ Idle(d) /\ blocked[s] = <<>> /\ busy' = busy \cup {d} /\ pending' = pending
  BY WaitSemType DEF CarefulUse, WaitForIO, MayWaitFor, Running
<1>2. /\ kpc' = "schedule" /\ UNCHANGED stray /\ currentProc \in Proc
      /\ blocked' = [blocked EXCEPT ![s] = Append(@, currentProc)]
      /\ DeviceSemaphoresExact'
  BY <1>1, DeviceP
<1>3. /\ blocked'[s] = <<currentProc>>
      /\ \A t \in DeviceSem : t # s => blocked'[t] = blocked[t]
  BY <1>1, <1>2 DEF TypeOK, Sem
<1>4. \A e \in Device : e # d => WaitSem(e) # s /\ (Idle(e)' <=> Idle(e))
  BY <1>1, OwnSemaphores DEF Idle
<1>5. ~Idle(d)' /\ busy' \cap pending' = {}
  BY <1>1 DEF Idle, UsageInv, DeviceInv
<1>6. DeviceInv'
  <2>1. ASSUME NEW e \in Device
        PROVE  IF Idle(e)' THEN blocked'[WaitSem(e)] = <<>>
               ELSE \E p \in Proc : blocked'[WaitSem(e)] = <<p>>
    <3>1. CASE e = d
      BY <1>2, <1>3, <1>5, <3>1
    <3>2. CASE e # d
      BY <1>3, <1>4, <3>2, WaitSemType DEF UsageInv, DeviceInv
    <3> QED  BY <3>1, <3>2
  <2>2. \A t \in DeviceSem \ {ClockSem} :
          blocked'[t] # <<>> => \E e \in Device : t = WaitSem(e)
    BY <1>3 DEF UsageInv, DeviceInv
  <2> QED  BY <1>5, <2>1, <2>2 DEF DeviceInv
<1> QED
  BY <1>2, <1>6, RunsOn DEF UsageInv

\* All the system calls.
LEMMA SyscallUsage ==
    ASSUME CarefulUse, TypeOK, PlaceInv, CountInv, UsageInv, Syscall, kpc' # "astray"
    PROVE  UsageInv'
<1>1. CASE CreateProcess
  BY <1>1, CreateUsage
<1>2. CASE NoFreePcb \/ GetCpuTime \/ TerminateProcess
  BY <1>2, HandlerUsage DEF NoFreePcb, GetCpuTime, TerminateProcess
<1>3. ASSUME NEW s \in UserSem, Verhogen(s) \/ Passeren(s) PROVE UsageInv'
  BY <1>3, VerhogenUsage, PasserenUsage
<1>4. ASSUME NEW t \in VectorTypes, SpecifyVector(t) PROVE UsageInv'
  BY <1>4, HandlerUsage DEF SpecifyVector
<1>5. CASE WaitForClock
  BY <1>5, WaitForClockUsage
<1>6. ASSUME NEW d \in Device, WaitForIO(d) PROVE UsageInv'
  BY <1>6, WaitForIOUsage
<1>7. ASSUME NEW d \in Device, CommandDevice(d) PROVE UsageInv'
  BY <1>7 DEF CommandDevice, CarefulUse
<1>8. ~CallAstray
  BY DEF CallAstray, GoAstray
<1> QED  BY <1>1, <1>2, <1>3, <1>4, <1>5, <1>6, <1>7, <1>8 DEF Syscall

-----------------------------------------------------------------------------
(***************************************************************************)
(* The interrupts.                                                         *)
(***************************************************************************)

\* A tick empties the queue of the clock and sets its semaphore to 0.
LEMMA IntervalTimerUsage ==
    ASSUME CarefulUse, TypeOK, PlaceInv, UsageInv, IntervalTimer PROVE UsageInv'
<1>1. /\ UNCHANGED <<busy, pending, stray>> /\ kpc' \in {"run", "schedule"}
      /\ blocked' = [blocked EXCEPT ![ClockSem] = IF TickWakes = <<>> THEN @ ELSE <<>>]
      /\ semVal' = [semVal EXCEPT ![ClockSem] = 0]
  BY DEF IntervalTimer, Return, devices
<1>2. /\ ClockSem \in Sem /\ ClockSem \in DeviceSem /\ blocked[ClockSem] \in Seq(Proc)
      /\ semVal[ClockSem] = - Len(blocked[ClockSem]) /\ Len(blocked[ClockSem]) \in Nat
      /\ (blocked[ClockSem] = <<>> <=> Len(blocked[ClockSem]) = 0)
  BY ClockSemType, LenProperties, QueueElements DEF TypeOK, UsageInv, DeviceSemaphoresExact
<1>3. SomeoneWaits(semVal[ClockSem] + 1) <=> blocked[ClockSem] # <<>>
  BY <1>2 DEF SomeoneWaits
<1>4. TickWakes = blocked[ClockSem]
  BY <1>3 DEF TickWakes
<1>5. blocked'[ClockSem] = <<>> /\ semVal'[ClockSem] = 0
  BY <1>1, <1>2, <1>4 DEF TypeOK
<1>6. \A t \in DeviceSem : t # ClockSem => blocked'[t] = blocked[t] /\ semVal'[t] = semVal[t]
  BY <1>1 DEF TypeOK, Sem
<1>7. DeviceSemaphoresExact'
  BY <1>5, <1>6 DEF UsageInv, DeviceSemaphoresExact
<1>8. DeviceInv'
  BY <1>1, <1>6, OwnSemaphores, WaitSemType DEF UsageInv, DeviceInv, Idle
<1> QED
  BY <1>1, <1>7, <1>8, RunsOn DEF UsageInv

\* A queue of one.
LEMMA OneWaiter ==
    ASSUME NEW p PROVE Len(<<p>>) = 1 /\ <<p>> # <<>> /\ Tail(<<p>>) = <<>>
OBVIOUS

\* The interrupt of a device wakes the process that waits for it, and makes the
\* device idle.
LEMMA DeviceInterruptUsage ==
    ASSUME CarefulUse, TypeOK, PlaceInv, UsageInv, DeviceInterrupt PROVE UsageInv'
<1>1. PICK d \in pending : IntrSem(Line, DevNum) = WaitSem(d) /\ Acknowledged = {d}
  BY InterruptOf DEF DeviceInterrupt, TypeOK
<1> DEFINE s == WaitSem(d)
<1>2. d \in Device /\ ~Idle(d) /\ s \in DeviceSem /\ s \in Sem
  BY <1>1, WaitSemType DEF TypeOK, Idle
<1>3. PICK p \in Proc : blocked[s] = <<p>>
  BY <1>2 DEF UsageInv, DeviceInv
<1>4. blocked[s] # <<>> /\ Tail(blocked[s]) = <<>> /\ semVal[s] = -1
  <2>1. Len(blocked[s]) = 1
    BY <1>3, OneWaiter
  <2>2. blocked[s] # <<>>
    BY <1>3, OneWaiter
  <2>3. Tail(blocked[s]) = <<>>
    BY <1>3, OneWaiter
  <2>4. semVal[s] = -1
    BY <1>2, <2>1 DEF UsageInv, DeviceSemaphoresExact
  <2> QED  BY <2>2, <2>3, <2>4
<1>5. /\ UNCHANGED <<stray, busy>> /\ kpc' \in {"run", "schedule"}
      /\ blocked' = [blocked EXCEPT ![s] = Tail(@)] /\ pending' = pending \ {d}
      /\ semVal' = IncrementDevice(s)
  <2>1. UNCHANGED <<stray, busy>> /\ semVal' = IncrementDevice(s)
    BY <1>1 DEF DeviceInterrupt
  <2>2. blocked' = [blocked EXCEPT ![s] = Tail(@)] /\ pending' = pending \ {d}
    BY <1>1, <1>4 DEF DeviceInterrupt
  <2>3. kpc' \in {"run", "schedule"}
    BY <1>1, <1>4 DEF DeviceInterrupt, Return
  <2> QED  BY <2>1, <2>2, <2>3
<1>6. blocked'[s] = <<>> /\ semVal'[s] = 0
  BY <1>2, <1>4, <1>5, WorkloadAssumption DEF TypeOK, IncrementDevice
<1>7. \A t \in DeviceSem : t # s => blocked'[t] = blocked[t] /\ semVal'[t] = semVal[t]
  BY <1>5 DEF TypeOK, Sem, IncrementDevice
<1>8. DeviceSemaphoresExact'
  BY <1>6, <1>7 DEF UsageInv, DeviceSemaphoresExact
<1>9. \A e \in Device : e # d => WaitSem(e) # s /\ (Idle(e)' <=> Idle(e))
  BY <1>2, <1>5, OwnSemaphores DEF Idle
<1>10. Idle(d)' /\ busy' \cap pending' = {}
  BY <1>1, <1>5 DEF Idle, UsageInv, DeviceInv
<1>11. DeviceInv'
  <2>1. ASSUME NEW e \in Device
        PROVE  IF Idle(e)' THEN blocked'[WaitSem(e)] = <<>>
               ELSE \E q \in Proc : blocked'[WaitSem(e)] = <<q>>
    <3>1. CASE e = d
      BY <1>6, <1>10, <3>1
    <3>2. CASE e # d
      BY <1>7, <1>9, <3>2, WaitSemType DEF UsageInv, DeviceInv
    <3> QED  BY <3>1, <3>2
  <2>2. \A t \in DeviceSem \ {ClockSem} :
          blocked'[t] # <<>> => \E e \in Device : t = WaitSem(e)
    BY <1>2, <1>7 DEF UsageInv, DeviceInv
  <2> QED  BY <1>10, <2>1, <2>2 DEF DeviceInv
<1> QED
  BY <1>5, <1>8, <1>11, RunsOn DEF UsageInv

\* A device that finishes is not idle yet.
LEMMA DeviceDoneUsage ==
    ASSUME UsageInv, NEW d \in Device, DeviceDone(d) PROVE UsageInv'
<1>1. /\ UNCHANGED <<kpc, currentProc, blocked, semVal, stray, pcb, kids, dying>>
      /\ d \in busy /\ busy' = busy \ {d} /\ pending' = pending \cup {d}
  BY DEF DeviceDone, ready, tree
<1>2. busy' \cup pending' = busy \cup pending /\ busy' \cap pending' = {}
  BY <1>1 DEF UsageInv, DeviceInv
<1>3. DeviceInv' /\ IdleInv' /\ DeviceSemaphoresExact'
  BY <1>1, <1>2 DEF UsageInv, DeviceInv, IdleInv, Idle, DeviceSemaphoresExact
<1>4. NucleusSound' /\ DeathInv'
  BY <1>1 DEF UsageInv, NucleusSound, DeathInv, Entered, Intact, ReadySound, SemSound
<1> QED  BY <1>3, <1>4 DEF UsageInv

-----------------------------------------------------------------------------
\* main() starts test and no device.
LEMMA InitUsage == ASSUME Init PROVE UsageInv
<1>1. /\ kpc = "schedule" /\ Live = {Test} /\ busy = {} /\ pending = {}
      /\ \A s \in DeviceSem : s \in Sem /\ s \notin UserSem
      /\ blocked = [s \in Sem |-> <<>>]
  BY ProcAssumption, SemAssumption DEF Init, Live, Sem
<1>2. \A s \in DeviceSem : blocked[s] = <<>> /\ semVal[s] = 0
  BY <1>1 DEF Init
<1>3. NucleusSound /\ DeathInv /\ IdleInv
  BY <1>1 DEF Init, NucleusSound, DeathInv, IdleInv, Intact, ReadySound, SemSound
<1>4. DeviceInv /\ DeviceSemaphoresExact
  BY <1>1, <1>2, WaitSemType DEF DeviceInv, DeviceSemaphoresExact, Idle
<1> QED  BY <1>3, <1>4 DEF UsageInv

\* Every step of a nucleus used carefully.
LEMMA StepUsage ==
    ASSUME CarefulUse, TypeOK, kpc # "astray" => IInv, kpc # "panic" => CountInv,
           UsageInv, [Next]_vars
    PROVE  UsageInv'
<1>1. TypeOK /\ PlaceInv /\ FamilyInv /\ CountInv
  BY DEF UsageInv, NucleusSound, IInv
<1>2. kpc' # "astray"
  BY AstrayFollows DEF UsageInv, NucleusSound
<1>3. CASE Schedule
  BY <1>1, <1>2, <1>3, ScheduleUsage
<1>4. CASE Sys2
  BY <1>1, <1>4, Sys2Usage
<1>5. CASE NestedTrap
  BY <1>5, NestedTrapUsage
<1>6. CASE Syscall
  BY <1>1, <1>2, <1>6, SyscallUsage
<1>7. CASE Exception
  BY <1>1, <1>7, HandlerUsage
     DEF Exception, TlbException, HighSyscall, ProgramTrap, UserModeSyscall, PassUpOrDie
<1>8. CASE Interrupt
  <2>1. CASE ProcTimer
    BY <2>1, UsageStays DEF ProcTimer, devices
  <2>2. ~InterruptAstray
    BY <1>2 DEF InterruptAstray, GoAstray
  <2> QED
    BY <1>1, <1>8, <2>1, <2>2, IntervalTimerUsage, DeviceInterruptUsage DEF Interrupt
<1>9. ASSUME NEW d \in Device, DeviceDone(d) PROVE UsageInv'
  BY <1>9, DeviceDoneUsage
<1>10. CASE UNCHANGED vars
  <2>1. UNCHANGED <<kpc, currentProc, blocked, semVal, stray, pcb, kids, dying, busy, pending>>
    BY <1>10 DEF vars, ready, tree, devices
  <2>2. DeviceInv' /\ DeviceSemaphoresExact'
    BY <2>1, DevicesStay DEF UsageInv
  <2>3. NucleusSound' /\ DeathInv' /\ IdleInv'
    BY <2>1 DEF UsageInv, NucleusSound, DeathInv, IdleInv, Entered, Intact, ReadySound,
        SemSound
  <2> QED  BY <2>2, <2>3 DEF UsageInv
<1> QED  BY <1>3, <1>4, <1>5, <1>6, <1>7, <1>8, <1>9, <1>10 DEF Next, Stop

\* UsageInv holds in every reachable state of a nucleus used carefully.
THEOREM UsageInvariant == ASSUME CarefulUse PROVE Spec => []UsageInv
<1>1. Init => UsageInv
  BY InitUsage
<1>2. TypeOK /\ (kpc # "astray" => IInv) /\ (kpc # "panic" => CountInv)
          /\ UsageInv /\ [Next]_vars => UsageInv'
  BY StepUsage
<1>3. PastLookup = {}
  BY DEF CarefulUse
<1> QED  BY <1>1, <1>2, <1>3, Invariant, CountsStayExact, PTL DEF Spec

-----------------------------------------------------------------------------
(***************************************************************************)
(* What the runs check.                                                    *)
(***************************************************************************)

\* Every semaphore of the nucleus counts the processes that wait for it: each
\* handler V's what was P'd, and the handlers of the two kinds of V agree.
THEOREM DeviceSemaphoresAreExact == ASSUME CarefulUse PROVE Spec => []DeviceSemaphoresExact
<1>1. UsageInv => DeviceSemaphoresExact
  BY DEF UsageInv
<1> QED  BY <1>1, UsageInvariant, PTL

\* A process waits for a device exactly while the device works or its interrupt
\* waits to be taken: no interrupt is lost between ioTrapHandler and sys8.
THEOREM NoWakeupIsLost == ASSUME CarefulUse PROVE Spec => []NoLostWakeup
<1>1. UsageInv => NoLostWakeup
  BY DEF UsageInv, DeviceInv, NoLostWakeup
<1> QED  BY <1>1, UsageInvariant, PTL

\* The scheduler HALTs, PANICs or waits only when it is right to: when it waits,
\* an interrupt that makes a process ready is still to come.
THEOREM SchedulerIsRight == ASSUME CarefulUse PROVE Spec => []VerdictIsRight
<1>1. UsageInv /\ StopIsRight => VerdictIsRight
  BY DEF UsageInv, IdleInv, VerdictIsRight
<1>2. PastLookup = {}
  BY DEF CarefulUse
<1> QED  BY <1>1, <1>2, UsageInvariant, SchedulerStopsRightly, PTL

\* Used as phase 3 uses it, with the test that calls SYS2 while children live that
\* have entered the nucleus, the nucleus leaves no stray tail, loops for ever in no
\* search, runs out of no descriptors, and traps only on the junk p_semAdd of such
\* a child, which prgTrapHandler answers with the same SYS2 again.
THEOREM NucleusIsSound == ASSUME CarefulUse PROVE Spec => []NucleusSound
<1>1. UsageInv => NucleusSound
  BY DEF UsageInv
<1> QED  BY <1>1, UsageInvariant, PTL
=============================================================================
