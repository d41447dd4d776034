---------------------------- MODULE MemoryProofs ----------------------------
(***************************************************************************)
(* TLAPS proofs about what a user program sees of its memory, for any      *)
(* number of processes, pages and frames and any workload: the variables   *)
(* of the support level have their types, a fault is served, and loading   *)
(* and paging implement the memory of UserMemory.                          *)
(***************************************************************************)
EXTENDS SupportProofs

\* Process a goes from one place to another without a command to a device, and
\* nothing happens to the memory.
Goes(a, from, to) ==
    /\ pc[a] = from /\ pc'[a] = to /\ io[a] = "command"
    /\ \A b \in Proc \ {a} : pc'[b] = pc[b] /\ local'[b] = local[b]
    /\ UNCHANGED <<io, busy, storage, paging>>

\* Between places where nothing in the memory is under way.
FreePlaces == {"user", "tlb", "victim", "sys18", "terminate", "ended", "print", "printChar",
               "printed", "type", "typeChar", "typed", "delay", "return", "LDST"}
Free(a) ==
    /\ \/ \E from \in FreePlaces \cup {"start"}, to \in FreePlaces \ {"LDST"} : Goes(a, from, to)
       \/ Goes(a, "swampUnlock", "LDST") /\ UNCHANGED local
    /\ reply' = reply \/ reply' = [reply EXCEPT ![a] = [line \in DOMAIN @ |-> TRUE]]

\* From one statement of the loader or the pager to the next.
Ways == {<<"professor", "tape">>, <<"seekLock", "seek">>, <<"seekUnlock", "storeLock">>,
         <<"seekUnlock", "stored">>, <<"storeLock", "store">>, <<"storeUnlock", "stored">>,
         <<"writeOut", "outSeek">>, <<"outUnlock", "mask">>, <<"mask", "readOut">>,
         <<"readOut", "inSeek">>, <<"inUnlock", "update">>, <<"PANIC", "PANIC">>}
Way(a) ==
    /\ UNCHANGED <<local, reply>>
    /\ \E w \in Ways : Goes(a, w[1], w[2]) /\ (w = <<"seekUnlock", "stored">> => ~Ready(a, "disk"))

\* The end of a round of readAndStore().
Round(a) ==
    /\ reply' = reply
    /\ \/ /\ Goes(a, "stored", "tape") /\ MoreToRead(a) /\ Ready(a, "tape")
          /\ currentPage(a)' = currentPage(a) + 1
       \/ Goes(a, "stored", "start") /\ ~(MoreToRead(a) /\ Ready(a, "tape"))

\* A command, the SYS8 for it, and the way on.
Commands(a) ==
    /\ io[a] = "command" /\ pc[a] \in IOPlaces /\ a \notin ToSet(blocked[diskMutex])
    /\ busy[DeviceOf(a)] = NULL /\ DeviceOf(a) \in Device
    /\ io' = [io EXCEPT ![a] = "wait"] /\ busy' = [busy EXCEPT ![DeviceOf(a)] = CommandOf(a)]
    /\ UNCHANGED <<pc, local, paging, storage, reply>>
Awaits(a) ==
    /\ io[a] = "wait" /\ pc[a] \in IOPlaces /\ busy[DeviceOf(a)] # NULL
    /\ io' = [io EXCEPT ![a] = "done"]
    /\ UNCHANGED <<pc, local, busy, paging, storage, reply>>

IOWays == {<<"tape", "seekLock">>, <<"seek", "seekUnlock">>, <<"store", "storeUnlock">>,
           <<"outSeek", "outWrite">>, <<"outSeek", "PANIC">>, <<"outWrite", "outUnlock">>,
           <<"inSeek", "inRead">>, <<"inSeek", "PANIC">>, <<"inRead", "inUnlock">>,
           <<"printChar", "printed">>, <<"typeChar", "typed">>}
GoesOn(a) ==
    /\ Finished(a) /\ io' = [io EXCEPT ![a] = "command"]
    /\ \E w \in IOWays : /\ pc[a] = w[1] /\ pc' = [pc EXCEPT ![a] = w[2]]
                         /\ w[2] \in {"outWrite", "inRead"} => Ready(a, "disk")
    /\ UNCHANGED <<local, busy, paging, storage, reply>>

IO(a) == Commands(a) \/ Awaits(a) \/ GoesOn(a)

-----------------------------------------------------------------------------
LEMMA PlaceDevice == ASSUME Inv, IOInv, NEW a \in Asid PROVE DeviceOf(a) \in Device
<1>1. Tape(a) \in Device /\ Printer(a) \in Device /\ Terminal(a) \in Device /\ Disk0 \in Device
  BY Universe
<1> QED  BY <1>1 DEF DeviceOf

\* A process that runs at the place of a command finds its device idle, before
\* the command and when it has been carried out.
LEMMA IdleAt ==
    ASSUME Inv, IOInv, NEW a \in Asid, ~Waits(a), pc[a] \in IOPlaces, io[a] # "wait"
    PROVE  busy[DeviceOf(a)] = NULL
<1> SUFFICES ASSUME busy[DeviceOf(a)] # NULL PROVE FALSE
  OBVIOUS
<1>1. PICK d \in Device : d = DeviceOf(a)
  BY PlaceDevice
<1>2. PICK b \in Asid : Serves(d, b)
  BY <1>1 DEF IOInv
<1>3. b = a
  BY <1>1, <1>2, OneUser, WaitsNot DEF Serves
<1>4. blocked[d] = <<a>> /\ d \in DOMAIN blocked /\ a \in ToSet(<<a>>)
  BY <1>2, <1>3 DEF Serves, Inv, StateType, ToSet
<1> QED  BY <1>4 DEF Waits

LEMMA DoIOIs ==
    ASSUME Inv, IOInv, NEW a \in Asid, NEW place \in IOPlaces, NEW op, NEW then,
           DoIO(a, place, DeviceOf(a), DeviceOf(a), op, then), op = CommandOf(a),
           <<place, then>> \in IOWays, then \in {"outWrite", "inRead"} => Ready(a, "disk")
    PROVE  IO(a)
<1>1. pc[a] = place /\ ~Waits(a) /\ UNCHANGED <<local, paging, storage, reply>>
  BY DEF DoIO, At
<1>2. DeviceOf(a) \in Device
  BY PlaceDevice
<1>3. CASE /\ io[a] = "command" /\ io' = [io EXCEPT ![a] = "wait"] /\ pc' = pc
           /\ busy' = [busy EXCEPT ![DeviceOf(a)] = IF @ = NULL THEN op ELSE @]
  <2>1. busy[DeviceOf(a)] = NULL
    BY <1>1, <1>3, IdleAt
  <2>2. busy' = [busy EXCEPT ![DeviceOf(a)] = CommandOf(a)]
    BY <1>3, <2>1
  <2> QED  BY <1>1, <1>2, <1>3, <2>1, <2>2, WaitsNot DEF IO, Commands
<1>4. CASE io[a] = "wait" /\ io' = [io EXCEPT ![a] = "done"] /\ UNCHANGED <<pc, busy>>
  <2>1. busy[DeviceOf(a)] # NULL
    BY <1>4 DEF IOInv
  <2> QED  BY <1>1, <1>4, <2>1 DEF IO, Awaits
<1>5. CASE io[a] = "done" /\ io' = [io EXCEPT ![a] = "command"] /\ Goto(a, then) /\ busy' = busy
  <2>1. Finished(a)
    BY <1>1, <1>5, IdleAt DEF Finished
  <2>2. \E w \in IOWays : /\ pc[a] = w[1] /\ pc' = [pc EXCEPT ![a] = w[2]]
                          /\ w[2] \in {"outWrite", "inRead"} => Ready(a, "disk")
    <3>1. PICK w \in IOWays : w = <<place, then>>
      OBVIOUS
    <3>2. w[1] = place /\ w[2] = then
      BY <3>1
    <3> QED  BY <1>1, <1>5, <3>2 DEF Goto
  <2> QED  BY <1>1, <1>5, <2>1, <2>2 DEF IO, GoesOn
<1> QED  BY <1>3, <1>4, <1>5 DEF DoIO

\* A step between places where no command is given.
LEMMA GoesBy ==
    ASSUME Inv, IOInv, NEW a \in Asid, NEW place, At(a, place), place \notin IOPlaces, NEW to,
           Goto(a, to), UNCHANGED <<io, busy, storage, paging>>,
           \A b \in Proc \ {a} : local'[b] = local[b]
    PROVE  Goes(a, place, to)
BY Universe DEF Goes, At, Goto, Inv, StateType, IOInv

LEMMA StaysAt ==
    ASSUME Inv, IOInv, NEW a \in Asid, NEW place, At(a, place), place \notin IOPlaces,
           UNCHANGED <<pc, io, busy, storage, paging>>, \A b \in Proc \ {a} : local'[b] = local[b]
    PROVE  Goes(a, place, place)
BY Universe DEF Goes, At, IOInv

\* From a free place to a free place, or nowhere.
LEMMA FreeGoes ==
    ASSUME Inv, IOInv, NEW a \in Asid, NEW from \in FreePlaces \cup {"start"},
           At(a, from), from \notin IOPlaces,
           \/ UNCHANGED pc /\ from \in FreePlaces \ {"LDST"}
           \/ \E to \in FreePlaces \ {"LDST"} : Goto(a, to),
           UNCHANGED <<io, busy, storage, paging>>, \A b \in Proc \ {a} : local'[b] = local[b],
           reply' = reply \/ reply' = [reply EXCEPT ![a] = [line \in DOMAIN @ |-> TRUE]]
    PROVE  Free(a)
<1>1. CASE UNCHANGED pc /\ from \in FreePlaces \ {"LDST"}
  BY <1>1, StaysAt DEF Free
<1>2. CASE \E to \in FreePlaces \ {"LDST"} : Goto(a, to)
  BY <1>2, GoesBy DEF Free
<1> QED  BY <1>1, <1>2

LEMMA WayGoes ==
    ASSUME Inv, IOInv, NEW a \in Asid, NEW from, NEW to, <<from, to>> \in Ways, At(a, from),
           from \notin IOPlaces, Goto(a, to), UNCHANGED <<io, busy, reply, storage, paging, local>>,
           <<from, to>> = <<"seekUnlock", "stored">> => ~Ready(a, "disk")
    PROVE  Way(a)
<1>1. PICK w \in Ways : w = <<from, to>>
  OBVIOUS
<1>2. w[1] = from /\ w[2] = to
  BY <1>1
<1>3. Goes(a, w[1], w[2])
  BY <1>2, GoesBy
<1> QED  BY <1>1, <1>3 DEF Way

LEMMA LockDiskIs ==
    ASSUME Inv, IOInv, NEW a \in Asid, NEW from, NEW to, <<from, to>> \in Ways, from \notin IOPlaces,
           LockDisk(a, from, to) \/ UnlockDisk(a, from, to),
           <<from, to>> = <<"seekUnlock", "stored">> => ~Ready(a, "disk")
    PROVE  Way(a)
BY WayGoes DEF LockDisk, UnlockDisk, NoIO, devices

LEMMA ProfessorIs ==
    ASSUME Inv, IOInv, NEW a \in Asid, Professor(a) PROVE Free(a) \/ Way(a) \/ Round(a) \/ IO(a)
<1> USE DEF Ways, IOWays, IOPlaces
<1>1. CASE SetVectors(a)
  BY <1>1, WayGoes DEF SetVectors, NoIO, devices
<1>2. CASE StartProgram(a)
  BY <1>2, FreeGoes DEF StartProgram, FreePlaces
<1>3. CASE ReadTape(a)
  <2>1. pc[a] = "tape"
    BY <1>3 DEF ReadTape, DoIO, At
  <2>2. DeviceOf(a) = Tape(a) /\ CommandOf(a) = [op |-> "readTape", asid |-> a]
    BY <2>1 DEF DeviceOf, CommandOf
  <2> QED  BY <1>3, <2>2, DoIOIs DEF ReadTape
<1>4. CASE DoIO(a, "seek", Disk0, Disk0, Seek(currentPage(a)), "seekUnlock")
  <2>1. pc[a] = "seek"
    BY <1>4 DEF DoIO, At
  <2>2. DeviceOf(a) = Disk0 /\ CommandOf(a) = Seek(currentPage(a))
    BY <2>1 DEF DeviceOf, CommandOf
  <2> QED  BY <1>4, <2>2, DoIOIs
<1>5. CASE DoIO(a, "store", Disk0, Disk0, WriteBuffer(a), "storeUnlock")
  <2>1. pc[a] = "store"
    BY <1>5 DEF DoIO, At
  <2>2. DeviceOf(a) = Disk0 /\ CommandOf(a) = WriteBuffer(a)
    BY <2>1 DEF DeviceOf, CommandOf
  <2> QED  BY <1>5, <2>2, DoIOIs
<1>6. CASE UnlockDisk(a, "seekUnlock", IF Ready(a, "disk") THEN "storeLock" ELSE "stored")
  <2>1. CASE Ready(a, "disk")
    BY <1>6, <2>1, LockDiskIs
  <2>2. CASE ~Ready(a, "disk")
    BY <1>6, <2>2, LockDiskIs
  <2> QED  BY <2>1, <2>2
<1>7. CASE \/ LockDisk(a, "seekLock", "seek") \/ LockDisk(a, "storeLock", "store")
           \/ UnlockDisk(a, "storeUnlock", "stored")
  BY <1>7, LockDiskIs
<1>8. CASE NextBlock(a)
  <2>1. /\ At(a, "stored") /\ UNCHANGED <<io, busy, reply, storage, paging>>
        /\ local[a].count \in Nat /\ StateType /\ a \in Proc
    BY <1>8, Universe DEF NextBlock, NoIO, devices, Inv, StateType, Locals
  <2>2. CASE MoreToRead(a) /\ Ready(a, "tape")
    <3>1. Goto(a, "tape") /\ local' = [local EXCEPT ![a].count = local[a].count + 1]
      BY <1>8, <2>2 DEF NextBlock, Count, currentPage
    <3>2. local'[a].count = local[a].count + 1 /\ \A b \in Proc \ {a} : local'[b] = local[b]
      BY <2>1, <3>1 DEF StateType, Locals
    <3>3. Goes(a, "stored", "tape")
      BY <2>1, <3>1, <3>2, GoesBy
    <3> QED  BY <2>1, <2>2, <3>2, <3>3 DEF Round, currentPage
  <2>3. CASE ~(MoreToRead(a) /\ Ready(a, "tape"))
    <3>1. Goto(a, "start") /\ local' = [local EXCEPT ![a].count = 0]
      BY <1>8, <2>3 DEF NextBlock, Count
    <3>2. \A b \in Proc \ {a} : local'[b] = local[b]
      BY <2>1, <3>1 DEF StateType
    <3>3. Goes(a, "stored", "start")
      BY <2>1, <3>1, <3>2, GoesBy
    <3> QED  BY <2>1, <2>3, <3>3 DEF Round
  <2> QED  BY <2>2, <2>3
<1> QED
  BY <1>1, <1>2, <1>3, <1>4, <1>5, <1>6, <1>7, <1>8 DEF Professor, ReadAndStore, StoreBlock

LEMMA EnterFree ==
    ASSUME Inv, IOInv, NEW a \in Asid, NEW from \in FreePlaces \ {"LDST"}, At(a, from),
           from \notin IOPlaces, EnterTLBHandler(a), UNCHANGED <<io, busy, storage, paging, reply>>,
           \A b \in Proc \ {a} : local'[b] = local[b]
    PROVE  Free(a)
<1>1. UNCHANGED pc \/ \E to \in FreePlaces \ {"LDST"} : Goto(a, to)
  BY DEF EnterTLBHandler, Syscall18, FreePlaces
<1> QED  BY <1>1, FreeGoes

\* What a program does but store.
LEMMA ProgramIs ==
    ASSUME Inv, IOInv, NEW a \in Asid, PageFault(a) \/ Call(a) \/ ProgramTrap(a) PROVE Free(a)
<1> USE DEF FreePlaces, IOPlaces
<1>1. CASE PageFault(a)
  <2>1. \A b \in Proc \ {a} : local'[b] = local[b]
    BY <1>1 DEF PageFault, Inv, StateType
  <2> QED  BY <1>1, <2>1, EnterFree DEF PageFault, devices
<1>2. CASE Call(a)
  <2>1. PICK c \in UserCall : Set(a, c, 0) /\ Goto(a, Branch(c))
    BY <1>2 DEF Call
  <2>2. Branch(c) \in FreePlaces \ {"LDST"}
    BY DEF Branch
  <2>3. \A b \in Proc \ {a} : local'[b] = local[b]
    BY <2>1 DEF Set, Inv, StateType
  <2> HIDE DEF FreePlaces
  <2>4. "user" \in FreePlaces \ {"LDST"}
    BY DEF FreePlaces
  <2> QED  BY <1>2, <2>1, <2>2, <2>3, <2>4, FreeGoes DEF Call, NoIO, devices
<1>3. CASE ProgramTrap(a)
  BY <1>3, FreeGoes DEF ProgramTrap, Syscall18, NoIO, devices
<1> QED  BY <1>1, <1>2, <1>3

\* What a fault handler does but take a frame and map it.
LEMMA TLBHandlerIs ==
    ASSUME Inv, IOInv, NEW a \in Asid, TLBHandler(a)
    PROVE  Free(a) \/ Way(a) \/ IO(a) \/ TakeFrame(a) \/ MapPage(a)
<1> USE DEF Ways, IOWays, IOPlaces
<1>1. CASE EnterSwamp(a)
  <2>1. At(a, "tlb") /\ \E to \in FreePlaces \ {"LDST"} : Goto(a, to)
    BY <1>1 DEF EnterSwamp, Syscall18, FreePlaces
  <2> QED  BY <1>1, <2>1, FreeGoes DEF EnterSwamp, NoIO, devices, FreePlaces
<1>2. CASE DoIO(a, "outSeek", Disk0, Disk0, Seek(swamp[vic(a)].page),
                IF Ready(a, "disk") THEN "outWrite" ELSE "PANIC")
  <2>1. pc[a] = "outSeek"
    BY <1>2 DEF DoIO, At
  <2>2. DeviceOf(a) = Disk0 /\ CommandOf(a) = Seek(swamp[vic(a)].page)
    BY <2>1 DEF DeviceOf, CommandOf
  <2>3. PICK then \in {"outWrite", "PANIC"} : then = IF Ready(a, "disk") THEN "outWrite" ELSE "PANIC"
    OBVIOUS
  <2> QED  BY <1>2, <2>2, <2>3, DoIOIs
<1>3. CASE DoIO(a, "outWrite", Disk0, Disk0, WriteBlk(swamp[vic(a)], vic(a)), "outUnlock")
  <2>1. pc[a] = "outWrite"
    BY <1>3 DEF DoIO, At
  <2>2. DeviceOf(a) = Disk0 /\ CommandOf(a) = WriteBlk(swamp[vic(a)], vic(a))
    BY <2>1 DEF DeviceOf, CommandOf
  <2> QED  BY <1>3, <2>2, DoIOIs
<1>4. CASE DoIO(a, "inSeek", Disk0, Disk0, Seek(fault(a).page),
                IF Ready(a, "disk") THEN "inRead" ELSE "PANIC")
  <2>1. pc[a] = "inSeek"
    BY <1>4 DEF DoIO, At
  <2>2. DeviceOf(a) = Disk0 /\ CommandOf(a) = Seek(fault(a).page)
    BY <2>1 DEF DeviceOf, CommandOf
  <2>3. PICK then \in {"inRead", "PANIC"} : then = IF Ready(a, "disk") THEN "inRead" ELSE "PANIC"
    OBVIOUS
  <2> QED  BY <1>4, <2>2, <2>3, DoIOIs
<1>5. CASE DoIO(a, "inRead", Disk0, Disk0, ReadBlk(a, vic(a)), "inUnlock")
  <2>1. pc[a] = "inRead"
    BY <1>5 DEF DoIO, At
  <2>2. DeviceOf(a) = Disk0 /\ CommandOf(a) = ReadBlk(a, vic(a))
    BY <2>1 DEF DeviceOf, CommandOf
  <2> QED  BY <1>5, <2>2, DoIOIs
<1>6. CASE \/ LockDisk(a, "writeOut", "outSeek") \/ UnlockDisk(a, "outUnlock", "mask")
           \/ LockDisk(a, "readOut", "inSeek") \/ UnlockDisk(a, "inUnlock", "update")
  BY <1>6, LockDiskIs
<1>7. CASE MaskUpdate(a)
  BY <1>7, WayGoes DEF MaskUpdate, devices
<1>8. CASE Panic(a)
  <2>1. Goes(a, "PANIC", "PANIC") /\ UNCHANGED <<local, reply>>
    BY <1>8, StaysAt DEF Panic, devices
  <2>2. \E w \in Ways : w[1] = "PANIC" /\ w[2] = "PANIC" /\ w # <<"seekUnlock", "stored">>
    BY <2>1
  <2> QED  BY <2>1, <2>2 DEF Way
<1>9. CASE LeaveSwamp(a)
  BY <1>9, GoesBy DEF LeaveSwamp, NoIO, devices, Free
<1>10. CASE ResumeProgram(a)
  <2>1. \A b \in Proc \ {a} : local'[b] = local[b]
    BY <1>10 DEF ResumeProgram, Inv, StateType
  <2> QED  BY <1>10, <2>1, FreeGoes DEF ResumeProgram, FreePlaces
<1> QED
  BY <1>1, <1>2, <1>3, <1>4, <1>5, <1>6, <1>7, <1>8, <1>9, <1>10
  DEF TLBHandler, WriteOut, ReadOut

LEMMA SyscallHandlerIs ==
    ASSUME Inv, IOInv, NEW a \in Asid, SyscallHandler(a) PROVE Free(a) \/ IO(a)
<1> USE DEF FreePlaces, IOPlaces
<1>1. ASSUME NEW loop \in {"print", "type"}, NEW give \in {"printChar", "typeChar"},
             NextChar(a, loop, give)
      PROVE  Free(a)
  <2>1. /\ At(a, loop) /\ UNCHANGED <<io, busy, reply, storage, paging, local>>
        /\ EnterTLBHandler(a) \/ \E to \in FreePlaces \ {"LDST"} : Goto(a, to)
    BY <1>1 DEF NextChar, Syscall18, devices
  <2> QED  BY <2>1, EnterFree, FreeGoes
<1>2. ASSUME NEW place \in {"printed", "typed"}, NEW loop \in {"print", "type"}, NEW error,
             CharSent(a, place, loop, error)
      PROVE  Free(a)
  <2>1. /\ At(a, place) /\ UNCHANGED <<io, busy, reply, storage, paging>>
        /\ \E to \in FreePlaces \ {"LDST"} : Goto(a, to)
    BY <1>2 DEF CharSent, NoIO, devices
  <2>2. \A b \in Proc \ {a} : local'[b] = local[b]
    BY <1>2 DEF CharSent, Set, Inv, StateType
  <2> QED  BY <2>1, <2>2, FreeGoes
<1>3. CASE DoIO(a, "printChar", Printer(1), Printer(a), [op |-> "char"], "printed")
  <2>1. pc[a] = "printChar"
    BY <1>3 DEF DoIO, At
  <2>2. DeviceOf(a) = Printer(a) /\ CommandOf(a) = [op |-> "char"] /\ a = 1
    BY <2>1 DEF DeviceOf, CommandOf, IOInv, PrintPlaces, Asid
  <2> QED  BY <1>3, <2>2, DoIOIs DEF IOWays
<1>4. CASE DoIO(a, "typeChar", Terminal(a), Terminal(a), [op |-> "char"], "typed")
  <2>1. pc[a] = "typeChar"
    BY <1>4 DEF DoIO, At
  <2>2. DeviceOf(a) = Terminal(a) /\ CommandOf(a) = [op |-> "char"]
    BY <2>1 DEF DeviceOf, CommandOf
  <2> QED  BY <1>4, <2>2, DoIOIs DEF IOWays
<1>5. CASE PrintString(a) \/ TypeString(a)
  BY <1>1, <1>2, <1>3, <1>4, <1>5 DEF PrintString, TypeString
<1>6. CASE Sys18(a)
  BY <1>6, FreeGoes DEF Sys18, NoIO, devices
<1>7. CASE Terminate(a) \/ Return(a)
  <2>1. \A b \in Proc \ {a} : local'[b] = local[b]
    BY <1>7 DEF Terminate, Dies, Return, Inv, StateType
  <2> QED  BY <1>7, <2>1, FreeGoes DEF Terminate, Dies, Return, NoIO, devices
<1>8. CASE Delay(a)
  <2>1. \A b \in Proc \ {a} : local'[b] = local[b]
    BY <1>8 DEF Delay, Set, Inv, StateType
  <2> QED  BY <1>8, <2>1, FreeGoes DEF Delay, NoIO, devices
<1> QED  BY <1>5, <1>6, <1>7, <1>8 DEF SyscallHandler

\* Every step of a process is of one of these kinds.
LEMMA ProcessIs ==
    ASSUME Inv, IOInv, NEW a \in Asid, Professor(a) \/ Program(a) \/ Handlers(a)
    PROVE  \/ Free(a) \/ Way(a) \/ Round(a) \/ IO(a) \/ TakeFrame(a) \/ MapPage(a)
           \/ \E p \in Page : Store(a, p)
BY ProfessorIs, ProgramIs, TLBHandlerIs, SyscallHandlerIs DEF Program, Handlers

-----------------------------------------------------------------------------
\* The part of TypeOK about the machine, and the part about memory and devices;
\* StateType and IOInv have the rest.
MachineType ==
    /\ kernel \in {"up", "halted", "panic", "astray", "trap", "deadlock"}
    /\ masked \in Proc \cup {NULL}
    /\ currentStatus \in Statuses /\ status \in [Proc -> Statuses]
MemoryType ==
    /\ tlb \subseteq Asid \X Page \X Frame
    /\ ram \in [Frame -> Contents] /\ disk \in [Page -> [Asid -> Contents]]
    /\ arm \in Page /\ buffer \in [Asid -> Contents] /\ tapePos \in [Asid -> Nat]
    /\ reply \in [Asid -> [{"disk", "tape", "printer", "terminal"} -> BOOLEAN]]

LEMMA TypeParts == ASSUME Inv, IOInv PROVE TypeOK <=> MachineType /\ MemoryType
<1>1. StateType /\ io \in [Proc -> {"command", "wait", "done"}] /\ DOMAIN busy = Device
  BY DEF Inv, IOInv
<1> QED  BY <1>1 DEF TypeOK, MachineType, MemoryType, StateType, Locals, Faults

\* What a step of process a may do to the processor.
MachineStep(a) ==
    /\ kernel' \in {kernel, "halted", "astray", "panic"} /\ masked' \in {NULL, a, masked}
    /\ currentStatus' \in {currentStatus, status[a]}
    /\ \/ status' = status
       \/ \E s \in Statuses \cup {currentStatus, status[a]} : status' = [status EXCEPT ![a] = s]

LEMMA MachineStepKeeps ==
    ASSUME MachineType, NEW a \in Proc, MachineStep(a) PROVE MachineType'
BY DEF MachineType, MachineStep

LEMMA ResumesStep ==
    ASSUME NEW a, Resumes(a), kernel' \in {kernel, "halted", "astray", "panic"},
           currentStatus' \in {currentStatus, status[a]}
    PROVE  MachineStep(a)
BY DEF Resumes, RunsWith, MachineStep

LEMMA RunsStep ==
    ASSUME NEW a, NEW s \in Statuses \cup {currentStatus}, RunsWith(a, s),
           kernel' \in {kernel, "halted", "astray", "panic"},
           currentStatus' \in {currentStatus, status[a]}
    PROVE  MachineStep(a)
BY DEF RunsWith, MachineStep

LEMMA CallStep ==
    ASSUME NEW a, NEW s, P(a, s) \/ V(a, s) \/ Sleep(a, s), UNCHANGED <<kernel, currentStatus>>
    PROVE  MachineStep(a)
BY DEF P, V, Sleep, Resumes, RunsWith, MachineStep

LEMMA DoIOStep ==
    ASSUME NEW a, NEW place, NEW c, NEW d, NEW op, NEW then, DoIO(a, place, c, d, op, then)
    PROVE  MachineStep(a)
<1>1. /\ kernel' = kernel
      /\ \/ TurnOff(a)
         \/ Sleep(a, d) /\ UNCHANGED currentStatus
         \/ TurnOn(a)
  BY DEF DoIO
<1>2. "off" \in Statuses
  BY DEF Statuses
<1> QED  BY <1>1, <1>2, RunsStep, CallStep DEF TurnOff, TurnOn

LEMMA LockDiskStep ==
    ASSUME NEW a, NEW from, NEW to, LockDisk(a, from, to) \/ UnlockDisk(a, from, to)
    PROVE  MachineStep(a)
BY CallStep DEF LockDisk, UnlockDisk, NoIO

LEMMA EnterStep ==
    ASSUME NEW a, EnterTLBHandler(a), UNCHANGED currentStatus PROVE MachineStep(a)
<1>1. CASE RunsWith(a, "virtual") /\ UNCHANGED kernel
  BY <1>1, RunsStep DEF Statuses
<1>2. CASE kernel' = "astray" /\ UNCHANGED <<masked, status>>
  BY <1>2 DEF MachineStep
<1> QED  BY <1>1, <1>2 DEF EnterTLBHandler, Syscall18

LEMMA ProcessStep ==
    ASSUME NEW a \in Asid, Professor(a) \/ Program(a) \/ Handlers(a) PROVE MachineStep(a)
<1>1. CASE Professor(a)
  <2>1. CASE SetVectors(a) \/ NextBlock(a)
    BY <2>1, ResumesStep DEF SetVectors, NextBlock, NoIO
  <2>2. CASE StartProgram(a)
    BY <2>2, RunsStep DEF StartProgram, Statuses
  <2> QED  BY <1>1, <2>1, <2>2, DoIOStep, LockDiskStep DEF Professor, ReadAndStore, ReadTape, StoreBlock
<1>2. CASE Program(a)
  <2>1. CASE \E p \in Page : Store(a, p)
    BY <2>1, ResumesStep DEF Store
  <2>2. CASE PageFault(a)
    BY <2>2, EnterStep DEF PageFault
  <2>3. CASE Call(a) \/ ProgramTrap(a)
    BY <2>3, RunsStep DEF Call, ProgramTrap, Syscall18, NoIO, Statuses
  <2> QED  BY <1>2, <2>1, <2>2, <2>3 DEF Program
<1>3. CASE TLBHandler(a)
  <2>1. CASE EnterSwamp(a)
    BY <2>1, RunsStep, CallStep DEF EnterSwamp, Syscall18, NoIO, Statuses
  <2>2. CASE TakeFrame(a)
    BY <2>2, ResumesStep DEF TakeFrame
  <2>3. CASE MaskUpdate(a) \/ MapPage(a) \/ ResumeProgram(a)
    BY <2>3, RunsStep DEF MaskUpdate, MapPage, ResumeProgram, TurnOff, TurnOn, Statuses
  <2>4. CASE Panic(a)
    BY <2>4 DEF Panic, MachineStep
  <2>5. CASE LeaveSwamp(a)
    BY <2>5, CallStep DEF LeaveSwamp, NoIO
  <2> QED
    BY <1>3, <2>1, <2>2, <2>3, <2>4, <2>5, DoIOStep, LockDiskStep DEF TLBHandler, WriteOut, ReadOut
<1>4. CASE SyscallHandler(a)
  <2>1. ASSUME NEW loop, NEW give, NextChar(a, loop, give) PROVE MachineStep(a)
    BY <2>1, EnterStep, ResumesStep, RunsStep DEF NextChar, Syscall18, Statuses
  <2>2. ASSUME NEW place, NEW loop, NEW error, CharSent(a, place, loop, error) PROVE MachineStep(a)
    BY <2>2, ResumesStep DEF CharSent, NoIO
  <2>3. CASE Sys18(a)
    BY <2>3, CallStep DEF Sys18, NoIO
  <2>4. CASE Terminate(a) \/ Return(a)
    BY <2>4, RunsStep DEF Terminate, Dies, Return, NoIO, Statuses
  <2>5. CASE Delay(a)
    BY <2>5, CallStep, ResumesStep DEF Delay, NoIO
  <2> QED
    BY <1>4, <2>1, <2>2, <2>3, <2>4, <2>5, DoIOStep DEF SyscallHandler, PrintString, TypeString
<1> QED  BY <1>1, <1>2, <1>3, <1>4 DEF Handlers

-----------------------------------------------------------------------------
\* Who is between the V's and P's of the swap pool is there alone: the others
\* wait before they have a frame.
LEMMA AloneTaken ==
    ASSUME Inv, WaitsAtVictim, NEW a \in Asid, pc[a] \in SwampPlaces, pc[a] # "victim",
           NEW b \in Asid, pc[b] \in SwampPlaces, b # a
    PROVE  pc[b] = "victim"
<1>1. a \notin ToSet(blocked[swampMutex])
  BY DEF WaitsAtVictim
<1>2. a \in Inside(SwampPlaces) /\ b \in Inside(SwampPlaces)
  BY DEF Inside
<1>3. b \in ToSet(blocked[swampMutex])
  BY <1>1, <1>2 DEF Inv, LockInv, Mutex
<1> QED  BY <1>3 DEF WaitsAtVictim

\* For process b nothing happens that its command or its block depends on.
Same(b) ==
    /\ pc'[b] = pc[b] /\ local'[b] = local[b] /\ io'[b] = io[b]
    /\ reply'[b] = reply[b] /\ tapePos'[b] = tapePos[b] /\ buffer'[b] = buffer[b]
    /\ io[b] # "command" => busy'[DeviceOf(b)] = busy[DeviceOf(b)]
    /\ pc[b] \in TakenPlaces => swamp'[vic(b)] = swamp[vic(b)]

Right(b) == CommandRight(b) /\ CopyRight(b) /\ OutRight(b)

LEMMA SameRight == ASSUME NEW b \in Asid, Same(b), Right(b), b \in Proc PROVE Right(b)'
<1>1. DeviceOf(b)' = DeviceOf(b) /\ currentPage(b)' = currentPage(b) /\ vic(b)' = vic(b) /\ fault(b)' = fault(b)
  BY DEF Same, DeviceOf, currentPage, vic, fault
<1>2. CommandRight(b)'
  <2>1. ASSUME io'[b] # "command", busy'[DeviceOf(b)'] # NULL
        PROVE  busy'[DeviceOf(b)'] = CommandOf(b)'
    <3>1. busy'[DeviceOf(b)'] = CommandOf(b)
      BY <1>1, <2>1 DEF Right, CommandRight, Same
    <3>2. CASE pc[b] \in {"outSeek", "outWrite"}
      <4>1. pc[b] \in TakenPlaces
        BY <3>2 DEF TakenPlaces, SwampPlaces
      <4> QED  BY <1>1, <3>1, <3>2, <4>1 DEF CommandOf, Same
    <3>3. CASE pc[b] \notin {"outSeek", "outWrite"}
      BY <1>1, <3>1, <3>3 DEF CommandOf, Same
    <3> QED  BY <3>2, <3>3
  <2> QED  BY <2>1 DEF CommandRight
<1>3. CopyRight(b)'
  <2>1. Finished(b)' <=> Finished(b)
    BY <1>1 DEF Finished, Same
  <2> QED  BY <1>1, <2>1 DEF Right, CopyRight, Past, Same, Ready
<1>4. OutRight(b)'
  BY <1>1 DEF Right, OutRight, Same, TakenPlaces, SwampPlaces
<1> QED  BY <1>2, <1>3, <1>4 DEF Right

\* The others, when process a goes from place to place.
LEMMA GoesSame ==
    ASSUME Inv, NEW a \in Asid, NEW from, NEW to, Goes(a, from, to), TypeOK,
           reply' = reply \/ \E l : reply' = [reply EXCEPT ![a] = l], NEW b \in Asid \ {a}
    PROVE  Same(b)
BY Universe DEF Goes, Same, storage, paging, TypeOK

LEMMA IOSame ==
    ASSUME Inv, IOInv, NEW a \in Asid, IO(a), NEW b \in Asid \ {a} PROVE Same(b)
<1>1. b \in Proc /\ io \in [Proc -> {"command", "wait", "done"}] /\ a \in Proc /\ DOMAIN pc = Proc
      /\ DOMAIN busy = Device
  BY Universe DEF IOInv, Inv, StateType
<1>2. CASE Commands(a)
  <2>1. io[b] # "command" => DeviceOf(b) # DeviceOf(a)
    BY <1>2, OneUser DEF Commands
  <2>2. io[b] # "command" => busy'[DeviceOf(b)] = busy[DeviceOf(b)]
    <3>1. DeviceOf(b) \in Device
      BY PlaceDevice
    <3> QED  BY <1>1, <1>2, <2>1, <3>1 DEF Commands
  <2> QED  BY <1>1, <1>2, <2>2 DEF Commands, Same, storage, paging
<1>3. CASE Awaits(a) \/ GoesOn(a)
  BY <1>1, <1>3 DEF Awaits, GoesOn, Same, storage, paging
<1> QED  BY <1>2, <1>3 DEF IO
-----------------------------------------------------------------------------
\* The moving process itself.
LEMMA FreeRight ==
    ASSUME Inv, IOInv, NEW a \in Asid, Free(a) PROVE Right(a)'
<1>1. io'[a] = "command" /\ pc'[a] \in FreePlaces
  BY DEF Free, Goes, FreePlaces
<1>2. /\ pc'[a] \notin {"unborn", "professor"} /\ pc'[a] \notin CopyPlaces
      /\ pc'[a] \notin {"writeOut", "outSeek", "outWrite", "outUnlock"}
  BY <1>1 DEF FreePlaces, CopyPlaces, Loading
<1> QED  BY <1>1, <1>2 DEF Right, CommandRight, CopyRight, OutRight

\* What a process finds at a place of the loop of readAndStore().
LEMMA CopyFacts ==
    ASSUME StateType, NEW a \in Asid, CopyRight(a)
    PROVE  /\ currentPage(a) \in Nat /\ Blocks[a] \in Nat /\ 1 <= Blocks[a]
           /\ pc[a] \in CopyPlaces => currentPage(a) \in Page
<1>1. currentPage(a) \in Nat
  BY Universe DEF StateType, Locals, currentPage
<1>2. Blocks[a] \in 1 .. KUSEGPTESIZE /\ KUSEGPTESIZE \in Nat
  BY SizeAssumption
<1> QED  BY <1>1, <1>2 DEF CopyRight, Page

LEMMA WayRight ==
    ASSUME Inv, IOInv, NEW a \in Asid, Way(a), Right(a) PROVE Right(a)'
<1>1. PICK w \in Ways : Goes(a, w[1], w[2])
  BY DEF Way
<1>2. PICK from, to : /\ w = <<from, to>> /\ pc[a] = from /\ pc'[a] = to /\ io[a] = "command"
                      /\ io' = io /\ busy' = busy /\ tapePos' = tapePos /\ swamp' = swamp
  BY <1>1 DEF Ways, Goes, storage, paging
<1>3. /\ currentPage(a)' = currentPage(a) /\ vic(a)' = vic(a) /\ (Ready(a, "tape"))' = Ready(a, "tape")
  BY DEF Way, currentPage, vic, Ready
<1>4. CommandRight(a)'
  BY <1>2 DEF CommandRight
<1>5. OutRight(a)'
  BY <1>2, <1>3 DEF Ways, OutRight, Right
<1>6. CopyRight(a)'
  <2>1. CopyRight(a) /\ 1 <= Blocks[a] /\ currentPage(a) \in Nat /\ Blocks[a] \in Nat
    BY CopyFacts DEF Right, Inv
  <2>2. CASE from = "professor" /\ to = "tape"
    <3>1. currentPage(a) = 0 /\ tapePos[a] = 0
      BY <1>2, <2>1, <2>2 DEF CopyRight
    <3>2. ~Past(a, "tape", CopyPlaces \ {"tape"})'
      BY <1>2, <2>2 DEF Past, Finished
    <3> QED  BY <1>2, <1>3, <2>1, <2>2, <3>1, <3>2 DEF CopyRight
  <2>3. CASE {from, to} \subseteq CopyPlaces \ {"tape"}
    <3>1. Past(a, "tape", CopyPlaces \ {"tape"}) /\ Past(a, "tape", CopyPlaces \ {"tape"})'
      BY <1>2, <2>3 DEF Past
    <3>2. to \notin {"unborn", "professor"} /\ from \in CopyPlaces
      BY <2>3 DEF CopyPlaces
    <3> QED  BY <1>2, <1>3, <2>1, <3>1, <3>2 DEF CopyRight
  <2>4. CASE to \notin Loading
    BY <1>2, <2>4 DEF CopyRight, CopyPlaces, Loading
  <2> QED  BY <1>2, <2>2, <2>3, <2>4 DEF Ways, CopyPlaces, Loading
<1> QED  BY <1>4, <1>5, <1>6 DEF Right

LEMMA RoundRight ==
    ASSUME Inv, IOInv, NEW a \in Asid, Round(a), Right(a) PROVE Right(a)'
<1>1. PICK to \in {"tape", "start"} : Goes(a, "stored", to)
  BY DEF Round
<1>2. /\ pc[a] = "stored" /\ pc'[a] = to /\ io[a] = "command" /\ io' = io /\ tapePos' = tapePos
  BY <1>1 DEF Goes, storage
<1>3. CommandRight(a)' /\ OutRight(a)'
  BY <1>2 DEF CommandRight, OutRight
<1>4. CASE to = "tape"
  <2>1. Past(a, "tape", CopyPlaces \ {"tape"}) /\ pc[a] \in CopyPlaces
    BY <1>2 DEF Past, CopyPlaces, Loading
  <2>2. MoreToRead(a) /\ Ready(a, "tape") /\ currentPage(a)' = currentPage(a) + 1
    BY <1>2, <1>4 DEF Round, Goes
  <2>3. tapePos[a] = currentPage(a)' /\ tapePos[a] < Blocks[a]
    BY <2>1, <2>2 DEF Right, CopyRight, MoreToRead
  <2>4. ~Past(a, "tape", CopyPlaces \ {"tape"})'
    BY <1>2, <1>4 DEF Past, Finished
  <2> QED  BY <1>2, <1>3, <1>4, <2>3, <2>4 DEF Right, CopyRight
<1>5. CASE to = "start"
  BY <1>2, <1>3, <1>5 DEF Right, CopyRight, CopyPlaces
<1> QED  BY <1>4, <1>5

LEMMA IORight ==
    ASSUME Inv, IOInv, NEW a \in Asid, IO(a), Right(a) PROVE Right(a)'
<1>1. /\ io \in [Proc -> {"command", "wait", "done"}] /\ a \in Proc /\ DOMAIN pc = Proc
      /\ DOMAIN busy = Device /\ DeviceOf(a) \in Device
  BY Universe, PlaceDevice DEF IOInv, Inv, StateType
<1>2. /\ UNCHANGED <<local, reply, tapePos, swamp>>
      /\ currentPage(a)' = currentPage(a) /\ vic(a)' = vic(a) /\ fault(a)' = fault(a)
      /\ (Ready(a, "tape"))' = Ready(a, "tape")
  BY DEF IO, Commands, Awaits, GoesOn, storage, paging, currentPage, vic, fault, Ready
<1>3. CASE Commands(a) \/ Awaits(a)
  <2>1. pc' = pc /\ DeviceOf(a)' = DeviceOf(a) /\ CommandOf(a)' = CommandOf(a)
    BY <1>2, <1>3 DEF Commands, Awaits, DeviceOf, CommandOf
  <2>2. ~Finished(a) /\ ~Finished(a)' /\ CommandRight(a)'
    <3>1. CASE Commands(a)
      <4>1. io[a] = "command" /\ io'[a] = "wait" /\ busy'[DeviceOf(a)] = CommandOf(a)
        BY <1>1, <3>1 DEF Commands
      <4> QED  BY <2>1, <4>1 DEF Finished, CommandRight
    <3>2. CASE Awaits(a)
      <4>1. io[a] = "wait" /\ busy' = busy /\ busy[DeviceOf(a)] # NULL
        BY <1>1, <3>2 DEF Awaits
      <4> QED  BY <2>1, <4>1 DEF Finished, CommandRight, Right
    <3> QED  BY <1>3, <3>1, <3>2
  <2>3. CopyRight(a)'
    BY <1>2, <2>1, <2>2 DEF CopyRight, Past, Right
  <2> QED  BY <1>2, <2>1, <2>2, <2>3 DEF OutRight, Right
<1>4. CASE GoesOn(a)
  <2>1. PICK w \in IOWays : pc[a] = w[1] /\ pc' = [pc EXCEPT ![a] = w[2]]
    BY <1>4 DEF GoesOn
  <2>2. PICK from, to : w = <<from, to>> /\ pc[a] = from /\ pc'[a] = to
    BY <1>1, <2>1 DEF IOWays
  <2>3. io'[a] = "command" /\ Finished(a)
    BY <1>1, <1>4 DEF GoesOn
  <2>4. OutRight(a)'
    BY <1>2, <2>2 DEF IOWays, OutRight, Right
  <2>5. CopyRight(a)'
    <3>1. CASE from \in {"tape", "seek", "store"}
      <4>1. Past(a, "tape", CopyPlaces \ {"tape"}) /\ pc[a] \in CopyPlaces
        BY <2>2, <2>3, <3>1 DEF Past, CopyPlaces, Loading
      <4>2. Past(a, "tape", CopyPlaces \ {"tape"})' /\ to \notin {"unborn", "professor"}
        BY <2>2, <3>1 DEF IOWays, Past, CopyPlaces, Loading
      <4> QED  BY <1>2, <2>2, <4>1, <4>2 DEF CopyRight, Right
    <3>2. CASE from \notin {"tape", "seek", "store"}
      <4>1. to \notin Loading
        BY <2>2, <3>2 DEF IOWays, Loading
      <4> QED  BY <2>2, <4>1 DEF CopyRight, CopyPlaces, Loading
    <3> QED  BY <3>1, <3>2
  <2> QED  BY <2>3, <2>4, <2>5 DEF Right, CommandRight
<1> QED  BY <1>3, <1>4 DEF IO
-----------------------------------------------------------------------------
\* The steps that change the swap pool, a page table or a frame.
LEMMA TakeFrameRight ==
    ASSUME Inv, IOInv, MemoryType, NEW a \in Asid, TakeFrame(a)
    PROVE  Right(a)' /\ (\A b \in Asid \ {a} : Same(b)) /\ MemoryType'
<1>1. /\ pc[a] = "victim" /\ a \in Proc /\ DOMAIN pc = Proc /\ local \in [Proc -> Locals]
      /\ UNCHANGED <<io, busy, reply, swamp, ram, disk, arm, buffer, tapePos>>
  BY Universe DEF TakeFrame, At, Inv, StateType, devices, storage
<1>2. io[a] = "command"
  BY <1>1 DEF IOInv, IOPlaces
<1>3. PICK to \in {"mask", "writeOut"} :
        /\ pc' = [pc EXCEPT ![a] = to]
        /\ to = "writeOut" => swamp[pickAVictim] # NULL
        /\ tlb' = tlb \/ tlb' = Cleared(pte')
  BY DEF TakeFrame, Goto, Invalidate
<1>4. local' = [local EXCEPT ![a].vic = pickAVictim]
  BY DEF TakeFrame
<1>5. vic(a)' = pickAVictim /\ \A b \in Proc \ {a} : local'[b] = local[b]
  BY <1>1, <1>4 DEF vic, Locals
<1>6. pc'[a] = to /\ \A b \in Proc \ {a} : pc'[b] = pc[b]
  BY <1>1, <1>3
<1>7. Right(a)'
  <2>1. pc'[a] \notin CopyPlaces /\ pc'[a] \notin {"unborn", "professor"}
    BY <1>6 DEF CopyPlaces, Loading
  <2> QED  BY <1>1, <1>2, <1>3, <1>5, <1>6, <2>1 DEF Right, CommandRight, CopyRight, OutRight
<1>8. \A b \in Asid \ {a} : Same(b)
  BY <1>1, <1>5, <1>6, Universe DEF Same
<1>9. MemoryType'
  BY <1>1, <1>3 DEF MemoryType, Cleared
<1> QED  BY <1>7, <1>8, <1>9

LEMMA MapPageRight ==
    ASSUME Inv, IOInv, WaitsAtVictim, MemoryType, NEW a \in Asid, MapPage(a)
    PROVE  Right(a)' /\ (\A b \in Asid \ {a} : Same(b)) /\ MemoryType'
<1>1. /\ pc[a] = "update" /\ a \in Proc /\ DOMAIN pc = Proc /\ DOMAIN swamp = Frame
      /\ UNCHANGED <<io, busy, reply, local, ram, disk, arm, buffer, tapePos>>
      /\ \A b \in Proc : local[b].vic \in Frame
  BY Universe DEF MapPage, At, Inv, StateType, Locals, devices, storage
<1>2. io[a] = "command"
  BY <1>1 DEF IOInv, IOPlaces
<1>3. pc'[a] = "swampUnlock" /\ \A b \in Proc \ {a} : pc'[b] = pc[b]
  BY <1>1 DEF MapPage, Goto
<1>4. Right(a)'
  <2>1. pc'[a] \notin CopyPlaces /\ pc'[a] \notin {"unborn", "professor"}
    BY <1>3 DEF CopyPlaces, Loading
  <2> QED  BY <1>1, <1>2, <1>3, <2>1 DEF Right, CommandRight, CopyRight, OutRight
<1>5. ASSUME NEW b \in Asid \ {a} PROVE Same(b)
  <2>1. pc[b] \notin TakenPlaces
    BY <1>1, AloneTaken DEF TakenPlaces, SwampPlaces
  <2> QED  BY <1>1, <1>3, <2>1, Universe DEF Same
<1>6. tlb' = Cleared(pte')
  BY DEF MapPage, Validate
<1>7. MemoryType'
  BY <1>1, <1>6 DEF MemoryType, Cleared
<1> QED  BY <1>4, <1>5, <1>7

LEMMA StoreRight ==
    ASSUME Inv, IOInv, MemoryType, NEW a \in Asid, NEW p \in Page, Store(a, p)
    PROVE  (\A b \in Asid : Same(b)) /\ MemoryType'
<1>1. UNCHANGED <<pc, io, busy, reply, local, tlb, swamp, disk, arm, buffer, tapePos>>
  BY DEF Store, devices, paging
<1>2. PICK f \in Frame :
        /\ ram[f].version < MaxVersion
        /\ ram' = [ram EXCEPT ![f] = Content(a, p, ram[f].version + 1)]
  BY DEF Store, MemoryType
<1>3. Content(a, p, ram[f].version + 1) \in Contents
  <2>1. ram[f].version \in 0 .. MaxVersion /\ MaxVersion \in Nat
    BY SizeAssumption DEF MemoryType, Contents
  <2>2. ram[f].version + 1 \in 0 .. MaxVersion
    BY <1>2, <2>1
  <2> QED  BY <2>2 DEF Content, Contents
<1>4. MemoryType'
  BY <1>1, <1>2, <1>3 DEF MemoryType
<1> QED  BY <1>1, <1>4 DEF Same

LEMMA ProcessRight ==
    ASSUME Inv, IOInv, WaitsAtVictim, TypeOK, \A b \in Asid : Right(b), NEW a \in Asid,
           Professor(a) \/ Program(a) \/ Handlers(a)
    PROVE  (\A b \in Asid : Right(b)') /\ MemoryType'
<1>1. MemoryType /\ Asid \subseteq Proc
  BY TypeParts, Universe
<1>2. CASE Free(a) \/ Way(a) \/ Round(a) \/ IO(a)
  <2>1. Right(a)'
    BY <1>2, FreeRight, WayRight, RoundRight, IORight
  <2>2. ASSUME NEW b \in Asid \ {a} PROVE Same(b)
    BY <1>2, GoesSame, IOSame DEF Free, Way, Round
  <2>3. MemoryType'
    <3>1. UNCHANGED <<storage, paging>>
      BY <1>2 DEF Free, Way, Round, Goes, IO, Commands, Awaits, GoesOn
    <3>2. reply' = reply \/ reply' = [reply EXCEPT ![a] = [line \in DOMAIN @ |-> TRUE]]
      BY <1>2 DEF Free, Way, Round, IO, Commands, Awaits, GoesOn
    <3>3. reply' \in [Asid -> [{"disk", "tape", "printer", "terminal"} -> BOOLEAN]]
      BY <1>1, <3>2 DEF MemoryType
    <3> QED  BY <1>1, <3>1, <3>3 DEF MemoryType, storage, paging
  <2> QED  BY <1>1, <2>1, <2>2, <2>3, SameRight
<1>3. CASE TakeFrame(a) \/ MapPage(a)
  BY <1>1, <1>3, TakeFrameRight, MapPageRight, SameRight
<1>4. CASE \E p \in Page : Store(a, p)
  BY <1>1, <1>4, StoreRight, SameRight
<1> QED  BY <1>2, <1>3, <1>4, ProcessIs
-----------------------------------------------------------------------------
\* The command of process a ends, well if ok, and it is woken with the status.
Ends(a, ok) ==
    /\ io[a] = "done" /\ pc[a] \in IOPlaces /\ busy[DeviceOf(a)] # NULL
    /\ DeviceOf(a) \in Device /\ a \notin ToSet(blocked[diskMutex])
    /\ ok \/ CommandOf(a).op \in DeviceErrors
    /\ busy' = [busy EXCEPT ![DeviceOf(a)] = NULL]
    /\ reply' = [reply EXCEPT ![a][DeviceOf(a)[1]] = ok]
    /\ IF ok THEN Carry(CommandOf(a)) ELSE UNCHANGED storage
    /\ UNCHANGED <<pc, io, local, paging>>

LEMMA InterruptEnds ==
    ASSUME Inv, IOInv, \A a \in Asid : CommandRight(a), NEW d \in Device, DeviceInterrupt(d)
    PROVE  \E a \in Asid, ok \in BOOLEAN : Ends(a, ok)
<1>1. /\ kernel = "up" /\ masked = NULL /\ busy[d] # NULL
      /\ UNCHANGED <<pc, io, local, paging>> /\ busy' = [busy EXCEPT ![d] = NULL]
  BY DEF DeviceInterrupt
<1>2. PICK a \in Asid : Serves(d, a)
  BY <1>1 DEF IOInv
<1>3. io[a] # "wait" /\ a \in Proc
  BY <1>1, SizeAssumption, Universe DEF IOInv
<1>4. blocked[d] = <<a>> /\ DeviceOf(a) = d /\ io[a] = "done"
  BY <1>2, <1>3 DEF Serves
<1>5. pc[a] \in IOPlaces /\ a \notin ToSet(blocked[diskMutex])
  BY <1>3, <1>4 DEF IOInv
<1>6. busy[d] = CommandOf(a)
  BY <1>1, <1>4 DEF CommandRight
<1>7. Head(<<a>>) = a /\ <<a>> # <<>>
  OBVIOUS
<1>8. PICK ok \in BOOLEAN :
        /\ ok \/ CommandOf(a).op \in DeviceErrors
        /\ IF ok THEN Carry(CommandOf(a)) ELSE UNCHANGED storage
        /\ reply' = [reply EXCEPT ![a][d[1]] = ok]
  BY <1>4, <1>6, <1>7 DEF DeviceInterrupt
<1>9. Ends(a, ok)
  BY <1>1, <1>4, <1>5, <1>8 DEF Ends
<1> QED  BY <1>9

\* What the command has done to the storage, when it ended well, by the place it
\* was given at.
Carried(a) ==
    \/ /\ pc[a] = "tape"
       /\ tapePos' = [tapePos EXCEPT ![a] = @ + 1]
       /\ buffer' = [buffer EXCEPT ![a] = Content(a, tapePos[a], 1)]
       /\ UNCHANGED <<ram, disk, arm>>
    \/ /\ pc[a] = "seek" /\ arm' = currentPage(a)
       /\ UNCHANGED <<ram, disk, buffer, tapePos>>
    \/ /\ pc[a] = "outSeek" /\ arm' = swamp[vic(a)].page
       /\ UNCHANGED <<ram, disk, buffer, tapePos>>
    \/ /\ pc[a] = "inSeek" /\ arm' = fault(a).page
       /\ UNCHANGED <<ram, disk, buffer, tapePos>>
    \/ /\ pc[a] = "store" /\ disk' = [disk EXCEPT ![arm][a] = buffer[a]]
       /\ UNCHANGED <<ram, arm, buffer, tapePos>>
    \/ /\ pc[a] = "outWrite" /\ disk' = [disk EXCEPT ![arm][swamp[vic(a)].asid] = ram[vic(a)]]
       /\ UNCHANGED <<ram, arm, buffer, tapePos>>
    \/ /\ pc[a] = "inRead" /\ ram' = [ram EXCEPT ![vic(a)] = disk[arm][a]]
       /\ UNCHANGED <<disk, arm, buffer, tapePos>>
    \/ pc[a] \in {"printChar", "typeChar"} /\ UNCHANGED storage

LEMMA CarryIs ==
    ASSUME NEW a, pc[a] \in IOPlaces, Carry(CommandOf(a)) PROVE Carried(a)
<1>1. CASE pc[a] = "tape"
  <2>1. CommandOf(a).op = "readTape" /\ CommandOf(a).asid = a
    BY <1>1 DEF CommandOf
  <2> QED  BY <1>1, <2>1 DEF Carry, Carried
<1>2. CASE pc[a] \in {"seek", "outSeek", "inSeek"}
  <2>1. /\ CommandOf(a).op = "seek"
        /\ pc[a] = "seek" => CommandOf(a).cylinder = currentPage(a)
        /\ pc[a] = "outSeek" => CommandOf(a).cylinder = swamp[vic(a)].page
        /\ pc[a] = "inSeek" => CommandOf(a).cylinder = fault(a).page
    BY <1>2 DEF CommandOf, Seek
  <2>2. arm' = CommandOf(a).cylinder /\ UNCHANGED <<ram, disk, buffer, tapePos>>
    BY <2>1 DEF Carry
  <2> QED  BY <1>2, <2>1, <2>2 DEF Carried
<1>3. CASE pc[a] = "store"
  <2>1. CommandOf(a).op = "writeBuffer" /\ CommandOf(a).asid = a
    BY <1>3 DEF CommandOf, WriteBuffer
  <2> QED  BY <1>3, <2>1 DEF Carry, Carried
<1>4. CASE pc[a] = "outWrite"
  <2>1. /\ CommandOf(a).op = "write" /\ CommandOf(a).asid = swamp[vic(a)].asid
        /\ CommandOf(a).frame = vic(a)
    BY <1>4 DEF CommandOf, WriteBlk
  <2> QED  BY <1>4, <2>1 DEF Carry, Carried
<1>5. CASE pc[a] = "inRead"
  <2>1. CommandOf(a).op = "read" /\ CommandOf(a).asid = a /\ CommandOf(a).frame = vic(a)
    BY <1>5 DEF CommandOf, ReadBlk
  <2> QED  BY <1>5, <2>1 DEF Carry, Carried
<1>6. CASE pc[a] \in {"printChar", "typeChar"}
  <2>1. CommandOf(a).op = "char"
    BY <1>6 DEF CommandOf
  <2> QED  BY <1>6, <2>1 DEF Carry, Carried
<1> QED  BY <1>1, <1>2, <1>3, <1>4, <1>5, <1>6 DEF IOPlaces

LEMMA EndsIs ==
    ASSUME NEW a, NEW ok \in BOOLEAN, Ends(a, ok)
    PROVE  IF ok THEN Carried(a) ELSE UNCHANGED storage
BY CarryIs DEF Ends
\* The line of the device a process has to do with.
LEMMA LineOf ==
    ASSUME NEW a, pc[a] \in IOPlaces
    PROVE  /\ DeviceOf(a)[1] \in {"disk", "tape", "printer", "terminal"}
           /\ DeviceOf(a)[1] = "tape" <=> pc[a] = "tape"
           /\ pc[a] \in {"seek", "store", "outSeek", "outWrite", "inSeek", "inRead"} =>
                 DeviceOf(a)[1] = "disk"
BY DEF IOPlaces, DeviceOf, Tape, Printer, Terminal, Disk0

LEMMA EndsFacts ==
    ASSUME Inv, IOInv, MemoryType, NEW a \in Asid, NEW ok \in BOOLEAN, Ends(a, ok)
    PROVE  /\ UNCHANGED <<pc, io, local, swamp, pte, tlb>>
           /\ busy'[DeviceOf(a)] = NULL
           /\ \A d \in Device \ {DeviceOf(a)} : busy'[d] = busy[d]
           /\ reply' \in [Asid -> [{"disk", "tape", "printer", "terminal"} -> BOOLEAN]]
           /\ reply'[a][DeviceOf(a)[1]] = ok
           /\ pc[a] # "tape" => reply'[a]["tape"] = reply[a]["tape"]
           /\ \A b \in Asid \ {a} : reply'[b] = reply[b]
<1>1. DOMAIN busy = Device /\ DeviceOf(a) \in Device
  BY PlaceDevice DEF IOInv
<1>2. reply \in [Asid -> [{"disk", "tape", "printer", "terminal"} -> BOOLEAN]]
  BY DEF MemoryType
<1> DEFINE line == DeviceOf(a)[1]
<1>3. line \in {"disk", "tape", "printer", "terminal"} /\ (pc[a] # "tape" => line # "tape")
  BY LineOf DEF Ends
<1>4. reply' = [reply EXCEPT ![a][line] = ok] /\ busy' = [busy EXCEPT ![DeviceOf(a)] = NULL]
      /\ UNCHANGED <<pc, io, local, swamp, pte, tlb>>
  BY DEF Ends, paging
<1> HIDE DEF line
<1>5. reply' \in [Asid -> [{"disk", "tape", "printer", "terminal"} -> BOOLEAN]]
      /\ reply'[a][line] = ok /\ (pc[a] # "tape" => reply'[a]["tape"] = reply[a]["tape"])
      /\ \A b \in Asid \ {a} : reply'[b] = reply[b]
  BY <1>2, <1>3, <1>4
<1> QED  BY <1>1, <1>4, <1>5 DEF line

LEMMA EndsOthers ==
    ASSUME Inv, IOInv, MemoryType, NEW a \in Asid, NEW ok \in BOOLEAN, Ends(a, ok),
           NEW b \in Asid \ {a}
    PROVE  Same(b)
<1>1. io[b] # "command" => DeviceOf(b) # DeviceOf(a)
  BY OneUser DEF Ends
<1>2. io[b] # "command" => busy'[DeviceOf(b)] = busy[DeviceOf(b)]
  BY <1>1, EndsFacts, PlaceDevice
<1>3. tapePos'[b] = tapePos[b] /\ buffer'[b] = buffer[b]
  <2>1. tapePos \in [Asid -> Nat] /\ DOMAIN buffer = Asid
    BY DEF MemoryType
  <2> QED  BY <2>1, EndsIs DEF Carried, storage
<1> QED  BY <1>2, <1>3, EndsFacts DEF Same

LEMMA EndsRight ==
    ASSUME Inv, IOInv, MemoryType, NEW a \in Asid, NEW ok \in BOOLEAN, Ends(a, ok), Right(a)
    PROVE  Right(a)'
<1>1. /\ UNCHANGED <<pc, io, local, swamp>> /\ DeviceOf(a)' = DeviceOf(a) /\ io[a] = "done"
      /\ busy[DeviceOf(a)] # NULL /\ busy'[DeviceOf(a)] = NULL /\ pc[a] \in IOPlaces
      /\ currentPage(a)' = currentPage(a) /\ vic(a)' = vic(a)
  BY EndsFacts DEF Ends, DeviceOf, currentPage, vic
<1>2. CommandRight(a)' /\ OutRight(a)' /\ ~Finished(a) /\ Finished(a)'
  BY <1>1 DEF Right, CommandRight, OutRight, Finished
<1>3. CopyRight(a)'
  <2>1. pc[a] \notin {"unborn", "professor"}
    BY <1>1 DEF IOPlaces
  <2>2. CASE pc[a] = "tape"
    <3>1. pc[a] \in CopyPlaces /\ tapePos[a] = currentPage(a) /\ currentPage(a) < Blocks[a]
      BY <1>2, <2>2 DEF Right, CopyRight, CopyPlaces, Loading, Past
    <3>2. (Ready(a, "tape"))' = ok
      BY <2>2, LineOf, EndsFacts, <1>1 DEF Ready
    <3>3. tapePos'[a] = IF ok THEN tapePos[a] + 1 ELSE tapePos[a]
      BY <2>2, EndsIs DEF Carried, MemoryType, storage
    <3>4. Past(a, "tape", CopyPlaces \ {"tape"})'
      BY <1>1, <1>2, <2>2 DEF Past
    <3> QED  BY <1>1, <2>1, <3>1, <3>2, <3>3, <3>4 DEF CopyRight
  <2>3. CASE pc[a] # "tape"
    <3>1. tapePos' = tapePos
      BY <2>3, EndsIs DEF Carried, storage
    <3>2. (Ready(a, "tape"))' = Ready(a, "tape")
      BY <2>3, EndsFacts DEF Ready
    <3>3. Past(a, "tape", CopyPlaces \ {"tape"})' = Past(a, "tape", CopyPlaces \ {"tape"})
      BY <1>1, <2>3 DEF Past
    <3> QED  BY <1>1, <2>1, <3>1, <3>2, <3>3 DEF Right, CopyRight
  <2> QED  BY <2>2, <2>3
<1> QED  BY <1>2, <1>3 DEF Right

\* The arm goes to a page, and what is written anywhere is a content.
LEMMA EndsTyped ==
    ASSUME Inv, IOInv, MemoryType, NEW a \in Asid, NEW ok \in BOOLEAN, Ends(a, ok), Right(a)
    PROVE  MemoryType'
<1>1. /\ vic(a) \in Frame /\ fault(a).page \in Page /\ a \in Proc
      /\ swamp[vic(a)] \in [asid : Asid, page : Page] \cup {NULL}
  <2>1. a \in Proc /\ local[a] \in Locals /\ swamp \in [Frame -> [asid : Asid, page : Page] \cup {NULL}]
    BY Universe DEF Inv, StateType
  <2>2. local[a].vic \in Frame /\ local[a].fault.page \in Page
    BY <2>1 DEF Locals
  <2> QED  BY <2>1, <2>2 DEF vic, fault
<1>2. pc[a] \in {"tape", "seek"} => currentPage(a) \in Page
  BY CopyFacts DEF Inv, Right, CopyPlaces, Loading
<1>3. pc[a] \in {"outSeek", "outWrite"} => swamp[vic(a)] \in [asid : Asid, page : Page]
  BY <1>1 DEF Right, OutRight
<1>4. /\ ram \in [Frame -> Contents] /\ disk \in [Page -> [Asid -> Contents]] /\ arm \in Page
      /\ buffer \in [Asid -> Contents] /\ tapePos \in [Asid -> Nat]
  BY DEF MemoryType
<1>5. /\ ram' \in [Frame -> Contents] /\ disk' \in [Page -> [Asid -> Contents]] /\ arm' \in Page
      /\ buffer' \in [Asid -> Contents] /\ tapePos' \in [Asid -> Nat]
  <2>1. CASE ok = FALSE \/ pc[a] \in {"printChar", "typeChar"}
    BY <1>4, <2>1, EndsIs DEF Carried, storage
  <2>2. CASE ok /\ pc[a] = "tape"
    <3>1. currentPage(a) \in Page /\ ~Finished(a) /\ pc[a] \in CopyPlaces
      BY <1>2, <2>2 DEF Ends, Finished, CopyPlaces, Loading
    <3>2. tapePos[a] = currentPage(a)
      BY <2>2, <3>1 DEF Right, CopyRight, Past
    <3>3. Content(a, tapePos[a], 1) \in Contents
      BY <3>1, <3>2, SizeAssumption DEF Content, Contents
    <3>4. /\ tapePos' = [tapePos EXCEPT ![a] = tapePos[a] + 1] /\ UNCHANGED <<ram, disk, arm>>
          /\ buffer' = [buffer EXCEPT ![a] = Content(a, tapePos[a], 1)]
      BY <2>2, EndsIs, <1>4 DEF Carried
    <3> QED  BY <1>4, <3>3, <3>4
  <2>3. CASE ok /\ pc[a] \in {"seek", "outSeek", "inSeek"}
    <3>1. UNCHANGED <<ram, disk, buffer, tapePos>>
      BY <2>3, EndsIs DEF Carried
    <3>2. arm' \in Page
      BY <1>1, <1>2, <1>3, <2>3, EndsIs DEF Carried
    <3> QED  BY <1>4, <3>1, <3>2
  <2>4. CASE ok /\ pc[a] = "store"
    <3>1. UNCHANGED <<ram, arm, buffer, tapePos>> /\ disk' = [disk EXCEPT ![arm][a] = buffer[a]]
      BY <2>4, EndsIs DEF Carried
    <3> QED  BY <1>4, <3>1
  <2>5. CASE ok /\ pc[a] = "outWrite"
    <3>1. /\ UNCHANGED <<ram, arm, buffer, tapePos>>
          /\ disk' = [disk EXCEPT ![arm][swamp[vic(a)].asid] = ram[vic(a)]]
      BY <2>5, EndsIs DEF Carried
    <3> QED  BY <1>1, <1>3, <1>4, <2>5, <3>1
  <2>6. CASE ok /\ pc[a] = "inRead"
    <3>1. UNCHANGED <<disk, arm, buffer, tapePos>> /\ ram' = [ram EXCEPT ![vic(a)] = disk[arm][a]]
      BY <2>6, EndsIs DEF Carried
    <3> QED  BY <1>1, <1>4, <3>1
  <2> QED  BY <2>1, <2>2, <2>3, <2>4, <2>5, <2>6 DEF Ends, IOPlaces
<1> QED  BY <1>5, EndsFacts DEF MemoryType
-----------------------------------------------------------------------------
\* test(): the child that is born finds its tape unread.
LEMMA CreateRight ==
    ASSUME Inv, IOInv, \A b \in Asid : Right(b), CreateChild PROVE \A b \in Asid : Right(b)'
<1>1. /\ StateType /\ Births /\ pc[Test] = "create" /\ Test = 0 /\ Asid = 1 .. MAXUPROC
      /\ Test \in Proc /\ Asid \subseteq Proc /\ Test \notin Asid /\ MAXUPROC \in Nat
      /\ UNCHANGED <<io, busy, reply, storage, swamp>>
  BY Universe, SizeAssumption
  DEF Inv, LockInv, CreateChild, At, Test, Asid, paging, devices, NoIO
<1>2. Counted \in Nat /\ Counted < MAXUPROC
  BY <1>1 DEF StateType, Locals, Births, Counted
<1>3. PICK c \in Asid : c = Counted + 1 /\ pc[c] = "unborn"
  BY <1>1, <1>2 DEF Births
<1>4. PICK next : pc' = [pc EXCEPT ![c] = "professor", ![Test] = next]
  BY <1>3 DEF CreateChild
<1>5. local' = [local EXCEPT ![Test].count = IF c < MAXUPROC THEN c ELSE 0]
  BY <1>3 DEF CreateChild, Count
<1>6. \A b \in Asid : local'[b] = local[b]
  BY <1>1, <1>5 DEF StateType
<1>7. pc'[c] = "professor" /\ \A b \in Asid \ {c} : pc'[b] = pc[b]
  BY <1>1, <1>3, <1>4 DEF StateType
<1>8. ASSUME NEW b \in Asid \ {c} PROVE Right(b)'
  <2>1. Same(b)
    BY <1>1, <1>6, <1>7 DEF Same, storage
  <2> QED  BY <1>1, <2>1, SameRight
<1>9. Right(c)'
  <2>1. io[c] = "command"
    BY <1>1, <1>3 DEF IOInv, IOPlaces
  <2>2. currentPage(c)' = 0 /\ tapePos'[c] = 0
    BY <1>1, <1>3, <1>6 DEF Right, CopyRight, currentPage, storage
  <2>3. pc'[c] \notin CopyPlaces
    BY <1>7 DEF CopyPlaces
  <2> QED  BY <1>1, <1>7, <2>1, <2>2, <2>3 DEF Right, CommandRight, CopyRight, OutRight
<1> QED  BY <1>8, <1>9

LEMMA TestRight ==
    ASSUME Inv, IOInv, \A b \in Asid : Right(b), Test_ PROVE \A b \in Asid : Right(b)'
<1>1. CASE AwaitChild \/ EndTest
  <2>1. /\ UNCHANGED <<io, busy, reply, storage, paging>> /\ Test \in Proc \ Asid /\ Asid \subseteq Proc
        /\ \A b \in Asid : pc'[b] = pc[b]
    BY <1>1, Universe DEF AwaitChild, EndTest, Dies, Goto, devices, Inv, StateType, NoIO
  <2>2. \A b \in Asid : local'[b] = local[b]
    BY <1>1, <2>1 DEF AwaitChild, EndTest, Dies, Count, Inv, StateType
  <2>3. \A b \in Asid : Same(b)
    BY <2>1, <2>2 DEF Same, storage, paging
  <2> QED  BY <2>1, <2>3, SameRight
<1> QED  BY <1>1, CreateRight DEF Test_

LEMMA TestTyped == ASSUME MachineType, MemoryType, Test_ PROVE MachineType' /\ MemoryType'
<1>1. MemoryType'
  BY DEF MemoryType, Test_, CreateChild, AwaitChild, EndTest, Dies, storage, paging, devices, NoIO
<1>2. CASE CreateChild \/ AwaitChild
  <2>1. MachineStep(Test)
    BY <1>2, ResumesStep, CallStep DEF CreateChild, AwaitChild, NoIO
  <2> QED  BY <1>1, <2>1, MachineStepKeeps, Universe
<1>3. CASE EndTest
  BY <1>1, <1>3 DEF EndTest, Dies, MachineType
<1> QED  BY <1>2, <1>3 DEF Test_

-----------------------------------------------------------------------------
LEMMA TypeInvIs ==
    ASSUME Inv, IOInv PROVE TypeInv <=> MachineType /\ MemoryType /\ \A a \in Asid : Right(a)
<1>1. TypeOK <=> MachineType /\ MemoryType
  BY TypeParts
<1> QED  BY <1>1 DEF TypeInv, Right

LEMMA TypeInvInit == ASSUME Init PROVE TypeInv
<1>1. Inv /\ IOInv
  BY InitKeeps, IOInvInit
<1>2. MachineType
  BY DEF Init, MachineType, Statuses
<1>3. MemoryType
  <2>1. Blank \in Contents
    BY SizeAssumption, Universe DEF Blank, Content, Contents
  <2>2. 0 \in Page
    BY Universe
  <2> QED  BY <2>1, <2>2 DEF Init, MemoryType
<1>4. ASSUME NEW a \in Asid PROVE Right(a)
  <2>1. /\ pc[a] = "unborn" /\ io[a] = "command" /\ local[a] = Unused /\ tapePos[a] = 0
        /\ a # Test /\ a \in Proc
    BY Universe DEF Init
  <2>2. pc[a] \notin CopyPlaces /\ currentPage(a) = 0
    BY <2>1 DEF CopyPlaces, currentPage, Unused
  <2> QED  BY <2>1, <2>2 DEF Right, CommandRight, CopyRight, OutRight
<1> QED  BY <1>1, <1>2, <1>3, <1>4, TypeInvIs

LEMMA TypeInvStep ==
    ASSUME Inv, IOInv, WaitsAtVictim, TypeInv, Inv', IOInv', [Next]_vars PROVE TypeInv'
<1>1. MachineType /\ MemoryType /\ (\A a \in Asid : Right(a)) /\ TypeOK
  BY TypeInvIs DEF TypeInv
<1> SUFFICES MachineType' /\ MemoryType' /\ \A a \in Asid : Right(a)'
  BY TypeParts DEF TypeInv, Right, TypeOK, MachineType, MemoryType, Inv, IOInv, StateType, Locals, Faults
<1>2. CASE Deadlock \/ Stop \/ Tick \/ UNCHANGED vars
  <2>1. /\ UNCHANGED <<masked, currentStatus, pc, io, status, local, paging, storage, devices>>
        /\ kernel' \in {kernel, "deadlock"}
    BY <1>2 DEF Deadlock, Stop, Tick, vars, machine
  <2>2. \A a \in Asid : Same(a)
    BY <2>1 DEF Same, storage, paging, devices
  <2> QED
    BY <1>1, <2>1, <2>2, SameRight, Universe DEF MachineType, MemoryType, storage, paging, devices
<1>3. CASE Test_
  BY <1>1, <1>3, TestRight, TestTyped
<1>4. ASSUME NEW a \in Asid, Professor(a) \/ Program(a) \/ Handlers(a)
      PROVE  MachineType' /\ MemoryType' /\ \A b \in Asid : Right(b)'
  BY <1>1, <1>4, ProcessRight, ProcessStep, MachineStepKeeps, Universe
<1>5. ASSUME NEW d \in Device, DeviceInterrupt(d)
      PROVE  MachineType' /\ MemoryType' /\ \A b \in Asid : Right(b)'
  <2>1. PICK a \in Asid, ok \in BOOLEAN : Ends(a, ok)
    BY <1>1, <1>5, InterruptEnds DEF Right
  <2>2. MemoryType' /\ \A b \in Asid : Right(b)'
    BY <1>1, <2>1, EndsTyped, EndsRight, EndsOthers, SameRight, Universe
  <2>3. MachineType'
    BY <1>1, <1>5 DEF DeviceInterrupt, MachineType
  <2> QED  BY <2>2, <2>3
<1> QED  BY <1>2, <1>3, <1>4, <1>5 DEF Next

LEMMA WaitInvHolds == Spec => []WaitInv
<1>1. Init => WaitInv
  BY WaitInvInit
<1>2. Inv /\ WaitInv /\ [Next]_vars => WaitInv'
  BY WaitInvStep
<1> QED  BY <1>1, <1>2, InvHolds, PTL DEF Spec

LEMMA TypeInvHolds == ASSUME PrintsAlone, NullIsNoCommand PROVE Spec => []TypeInv
<1>1. Init => TypeInv
  BY TypeInvInit
<1>2. Inv /\ IOInv /\ WaitInv /\ Inv' /\ IOInv' /\ TypeInv /\ [Next]_vars => TypeInv'
  BY TypeInvStep DEF WaitInv
<1> QED  BY <1>1, <1>2, InvHolds, IOInvHolds, WaitInvHolds, PTL DEF Spec

\* The variables of the support level have their types: the arm of the disk is
\* never sent past the last page, no tape is read past its end, and no page that
\* does not exist is written out.
THEOREM SupportTypes == ASSUME PrintsAlone, NullIsNoCommand PROVE Spec => []TypeOK
<1>1. TypeInv => TypeOK
  BY DEF TypeInv
<1> QED  BY <1>1, TypeInvHolds, PTL
-----------------------------------------------------------------------------
\* A fault is on a page of the segments the programs use.
LEMMA FaultOf ==
    ASSUME Inv, NEW a \in Asid,
           \/ UNCHANGED local \/ local' = [local EXCEPT ![a] = Unused]
           \/ \E n : Count(a, n)
           \/ \E c, n : Set(a, c, n)
           \/ \E v : local' = [local EXCEPT ![a].vic = v]
           \/ \E s \in Segment : \E p, c :
                local' = [local EXCEPT ![a].fault = [seg |-> s, page |-> p, cause |-> c]]
    PROVE  fault(a)'.seg \in {fault(a).seg, 2} \cup Segment
<1>1. local \in [Proc -> Locals] /\ a \in Proc
  BY Universe DEF Inv, StateType
<1>2. CASE local' = [local EXCEPT ![a] = Unused]
  BY <1>1, <1>2 DEF fault, Unused, NoFault
<1>3. CASE \E n : Count(a, n)
  BY <1>1, <1>3 DEF fault, Count, Locals
<1>4. CASE \E c, n : Set(a, c, n)
  BY <1>1, <1>4 DEF fault, Set
<1>5. CASE \E v : local' = [local EXCEPT ![a].vic = v]
  BY <1>1, <1>5 DEF fault, Locals
<1>6. CASE \E s \in Segment : \E p, c :
              local' = [local EXCEPT ![a].fault = [seg |-> s, page |-> p, cause |-> c]]
  BY <1>1, <1>6 DEF fault, Locals
<1> QED  BY <1>1, <1>2, <1>3, <1>4, <1>5, <1>6 DEF fault

LEMMA FaultSteps ==
    ASSUME Inv, NEW a \in Asid, Professor(a) \/ Program(a) \/ Handlers(a)
    PROVE  fault(a)'.seg \in {fault(a).seg, 2} \cup Segment
<1> USE FaultOf DEF DoIO, LockDisk, UnlockDisk
<1>1. CASE Professor(a)
  <2>1. UNCHANGED local \/ \E n : Count(a, n)
    BY <1>1 DEF Professor, SetVectors, StartProgram, ReadAndStore, ReadTape, StoreBlock, NextBlock
  <2> QED  BY <2>1
<1>2. CASE Program(a)
  <2>1. CASE PageFault(a)
    <3>1. PICK s \in Segment, p \in Page, c \in {2} \cup (IF ProgramErrors THEN {14} ELSE {}) :
            local' = [local EXCEPT ![a].fault = [seg |-> s, page |-> p, cause |-> c]]
      BY <2>1 DEF PageFault
    <3> QED  BY <3>1
  <2>2. CASE ~PageFault(a)
    <3>1. UNCHANGED local \/ \E c, n : Set(a, c, n)
      BY <1>2, <2>2 DEF Program, Store, Call, ProgramTrap
    <3> QED  BY <3>1
  <2> QED  BY <2>1, <2>2
<1>3. CASE TLBHandler(a)
  <2>1. \/ UNCHANGED local \/ local' = [local EXCEPT ![a] = Unused]
        \/ \E v : local' = [local EXCEPT ![a].vic = v]
    BY <1>3 DEF TLBHandler, EnterSwamp, TakeFrame, WriteOut, MaskUpdate, ReadOut, Panic, MapPage,
       LeaveSwamp, ResumeProgram
  <2> QED  BY <2>1
<1>4. CASE SyscallHandler(a)
  <2>1. \/ UNCHANGED local \/ local' = [local EXCEPT ![a] = Unused]
        \/ \E c, n : Set(a, c, n)
    BY <1>4 DEF SyscallHandler, Sys18, Terminate, Dies, PrintString, TypeString, NextChar, CharSent, Delay,
       Return
  <2> QED  BY <2>1
<1> QED  BY <1>1, <1>2, <1>3, <1>4 DEF Handlers

\* The end of a fault is reached with the page mapped, and by nobody else.
LEMMA ServedStep ==
    ASSUME Inv, IOInv, TypeOK, ServedInv, MAXUPROC = 1, Segment = {2}, [Next]_vars
    PROVE  ServedInv'
<1>1. Asid = {1} /\ Asid \subseteq Proc /\ Test \notin Asid
  BY Universe DEF Asid
<1>2. ASSUME \A a \in Asid : local'[a] = local[a], pte' = pte,
             \A a \in Asid : pc'[a] \in {"swampUnlock", "LDST"} => pc[a] \in {"swampUnlock", "LDST"}
      PROVE  ServedInv'
  BY <1>2 DEF ServedInv, fault
<1>3. ASSUME NEW a \in Asid, Professor(a) \/ Program(a) \/ Handlers(a) PROVE ServedInv'
  <2>1. fault(a)'.seg = 2
    <3>1. fault(a)'.seg \in {fault(a).seg, 2} \cup Segment
      BY <1>3, FaultSteps
    <3>2. fault(a).seg = 2
      BY DEF ServedInv
    <3> QED  BY <3>1, <3>2
  <2>2. pc'[a] \in {"swampUnlock", "LDST"} => pte'[a][fault(a)'.page] # NULL
    <3>1. CASE Goes(a, "swampUnlock", "LDST") /\ UNCHANGED local
      <4>1. pc[a] = "swampUnlock" /\ pte' = pte /\ fault(a)' = fault(a)
        BY <3>1 DEF Goes, paging, fault
      <4> QED  BY <4>1 DEF ServedInv
    <3>2. CASE MapPage(a)
      <4>1. pte' = [pte EXCEPT ![a][fault(a).page] = vic(a)] /\ local' = local
        BY <3>2 DEF MapPage, Validate
      <4>2. /\ pte \in [Asid -> [Page -> Frame \cup {NULL}]] /\ fault(a).page \in Page
            /\ vic(a) \in Frame
        BY <1>1 DEF Inv, StateType, Locals, fault, vic
      <4>3. vic(a) # NULL
        BY <4>2, SizeAssumption
      <4> QED  BY <4>1, <4>2, <4>3 DEF fault
    <3>3. CASE \E p \in Page : Store(a, p)
      BY <3>3 DEF Store, At, paging, ServedInv, fault
    <3>4. CASE TakeFrame(a)
      BY <1>1, <3>4 DEF TakeFrame, Goto, Inv, StateType
    <3>5. CASE \/ \E from \in FreePlaces \cup {"start"}, to \in FreePlaces \ {"LDST"} : Goes(a, from, to)
               \/ Way(a) \/ Round(a)
      <4>1. pc'[a] \notin {"swampUnlock", "LDST"}
        BY <3>5 DEF Goes, FreePlaces, Way, Ways, Round
      <4> QED  BY <4>1
    <3>6. CASE IO(a)
      <4>1. CASE GoesOn(a)
        BY <1>1, <4>1 DEF GoesOn, IOWays, Inv, StateType
      <4>2. CASE Commands(a) \/ Awaits(a)
        BY <4>2 DEF Commands, Awaits, IOPlaces
      <4> QED  BY <3>6, <4>1, <4>2 DEF IO
    <3> QED  BY <1>3, <3>1, <3>2, <3>3, <3>4, <3>5, <3>6, ProcessIs DEF Free
  <2> QED  BY <1>1, <2>1, <2>2 DEF ServedInv
<1>4. CASE Test_
  <2>1. CASE CreateChild
    <3>1. Counted + 1 \notin {Test}
      <4>1. Counted \in Nat
        BY Universe DEF Inv, StateType, Locals, Counted
      <4> QED  BY <4>1 DEF Test
    <3> QED
      BY <1>1, <1>2, <2>1, <3>1 DEF CreateChild, Count, Inv, StateType, paging
  <2>2. CASE AwaitChild \/ EndTest
    BY <1>1, <1>2, <2>2 DEF AwaitChild, EndTest, Dies, Count, Goto, Inv, StateType, paging
  <2> QED  BY <1>4, <2>1, <2>2 DEF Test_
<1>5. CASE Tick \/ Deadlock \/ Stop \/ UNCHANGED vars \/ \E d \in Device : DeviceInterrupt(d)
  BY <1>2, <1>5 DEF Tick, Deadlock, Stop, vars, DeviceInterrupt, paging
<1> QED  BY <1>3, <1>4, <1>5 DEF Next

\* A program that goes on after a fault on a legal address finds its page, when
\* no other process can take the frame between the V of the swap pool and LDST.
THEOREM FaultsAreServed == ASSUME MAXUPROC = 1, Segment = {2}, NullIsNoCommand PROVE Spec => []FaultServed
<1>1. Init => ServedInv
  BY Universe DEF Init, ServedInv, fault, Unused, NoFault
<1>2. PrintsAlone
  BY DEF PrintsAlone
<1>3. Inv /\ IOInv /\ TypeOK /\ ServedInv /\ [Next]_vars => ServedInv'
  BY ServedStep
<1>4. Inv /\ FrameInv /\ ServedInv => FaultServed
  <2> SUFFICES ASSUME Inv, FrameInv, ServedInv, NEW a \in Asid, pc[a] = "LDST"
               PROVE  Resident(a, fault(a).seg, fault(a).page)
    BY DEF FaultServed
  <2>1. /\ pte \in [Asid -> [Page -> Frame \cup {NULL}]] /\ fault(a).page \in Page
        /\ tlb = Cleared(pte) /\ fault(a).seg = 2
    <3>1. local[a] \in Locals /\ pte \in [Asid -> [Page -> Frame \cup {NULL}]]
      BY Universe DEF Inv, StateType
    <3>2. local[a].fault.page \in Page
      BY <3>1 DEF Locals
    <3> QED  BY <3>1, <3>2 DEF fault, FrameInv, PoolAgrees, ServedInv
  <2>2. PICK f \in Frame : pte[a][fault(a).page] = f
    BY <2>1 DEF ServedInv
  <2>3. <<a, fault(a).page, f>> \in tlb
    BY <2>1, <2>2 DEF Cleared
  <2> QED  BY <2>1, <2>3 DEF Resident
<1>5. Spec => []TypeOK
  BY <1>2, SupportTypes
<1>6. Spec => []IOInv
  BY <1>2, IOInvHolds
<1>7. Spec => []FrameInv
  BY PoolIsSound
<1> QED  BY <1>1, <1>3, <1>4, <1>5, <1>6, <1>7, InvHolds, PTL DEF Spec
-----------------------------------------------------------------------------
\* The places at which a handler has a page under way are those at which it has
\* a frame; nobody else is there meanwhile.
LEMMA IdlePage ==
    ASSUME NEW a, pc[a] \notin TakenPlaces PROVE PageRight(a) /\ pc[a] \notin LeavingPlaces
BY DEF PageRight, TakenPlaces, SwampPlaces, LeavingPlaces, Past

\* For process b nothing happens that its page depends on.
PageSame(b) ==
    /\ Same(b)
    /\ pc[b] \in TakenPlaces => arm' = arm /\ disk' = disk /\ ram'[vic(b)] = ram[vic(b)]

LEMMA PageKept ==
    ASSUME NEW b \in Asid, PageSame(b), PageRight(b) PROVE PageRight(b)'
<1>1. /\ DeviceOf(b)' = DeviceOf(b) /\ vic(b)' = vic(b) /\ fault(b)' = fault(b)
      /\ (Ready(b, "disk"))' = Ready(b, "disk") /\ pc'[b] = pc[b] /\ io'[b] = io[b]
  BY DEF PageSame, Same, DeviceOf, vic, fault, Ready
<1>2. CASE pc[b] \in TakenPlaces
  <2>1. /\ arm' = arm /\ disk' = disk /\ ram'[vic(b)] = ram[vic(b)]
        /\ swamp'[vic(b)] = swamp[vic(b)] /\ Finished(b)' = Finished(b)
    BY <1>1, <1>2 DEF PageSame, Same, Finished
  <2> QED  BY <1>1, <2>1 DEF PageRight, Past, Versions
<1>3. CASE pc[b] \notin TakenPlaces
  <2>1. pc'[b] \notin TakenPlaces'
    BY <1>1, <1>3 DEF TakenPlaces, SwampPlaces
  <2> QED  BY <2>1 DEF PageRight, TakenPlaces, SwampPlaces, LeavingPlaces, Past
<1> QED  BY <1>2, <1>3

\* Who is in the part with a frame is there alone, but for who waits.
LEMMA OthersFree ==
    ASSUME Inv, WaitsAtVictim, NEW a \in Asid, pc[a] \in TakenPlaces \cup {"victim"},
           a \notin ToSet(blocked[swampMutex]), NEW b \in Asid \ {a}
    PROVE  pc[b] \notin TakenPlaces
<1> SUFFICES ASSUME pc[b] \in TakenPlaces PROVE FALSE
  OBVIOUS
<1>1. pc[b] \in SwampPlaces /\ pc[b] # "victim" /\ pc[a] \in SwampPlaces
  BY DEF TakenPlaces, SwampPlaces
<1>2. b \notin ToSet(blocked[swampMutex])
  BY <1>1 DEF WaitsAtVictim
<1>3. a \in Inside(SwampPlaces) /\ b \in Inside(SwampPlaces)
  BY <1>1 DEF Inside
<1> QED  BY <1>2, <1>3 DEF Inv, LockInv, Mutex

\* A process with a frame waits for nothing but the disk.
LEMMA TakenAlone ==
    ASSUME Inv, WaitsAtVictim, NEW a \in Asid, pc[a] \in TakenPlaces, NEW b \in Asid \ {a}
    PROVE  pc[b] \notin TakenPlaces
<1>1. pc[a] # "victim"
  BY DEF TakenPlaces
<1>2. a \notin ToSet(blocked[swampMutex])
  BY <1>1 DEF WaitsAtVictim
<1> QED  BY <1>2, OthersFree

-----------------------------------------------------------------------------
\* What is found of a page.
LEMMA ContentRight ==
    ASSUME Inv, MemInv, NEW a \in Asid, NEW p \in Page
    PROVE  /\ ContentOf(a, p) \in Versions(a, p)
           /\ VersionOf(a, p) = ContentOf(a, p).version
<1>1. ContentOf(a, p) \in Versions(a, p)
  <2>1. CASE pte[a][p] # NULL
    BY <2>1 DEF ContentOf, MemInv, PagesRight
  <2>2. CASE pte[a][p] = NULL /\ Leaving(a, p) # {}
    <3>1. PICK h \in Leaving(a, p) : h = CHOOSE x \in Leaving(a, p) : TRUE
      BY <2>2
    <3>2. h \in Asid /\ pc[h] \in LeavingPlaces /\ swamp[vic(h)] = [asid |-> a, page |-> p]
      BY DEF Leaving, Inside
    <3>3. [asid |-> a, page |-> p] # NULL
      BY SizeAssumption
    <3>4. ram[vic(h)] \in Versions(a, p)
      BY <3>2, <3>3 DEF MemInv, PageRight
    <3> QED  BY <2>2, <3>1, <3>4 DEF ContentOf
  <2>3. CASE pte[a][p] = NULL /\ Leaving(a, p) = {}
    BY <2>3 DEF ContentOf, MemInv, PagesRight
  <2> QED  BY <2>1, <2>2, <2>3
<1>2. ContentOf(a, p) \in {Blank, Content(a, p, ContentOf(a, p).version)}
  BY <1>1 DEF Versions, Content
<1> QED  BY <1>1, <1>2 DEF VersionOf
\* A step changes the memory of UserMemory as it may be changed, or not at all.
MemStep == [Memory!Next]_(Memory!memory)

ContentsKept == \A x \in Asid, q \in Page : ContentOf(x, q)' = ContentOf(x, q)

LEMMA VersionsKept ==
    ASSUME ContentsKept
    PROVE  [x \in Asid |-> [q \in Page |-> VersionOf(x, q)]]' = [x \in Asid |-> [q \in Page |-> VersionOf(x, q)]]
<1>1. \A x \in Asid, q \in Page : VersionOf(x, q)' = VersionOf(x, q)
  BY DEF ContentsKept, VersionOf
<1> QED  BY <1>1

LEMMA Stutters ==
    ASSUME ContentsKept, \A x \in Asid : pc'[x] \in Loading <=> pc[x] \in Loading
    PROVE  MemStep
<1>1. {x \in Asid : pc[x] \notin Loading}' = {x \in Asid : pc[x] \notin Loading}
  BY DEF Loading
<1> QED  BY <1>1, VersionsKept DEF MemStep, Memory!memory

\* Page p of process a changes.
LEMMA Changes ==
    ASSUME NEW a \in Asid, NEW p \in Page, NEW v, VersionOf(a, p)' = v, UNCHANGED pc,
           \A x \in Asid, q \in Page : <<x, q>> # <<a, p>> => ContentOf(x, q)' = ContentOf(x, q)
    PROVE  /\ [x \in Asid |-> [q \in Page |-> VersionOf(x, q)]]' =
                 [[x \in Asid |-> [q \in Page |-> VersionOf(x, q)]] EXCEPT ![a][p] = v]
           /\ UNCHANGED {x \in Asid : pc[x] \notin Loading}
<1>1. \A x \in Asid, q \in Page : VersionOf(x, q)' = IF <<x, q>> = <<a, p>> THEN v ELSE VersionOf(x, q)
  <2>1. \A x \in Asid, q \in Page : <<x, q>> # <<a, p>> => VersionOf(x, q)' = VersionOf(x, q)
    BY DEF VersionOf
  <2> QED  BY <2>1
<1> DEFINE mem == [x \in Asid |-> [q \in Page |-> VersionOf(x, q)]]
           next == [x \in Asid |-> [q \in Page |-> VersionOf(x, q)']]
<1>2. next = [mem EXCEPT ![a][p] = v]
  <2>1. \A x \in Asid : next[x] = IF x = a THEN [mem[a] EXCEPT ![p] = v] ELSE mem[x]
    BY <1>1
  <2> QED  BY <2>1
<1>3. mem' = next
  OBVIOUS
<1>4. UNCHANGED {x \in Asid : pc[x] \notin Loading}
  BY DEF Loading
<1> QED  BY <1>2, <1>3, <1>4
-----------------------------------------------------------------------------
\* The page of a process that goes from one place to another.
LEMMA WayPage == ASSUME Inv, MemInv, NEW a \in Asid, Way(a) PROVE PageRight(a)'
<1>1. PICK w \in Ways : Goes(a, w[1], w[2])
  BY DEF Way
<1>2. PICK from, to : /\ w = <<from, to>> /\ pc[a] = from /\ pc'[a] = to /\ io[a] = "command"
                      /\ UNCHANGED <<io, swamp, ram, disk, arm>>
  BY <1>1 DEF Ways, Goes, storage, paging
<1>3. vic(a)' = vic(a) /\ fault(a)' = fault(a)
  BY DEF Way, vic, fault
<1>4. ~Finished(a)' /\ PageRight(a)
  BY <1>2 DEF Finished, MemInv
<1>5. CASE from \in {"outUnlock", "mask"}
  <2>1. to \in {"mask", "readOut"}
    BY <1>2, <1>5 DEF Ways
  <2>2. swamp[vic(a)] # NULL => disk[swamp[vic(a)].page][swamp[vic(a)].asid] = ram[vic(a)]
    BY <1>2, <1>4, <1>5 DEF PageRight, Past
  <2> QED  BY <1>2, <1>3, <1>4, <2>1, <2>2 DEF PageRight, Past, LeavingPlaces
<1>6. CASE from = "readOut"
  <2>1. to = "inSeek"
    BY <1>2, <1>6 DEF Ways
  <2>2. swamp[vic(a)] # NULL => disk[swamp[vic(a)].page][swamp[vic(a)].asid] = ram[vic(a)]
    BY <1>2, <1>4, <1>6 DEF PageRight, Past
  <2> QED  BY <1>2, <1>3, <1>4, <2>1, <2>2 DEF PageRight, Past, LeavingPlaces
<1>7. CASE from \in {"writeOut", "PANIC"}
  <2>1. to \in {"outSeek", "PANIC"} /\ pc[a] \in LeavingPlaces
    BY <1>2, <1>7 DEF Ways, LeavingPlaces
  <2>2. swamp[vic(a)] # NULL => ram[vic(a)] \in Versions(swamp[vic(a)].asid, swamp[vic(a)].page)
    BY <1>4, <2>1 DEF PageRight
  <2> QED  BY <1>2, <1>3, <1>4, <2>1, <2>2 DEF PageRight, Past, Versions
<1>8. CASE from = "inUnlock"
  <2>1. to = "update"
    BY <1>2, <1>8 DEF Ways
  <2>2. ram[vic(a)] = disk[fault(a).page][a]
    BY <1>2, <1>4, <1>8 DEF PageRight, Past
  <2> QED  BY <1>2, <1>3, <1>4, <2>1, <2>2 DEF PageRight, Past, LeavingPlaces
<1>9. CASE to \in Loading
  <2>1. pc'[a] \notin TakenPlaces'
    BY <1>2, <1>9 DEF Loading, TakenPlaces, SwampPlaces
  <2> QED  BY <2>1 DEF PageRight, TakenPlaces, SwampPlaces, LeavingPlaces, Past
<1> QED  BY <1>2, <1>5, <1>6, <1>7, <1>8, <1>9 DEF Ways, Loading

LEMMA IOPage == ASSUME Inv, IOInv, TypeInv, MemInv, NEW a \in Asid, IO(a) PROVE PageRight(a)'
<1>1. /\ UNCHANGED <<swamp, ram, disk, arm>> /\ vic(a)' = vic(a) /\ fault(a)' = fault(a)
      /\ (Ready(a, "disk"))' = Ready(a, "disk") /\ PageRight(a)
      /\ io \in [Proc -> {"command", "wait", "done"}] /\ a \in Proc /\ DOMAIN pc = Proc
      /\ DOMAIN busy = Device /\ DeviceOf(a) \in Device
  BY Universe, PlaceDevice
  DEF IO, Commands, Awaits, GoesOn, storage, paging, vic, fault, Ready, MemInv, IOInv, Inv, StateType
<1>2. CASE Commands(a) \/ Awaits(a)
  <2>1. pc' = pc /\ ~Finished(a) /\ ~Finished(a)'
    <3>1. CASE Commands(a)
      <4>1. pc' = pc /\ io[a] = "command" /\ io'[a] = "wait"
        BY <1>1, <3>1 DEF Commands
      <4> QED  BY <4>1 DEF Finished
    <3>2. CASE Awaits(a)
      <4>1. pc' = pc /\ DeviceOf(a)' = DeviceOf(a)
        BY <3>2 DEF Awaits, DeviceOf
      <4> QED  BY <3>2, <4>1 DEF Awaits, Finished
    <3> QED  BY <1>2, <3>1, <3>2
  <2> QED  BY <1>1, <2>1 DEF PageRight, Past, Versions
<1>3. CASE GoesOn(a)
  <2>1. PICK w \in IOWays : /\ pc[a] = w[1] /\ pc' = [pc EXCEPT ![a] = w[2]]
                            /\ w[2] \in {"outWrite", "inRead"} => Ready(a, "disk")
    BY <1>3 DEF GoesOn
  <2>2. PICK from, to : /\ w = <<from, to>> /\ pc[a] = from /\ pc'[a] = to
                        /\ to \in {"outWrite", "inRead"} => Ready(a, "disk")
    BY <1>1, <2>1 DEF IOWays
  <2>3. Finished(a) /\ ~Finished(a)'
    BY <1>1, <1>3 DEF GoesOn, Finished
  <2>4. CASE from = "outSeek"
    <3>1. to \in {"outWrite", "PANIC"} /\ pc[a] \in LeavingPlaces /\ pc[a] = "outSeek"
      BY <2>2, <2>4 DEF IOWays, LeavingPlaces
    <3>2. Ready(a, "disk") => arm = swamp[vic(a)].page
      BY <1>1, <2>3, <3>1 DEF PageRight, Past
    <3>3. swamp[vic(a)] # NULL => ram[vic(a)] \in Versions(swamp[vic(a)].asid, swamp[vic(a)].page)
      BY <1>1, <3>1 DEF PageRight
    <3> QED  BY <1>1, <2>2, <2>3, <3>1, <3>2, <3>3 DEF PageRight, Past, Versions
  <2>5. CASE from = "outWrite"
    <3>1. to = "outUnlock"
      BY <2>2, <2>5 DEF IOWays
    <3>2. swamp[vic(a)] # NULL => disk[swamp[vic(a)].page][swamp[vic(a)].asid] = ram[vic(a)]
      BY <1>1, <2>2, <2>3, <2>5 DEF PageRight, Past
    <3> QED  BY <1>1, <2>2, <2>3, <3>1, <3>2 DEF PageRight, Past, LeavingPlaces
  <2>6. CASE from = "inSeek"
    <3>1. to \in {"inRead", "PANIC"}
      BY <2>2, <2>6 DEF IOWays
    <3>2. Ready(a, "disk") => arm = fault(a).page
      BY <1>1, <2>2, <2>3, <2>6 DEF PageRight, Past
    <3>3. swamp[vic(a)] # NULL => disk[swamp[vic(a)].page][swamp[vic(a)].asid] = ram[vic(a)]
      BY <1>1, <2>2, <2>3, <2>6 DEF PageRight, Past
    <3>4. swamp[vic(a)] # NULL => ram[vic(a)] \in Versions(swamp[vic(a)].asid, swamp[vic(a)].page)
      <4>1. swamp[vic(a)] # NULL => swamp[vic(a)].asid \in Asid /\ swamp[vic(a)].page \in Page
        <5>1. swamp \in [Frame -> [asid : Asid, page : Page] \cup {NULL}] /\ local[a] \in Locals
          BY <1>1 DEF Inv, StateType
        <5>2. vic(a) \in Frame
          BY <5>1 DEF Locals, vic
        <5> QED  BY <5>1, <5>2
      <4> QED  BY <3>3, <4>1 DEF MemInv, PagesRight
    <3> QED  BY <1>1, <2>2, <2>3, <3>1, <3>2, <3>4 DEF PageRight, Past, LeavingPlaces, Versions
  <2>7. CASE from = "inRead"
    <3>1. to = "inUnlock"
      BY <2>2, <2>7 DEF IOWays
    <3>2. ram[vic(a)] = disk[fault(a).page][a]
      BY <1>1, <2>2, <2>3, <2>7 DEF PageRight, Past
    <3> QED  BY <1>1, <2>2, <2>3, <3>1, <3>2 DEF PageRight, Past, LeavingPlaces
  <2>8. CASE from \notin {"outSeek", "outWrite", "inSeek", "inRead"}
    <3>1. pc'[a] \notin TakenPlaces'
      BY <2>2, <2>8 DEF IOWays, TakenPlaces, SwampPlaces
    <3> QED  BY <3>1 DEF PageRight, TakenPlaces, SwampPlaces, LeavingPlaces, Past
  <2> QED  BY <2>4, <2>5, <2>6, <2>7, <2>8
<1> QED  BY <1>2, <1>3 DEF IO

\* Or takes no part in paging.
LEMMA FreePage ==
    ASSUME NEW a \in Asid, Free(a) \/ Round(a) PROVE PageRight(a)'
<1>1. pc'[a] \notin TakenPlaces'
  BY DEF Free, Round, Goes, FreePlaces, TakenPlaces, SwampPlaces
<1> QED  BY <1>1 DEF PageRight, TakenPlaces, SwampPlaces, LeavingPlaces, Past
-----------------------------------------------------------------------------
\* The blocks a process has copied.
LEMMA IdleBlock ==
    ASSUME NEW a, pc'[a] \notin Loading PROVE BlockRight(a)'
<1>1. /\ pc'[a] \notin CopyPlaces /\ pc'[a] # "start"
      /\ pc'[a] \notin {"tape", "seekLock", "seek", "seekUnlock", "storeLock", "store", "storeUnlock",
                        "stored"}
  BY DEF Loading, CopyPlaces
<1> QED  BY <1>1 DEF BlockRight, Past, CopyPlaces, Loading

LEMMA WayBlock ==
    ASSUME Inv, TypeInv, LoneLoader, NEW a \in Asid, Way(a) PROVE BlockRight(a)'
<1>1. PICK w \in Ways : Goes(a, w[1], w[2]) /\ (w = <<"seekUnlock", "stored">> => ~Ready(a, "disk"))
  BY DEF Way
<1>2. PICK from, to : /\ <<from, to>> \in Ways /\ pc[a] = from /\ pc'[a] = to
                      /\ <<from, to>> # <<"seekUnlock", "stored">> /\ io'[a] = "command"
                      /\ UNCHANGED <<disk, arm, buffer>>
  BY <1>1 DEF Ways, Goes, storage, LoneLoader
<1>3. currentPage(a)' = currentPage(a) /\ ~Finished(a)' /\ BlockRight(a)
  BY <1>2 DEF Way, currentPage, Finished, LoneLoader
<1>4. CASE from = "professor"
  <2>1. currentPage(a)' = 0 /\ to = "tape"
    BY <1>2, <1>3, <1>4 DEF TypeInv, CopyRight, Ways
  <2>2. \A p \in Page : ~ p < 0
    BY SizeAssumption DEF Page
  <2> QED  BY <1>2, <1>3, <2>1, <2>2 DEF BlockRight, Past
<1>5. CASE from \in {"seekLock", "seekUnlock", "storeLock", "storeUnlock"}
  <2>1. pc[a] \in CopyPlaces
    BY <1>2, <1>5 DEF CopyPlaces, Loading
  <2>2. \A p \in Page : p < currentPage(a) => Copied(a, p)
    BY <1>3, <2>1 DEF BlockRight
  <2>3. CASE from = "seekLock"
    <3>1. buffer[a] = Content(a, currentPage(a), 1) /\ to = "seek"
      BY <1>2, <1>3, <2>3 DEF BlockRight, Past, Ways
    <3> QED  BY <1>2, <1>3, <2>2, <3>1 DEF BlockRight, Past, Copied
  <2>4. CASE from \in {"seekUnlock", "storeLock"}
    <3>1. buffer[a] = Content(a, currentPage(a), 1) /\ arm = currentPage(a) /\ to \in {"storeLock", "store"}
      BY <1>2, <1>3, <2>4 DEF BlockRight, Past, Ways
    <3> QED  BY <1>2, <1>3, <2>2, <3>1 DEF BlockRight, Past, Copied
  <2>5. CASE from = "storeUnlock"
    <3>1. Copied(a, currentPage(a)) /\ to = "stored"
      BY <1>2, <1>3, <2>5 DEF BlockRight, Past, Ways
    <3> QED  BY <1>2, <1>3, <2>2, <3>1 DEF BlockRight, Past, Copied
  <2> QED  BY <1>5, <2>3, <2>4, <2>5
<1>6. CASE from \notin {"professor", "seekLock", "seekUnlock", "storeLock", "storeUnlock"}
  <2>1. pc'[a] \notin Loading
    BY <1>2, <1>6 DEF Ways, Loading
  <2> QED  BY <2>1, IdleBlock
<1> QED  BY <1>4, <1>5, <1>6

LEMMA RoundBlock ==
    ASSUME Inv, TypeInv, LoneLoader, NEW a \in Asid, Round(a) PROVE BlockRight(a)'
<1>1. PICK to \in {"tape", "start"} :
        /\ pc[a] = "stored" /\ pc'[a] = to /\ io'[a] = "command"
        /\ UNCHANGED <<disk, arm, buffer>>
        /\ to = "tape" => currentPage(a)' = currentPage(a) + 1
        /\ to = "start" => ~MoreToRead(a)
  BY DEF Round, Goes, storage, LoneLoader
<1>2. /\ pc[a] \in CopyPlaces /\ BlockRight(a) /\ CopyRight(a) /\ Ready(a, "tape")
      /\ Past(a, "tape", CopyPlaces \ {"tape"}) /\ Past(a, "store", {"storeUnlock", "stored"})
  BY <1>1 DEF CopyPlaces, Loading, LoneLoader, TypeInv, Past
<1>3. /\ currentPage(a) \in Nat /\ Blocks[a] \in Nat
  BY <1>2, CopyFacts DEF Inv
<1>4. \A p \in Page : p < currentPage(a) + 1 => Copied(a, p)
  <2>1. /\ \A p \in Page : p < currentPage(a) => Copied(a, p)
        /\ Copied(a, currentPage(a))
    BY <1>2 DEF BlockRight
  <2>2. \A p \in Page : p \in Int
    BY SizeAssumption DEF Page
  <2> QED  BY <1>3, <2>1, <2>2
<1>5. tapePos[a] = currentPage(a) + 1 /\ currentPage(a) < Blocks[a]
  BY <1>2 DEF CopyRight
<1>6. ~Finished(a)'
  BY <1>1 DEF Finished
<1>7. CASE to = "tape"
  BY <1>1, <1>4, <1>6, <1>7 DEF BlockRight, Past, Copied
<1>8. CASE to = "start"
  <2>1. Blocks[a] = currentPage(a) + 1
    BY <1>1, <1>3, <1>5, <1>8 DEF MoreToRead
  <2>2. pc'[a] \notin CopyPlaces
    BY <1>1, <1>8 DEF CopyPlaces
  <2> QED  BY <1>1, <1>4, <1>8, <2>1, <2>2 DEF BlockRight, Past, Copied
<1> QED  BY <1>7, <1>8

LEMMA IOBlock ==
    ASSUME Inv, IOInv, TypeInv, LoneLoader, NEW a \in Asid, IO(a) PROVE BlockRight(a)'
<1>1. /\ UNCHANGED <<disk, arm, buffer>> /\ currentPage(a)' = currentPage(a) /\ BlockRight(a)
      /\ io \in [Proc -> {"command", "wait", "done"}] /\ a \in Proc /\ DOMAIN pc = Proc
  BY Universe
  DEF IO, Commands, Awaits, GoesOn, storage, currentPage, LoneLoader, IOInv, Inv, StateType
<1>2. CASE Commands(a) \/ Awaits(a)
  <2>1. pc' = pc /\ ~Finished(a) /\ ~Finished(a)'
    <3>1. CASE Commands(a)
      <4>1. pc' = pc /\ io[a] = "command" /\ io'[a] = "wait"
        BY <1>1, <3>1 DEF Commands
      <4> QED  BY <4>1 DEF Finished
    <3>2. CASE Awaits(a)
      <4>1. pc' = pc /\ DeviceOf(a)' = DeviceOf(a)
        BY <3>2 DEF Awaits, DeviceOf
      <4> QED  BY <3>2, <4>1 DEF Awaits, Finished
    <3> QED  BY <1>2, <3>1, <3>2
  <2> QED  BY <1>1, <2>1 DEF BlockRight, Past, Copied
<1>3. CASE GoesOn(a)
  <2>1. PICK w \in IOWays : pc[a] = w[1] /\ pc' = [pc EXCEPT ![a] = w[2]]
    BY <1>3 DEF GoesOn
  <2>2. PICK from, to : w = <<from, to>> /\ pc[a] = from /\ pc'[a] = to
    BY <1>1, <2>1 DEF IOWays
  <2>3. Finished(a) /\ ~Finished(a)'
    BY <1>1, <1>3 DEF GoesOn, Finished
  <2>4. CASE from \in {"tape", "seek", "store"}
    <3>1. pc[a] \in CopyPlaces
      BY <2>2, <2>4 DEF CopyPlaces, Loading
    <3>2. \A p \in Page : p < currentPage(a) => Copied(a, p)
      BY <1>1, <3>1 DEF BlockRight
    <3>3. CASE from = "tape"
      <4>1. to = "seekLock" /\ buffer[a] = Content(a, currentPage(a), 1)
        BY <1>1, <2>2, <2>3, <3>3 DEF IOWays, BlockRight, Past
      <4> QED  BY <1>1, <2>2, <2>3, <3>2, <4>1 DEF BlockRight, Past, Copied
    <3>4. CASE from = "seek"
      <4>1. to = "seekUnlock" /\ buffer[a] = Content(a, currentPage(a), 1) /\ arm = currentPage(a)
        BY <1>1, <2>2, <2>3, <3>4 DEF IOWays, BlockRight, Past
      <4> QED  BY <1>1, <2>2, <2>3, <3>2, <4>1 DEF BlockRight, Past, Copied
    <3>5. CASE from = "store"
      <4>1. to = "storeUnlock" /\ Copied(a, currentPage(a))
        BY <1>1, <2>2, <2>3, <3>5 DEF IOWays, BlockRight, Past
      <4> QED  BY <1>1, <2>2, <2>3, <3>2, <4>1 DEF BlockRight, Past, Copied
    <3> QED  BY <2>4, <3>3, <3>4, <3>5
  <2>5. CASE from \notin {"tape", "seek", "store"}
    <3>1. pc'[a] \notin Loading
      BY <2>2, <2>5 DEF IOWays, Loading
    <3> QED  BY <3>1, IdleBlock
  <2> QED  BY <2>4, <2>5
<1> QED  BY <1>2, <1>3 DEF IO
-----------------------------------------------------------------------------
\* What the proofs about memory rest on.
World == Inv /\ FrameInv /\ IOInv /\ TypeInv /\ MemInv

\* Of a process, in its types.
LEMMA Typed ==
    ASSUME Inv, NEW a \in Asid
    PROVE  /\ a \in Proc /\ vic(a) \in Frame /\ fault(a).page \in Page
           /\ DOMAIN pc = Proc /\ local \in [Proc -> Locals]
           /\ swamp \in [Frame -> [asid : Asid, page : Page] \cup {NULL}]
           /\ pte \in [Asid -> [Page -> Frame \cup {NULL}]]
           /\ swamp[vic(a)] # NULL => swamp[vic(a)].asid \in Asid /\ swamp[vic(a)].page \in Page
<1>1. /\ a \in Proc /\ local \in [Proc -> Locals] /\ DOMAIN pc = Proc
      /\ swamp \in [Frame -> [asid : Asid, page : Page] \cup {NULL}]
      /\ pte \in [Asid -> [Page -> Frame \cup {NULL}]]
  BY Universe DEF Inv, StateType
<1>2. local[a].vic \in Frame /\ local[a].fault.page \in Page
  BY <1>1 DEF Locals
<1> QED  BY <1>1, <1>2 DEF vic, fault

\* Nobody is loading while the processes are several.
LEMMA LoadersAlone ==
    ASSUME MemInv, NEW a \in Asid, pc[a] \in Loading
    PROVE  /\ Asid = {a} /\ LoneLoader /\ \A p \in Page : pte[a][p] = NULL
           /\ DeviceErrors \subseteq {"char"}
<1>1. LoneLoader /\ \A p \in Page : pte[a][p] = NULL
  BY DEF MemInv, LoadInv
<1> QED  BY <1>1 DEF LoneLoader, Asid

\* The steps that leave storage and paging alone.
Calm(a) == Free(a) \/ Way(a) \/ Round(a) \/ IO(a)

LEMMA CalmIs ==
    ASSUME World, NEW a \in Asid, Calm(a)
    PROVE  /\ UNCHANGED <<storage, paging>> /\ \A b \in Asid \ {a} : PageSame(b) /\ pc'[b] = pc[b]
           /\ \A b \in Asid : reply'[b] = reply[b] \/ \A line \in {"disk", "tape"} : reply'[b][line] = TRUE
<1>1. UNCHANGED <<storage, paging>>
  BY DEF Calm, Free, Way, Round, Goes, IO, Commands, Awaits, GoesOn
<1>2. \A b \in Asid \ {a} : Same(b)
  BY GoesSame, IOSame DEF Calm, Free, Way, Round, World, TypeInv
<1>3. \A b \in Asid \ {a} : PageSame(b) /\ pc'[b] = pc[b]
  BY <1>1, <1>2 DEF PageSame, storage, Same
<1>4. reply' = reply \/ reply' = [reply EXCEPT ![a] = [line \in DOMAIN @ |-> TRUE]]
  BY DEF Calm, Free, Way, Round, IO, Commands, Awaits, GoesOn
<1>5. reply \in [Asid -> [{"disk", "tape", "printer", "terminal"} -> BOOLEAN]]
  BY DEF World, TypeInv, TypeOK
<1>6. \A b \in Asid : reply'[b] = reply[b] \/ \A line \in {"disk", "tape"} : reply'[b][line] = TRUE
  BY <1>4, <1>5
<1> QED  BY <1>1, <1>3, <1>6

LEMMA CalmPages == ASSUME World, NEW a \in Asid, Calm(a) PROVE PagesRight' /\ \A b \in Asid : PageRight(b)'
<1>1. PagesRight'
  BY CalmIs DEF World, MemInv, PagesRight, Versions, storage, paging
<1>2. PageRight(a)'
  BY WayPage, IOPage, FreePage DEF Calm, World
<1>3. \A b \in Asid \ {a} : PageRight(b)'
  BY CalmIs, PageKept DEF World, MemInv
<1> QED  BY <1>1, <1>2, <1>3

LEMMA CalmLoads == ASSUME World, NEW a \in Asid, Calm(a) PROVE LoadInv'
<1>1. UNCHANGED <<storage, paging>> /\ \A b \in Asid \ {a} : pc'[b] = pc[b]
  BY CalmIs
<1>2. pc'[a] \in Loading => pc[a] \in Loading
  <2>1. CASE Free(a)
    BY <2>1 DEF Free, Goes, FreePlaces, Loading
  <2>2. CASE Way(a) \/ Round(a)
    BY <2>2 DEF Way, Ways, Round, Goes, Loading
  <2>3. CASE IO(a)
    <3>1. CASE GoesOn(a)
      BY <3>1, Typed DEF GoesOn, IOWays, Loading, World
    <3> QED  BY <2>3, <3>1 DEF IO, Commands, Awaits
  <2> QED  BY <2>1, <2>2, <2>3 DEF Calm
<1>3. \A b \in Asid : pc'[b] \in Loading' => \A p \in Page : pte'[b][p] = NULL
  BY <1>1, <1>2 DEF paging, Loading, World, MemInv, LoadInv
<1>4. CASE \A b \in Asid : pc[b] \notin Loading
  BY <1>1, <1>2, <1>3, <1>4 DEF LoadInv, Loading
<1>5. CASE LoneLoader
  <2>1. Asid = {a} /\ MAXUPROC = 1 /\ DeviceErrors \subseteq {"char"}
    BY <1>5 DEF LoneLoader, Asid
  <2>2. (Ready(a, "disk"))' /\ (Ready(a, "tape"))'
    BY <1>5, CalmIs DEF LoneLoader, Ready
  <2>3. BlockRight(a)'
    <3>1. CASE Free(a)
      <4>1. pc'[a] \notin Loading
        BY <3>1 DEF Free, Goes, FreePlaces, Loading
      <4> QED  BY <4>1, IdleBlock
    <3> QED  BY <1>5, <3>1, WayBlock, RoundBlock, IOBlock DEF Calm, World
  <2> QED  BY <1>3, <2>1, <2>2, <2>3 DEF LoadInv, LoneLoader
<1> QED  BY <1>4, <1>5 DEF World, MemInv, LoadInv
-----------------------------------------------------------------------------
\* If a page is on its way out, a process with a frame, of which there is one,
\* has it.
Found(a, x, q) ==
    IF pte[x][q] # NULL THEN ram[pte[x][q]]
    ELSE IF pc[a] \in LeavingPlaces /\ swamp[vic(a)] = [asid |-> x, page |-> q] THEN ram[vic(a)]
    ELSE disk[q][x]

LEMMA FoundIs ==
    ASSUME NEW a \in Asid, \A b \in Asid \ {a} : pc[b] \notin LeavingPlaces, NEW x, NEW q
    PROVE  ContentOf(x, q) = Found(a, x, q)
<1>1. Leaving(x, q) = IF pc[a] \in LeavingPlaces /\ swamp[vic(a)] = [asid |-> x, page |-> q]
                      THEN {a} ELSE {}
  BY DEF Leaving, Inside
<1>2. (CHOOSE h \in {a} : TRUE) = a
  OBVIOUS
<1> QED  BY <1>1, <1>2 DEF ContentOf, Found

LEMMA FoundNext ==
    ASSUME NEW a \in Asid, \A b \in Asid \ {a} : pc'[b] \notin LeavingPlaces, NEW x, NEW q
    PROVE  ContentOf(x, q)' = Found(a, x, q)'
<1>1. Leaving(x, q)' = IF pc'[a] \in LeavingPlaces /\ swamp'[vic(a)'] = [asid |-> x, page |-> q]
                       THEN {a} ELSE {}
  BY DEF Leaving, Inside, LeavingPlaces
<1>2. (CHOOSE h \in {a} : TRUE) = a
  OBVIOUS
<1> QED  BY <1>1, <1>2 DEF ContentOf, Found, LeavingPlaces

\* While nobody comes to a place where a page is on its way out, or goes from
\* one, and page tables, frames and disk are as they were.
LEMMA LeaversSame ==
    ASSUME \A b \in Asid : \/ pc[b] \notin LeavingPlaces /\ pc'[b] \notin LeavingPlaces
                           \/ pc'[b] = pc[b] /\ vic(b)' = vic(b)
                           \/ {pc[b], pc'[b]} \subseteq LeavingPlaces /\ vic(b)' = vic(b),
           NEW x, NEW q,
           \A b \in Inside(LeavingPlaces) : swamp'[vic(b)] = swamp[vic(b)]
                                            /\ ram'[vic(b)] = ram[vic(b)],
           pte'[x][q] = pte[x][q], disk'[q][x] = disk[q][x],
           pte[x][q] # NULL => ram'[pte[x][q]] = ram[pte[x][q]]
    PROVE  ContentOf(x, q)' = ContentOf(x, q)
<1>1. Leaving(x, q)' = Leaving(x, q)
  BY DEF Leaving, Inside, LeavingPlaces
<1> DEFINE h == CHOOSE b \in Leaving(x, q) : TRUE
<1>2. Leaving(x, q) # {} => ram'[vic(h)'] = ram[vic(h)]
  <2> SUFFICES ASSUME Leaving(x, q) # {} PROVE ram'[vic(h)'] = ram[vic(h)]
    OBVIOUS
  <2>1. PICK b \in Leaving(x, q) : b = h
    OBVIOUS
  <2>2. b \in Asid /\ pc[b] \in LeavingPlaces
    BY DEF Leaving, Inside
  <2>3. vic(b)' = vic(b) /\ ram'[vic(b)] = ram[vic(b)]
    BY <2>2 DEF Inside
  <2> QED  BY <1>1, <2>1, <2>3
<1> QED  BY <1>1, <1>2 DEF ContentOf
\* The others are not at these places while a process has a frame.
LEMMA OneLeaver ==
    ASSUME World, NEW a \in Asid, pc[a] \in TakenPlaces
    PROVE  \A b \in Asid \ {a} : pc[b] \notin LeavingPlaces
BY TakenAlone, IdlePage DEF World, FrameInv

\* The last step of writeOut, and an error of the disk before readOut: the page
\* that was in the frame is on the disk.
LEMMA WrittenKept ==
    ASSUME World, NEW a \in Asid, UNCHANGED <<local, storage, paging>>,
           \A b \in Asid \ {a} : pc'[b] = pc[b], Finished(a),
           \/ pc[a] = "outWrite" /\ pc'[a] = "outUnlock"
           \/ pc[a] = "inSeek" /\ pc'[a] = "PANIC"
    PROVE  ContentsKept
<1>1. pc[a] \in TakenPlaces
  BY DEF TakenPlaces, SwampPlaces
<1>2. \A b \in Asid \ {a} : pc[b] \notin LeavingPlaces /\ pc'[b] \notin LeavingPlaces
  BY <1>1, OneLeaver
<1>3. swamp[vic(a)] # NULL => disk[swamp[vic(a)].page][swamp[vic(a)].asid] = ram[vic(a)]
  BY DEF World, MemInv, PageRight, Past
<1>4. ASSUME NEW x \in Asid, NEW q \in Page PROVE ContentOf(x, q)' = ContentOf(x, q)
  <2>1. ContentOf(x, q) = Found(a, x, q) /\ ContentOf(x, q)' = Found(a, x, q)'
    BY <1>2, FoundIs, FoundNext
  <2>2. swamp[vic(a)] = [asid |-> x, page |-> q] => disk[q][x] = ram[vic(a)]
    <3>1. [asid |-> x, page |-> q] # NULL
      BY SizeAssumption
    <3> QED  BY <1>3, <3>1
  <2>3. vic(a)' = vic(a) /\ UNCHANGED <<pte, ram, disk, swamp>>
    BY DEF vic, storage, paging
  <2> QED  BY <2>1, <2>2, <2>3 DEF Found, LeavingPlaces
<1> QED  BY <1>4 DEF ContentsKept

\* Paging goes on: the contents stay.
LEMMA CalmKept == ASSUME World, NEW a \in Asid, Calm(a) PROVE ContentsKept
<1>1. UNCHANGED <<storage, paging>> /\ \A b \in Asid \ {a} : pc'[b] = pc[b] /\ vic(b)' = vic(b)
  BY CalmIs DEF PageSame, Same, vic
<1>2. ASSUME {pc[a], pc'[a]} \subseteq LeavingPlaces \/ {pc[a], pc'[a]} \cap LeavingPlaces = {},
             {pc[a], pc'[a]} \subseteq LeavingPlaces => vic(a)' = vic(a)
      PROVE  ContentsKept
  <2>1. \A b \in Asid : \/ pc[b] \notin LeavingPlaces /\ pc'[b] \notin LeavingPlaces
                        \/ pc'[b] = pc[b] /\ vic(b)' = vic(b)
                        \/ {pc[b], pc'[b]} \subseteq LeavingPlaces /\ vic(b)' = vic(b)
    BY <1>1, <1>2
  <2>2. UNCHANGED <<pte, ram, disk, swamp>>
    BY <1>1 DEF storage, paging
  <2> QED  BY <2>1, <2>2, LeaversSame DEF ContentsKept
<1> HIDE DEF ContentsKept
<1>3. CASE Free(a)
  BY <1>2, <1>3 DEF Free, Goes, FreePlaces, LeavingPlaces
<1>4. CASE Round(a)
  BY <1>2, <1>4 DEF Round, Goes, LeavingPlaces
<1>5. CASE Way(a)
  <2>1. vic(a)' = vic(a)
    BY <1>5 DEF Way, vic
  <2>2. {pc[a], pc'[a]} \subseteq LeavingPlaces \/ {pc[a], pc'[a]} \cap LeavingPlaces = {}
    BY <1>5 DEF Way, Ways, Goes, LeavingPlaces
  <2> QED  BY <1>2, <2>1, <2>2
<1>6. CASE IO(a)
  <2>1. CASE Commands(a) \/ Awaits(a)
    <3>1. pc' = pc /\ vic(a)' = vic(a)
      BY <2>1 DEF Commands, Awaits, vic
    <3> QED  BY <1>2, <3>1
  <2>2. CASE GoesOn(a)
    <3>1. PICK w \in IOWays : pc[a] = w[1] /\ pc' = [pc EXCEPT ![a] = w[2]]
      BY <2>2 DEF GoesOn
    <3>2. pc'[a] = w[2] /\ UNCHANGED local /\ vic(a)' = vic(a) /\ Finished(a)
      BY <2>2, <3>1, Typed DEF GoesOn, vic, World
    <3>3. \/ pc[a] = "outWrite" /\ pc'[a] = "outUnlock"
          \/ pc[a] = "inSeek" /\ pc'[a] = "PANIC"
          \/ {pc[a], pc'[a]} \subseteq LeavingPlaces
          \/ {pc[a], pc'[a]} \cap LeavingPlaces = {}
      BY <3>1, <3>2 DEF IOWays, LeavingPlaces
    <3> QED  BY <1>1, <1>2, <3>2, <3>3, WrittenKept
  <2> QED  BY <1>6, <2>1, <2>2 DEF IO
<1> QED  BY <1>3, <1>4, <1>5, <1>6 DEF Calm

\* A program starts when all its blocks have been copied.
LEMMA StartStep ==
    ASSUME World, NEW a \in Asid, Calm(a), pc[a] = "start", pc'[a] \notin Loading PROVE MemStep
<1>1. \A b \in Asid \ {a} : pc'[b] = pc[b]
  BY CalmIs
<1>2. /\ Asid = {a} /\ (\A p \in Page : pte[a][p] = NULL)
      /\ \A p \in Page : p < Blocks[a] => Copied(a, p)
  <2>1. pc[a] \in Loading
    BY DEF Loading
  <2> QED  BY <2>1, LoadersAlone DEF World, LoneLoader, BlockRight
<1>3. ASSUME NEW p \in Page, p < Blocks[a] PROVE VersionOf(a, p) = 1
  <2>1. ContentOf(a, p) = Found(a, a, p)
    BY <1>2, FoundIs
  <2>2. Found(a, a, p) = Content(a, p, 1)
    BY <1>2, <1>3 DEF Found, LeavingPlaces, Copied
  <2> QED  BY <2>1, <2>2, ContentRight DEF World, Content
<1>4. {x \in Asid : pc[x] \notin Loading}' = {x \in Asid : pc[x] \notin Loading} \cup {a}
  BY <1>1 DEF Loading
<1>5. a \notin {x \in Asid : pc[x] \notin Loading}
  BY DEF Loading
<1>6. Memory!Start(a)
  BY <1>3, <1>4, <1>5, VersionsKept, CalmKept DEF Memory!Start
<1> QED  BY <1>6 DEF MemStep, Memory!Next

LEMMA CalmStep == ASSUME World, NEW a \in Asid, Calm(a) PROVE MemStep
<1>1. \A b \in Asid \ {a} : pc'[b] = pc[b]
  BY CalmIs
<1>2. CASE pc'[a] \in Loading <=> pc[a] \in Loading
  BY <1>1, <1>2, Stutters, CalmKept
<1>3. CASE ~(pc'[a] \in Loading <=> pc[a] \in Loading)
  <2>1. Free(a)
    <3>1. CASE Way(a) \/ Round(a)
      BY <1>3, <3>1 DEF Way, Ways, Round, Goes, Loading
    <3>2. CASE IO(a)
      <4>1. CASE GoesOn(a)
        BY <1>3, <4>1, Typed DEF GoesOn, IOWays, Loading, World
      <4> QED  BY <1>3, <3>2, <4>1 DEF IO, Commands, Awaits
    <3> QED  BY <3>1, <3>2 DEF Calm
  <2>2. pc[a] = "start" /\ pc'[a] \notin Loading
    BY <1>3, <2>1 DEF Free, Goes, FreePlaces, Loading
  <2> QED  BY <2>2, StartStep
<1> QED  BY <1>2, <1>3
-----------------------------------------------------------------------------
\* A handler takes frame v; the page in it, if any, loses its entry.
Takes(a, v) ==
    /\ v \in Frame /\ pc[a] = "victim" /\ vic(a)' = v
    /\ UNCHANGED <<io, swamp, storage, reply>>
    /\ \A b \in Asid \ {a} : PageSame(b) /\ pc[b] \notin TakenPlaces
    /\ \/ swamp[v] = NULL /\ pc'[a] = "mask" /\ pte' = pte
       \/ /\ swamp[v] # NULL /\ pc'[a] = "writeOut"
          /\ pte[swamp[v].asid][swamp[v].page] = v
          /\ pte' = [pte EXCEPT ![swamp[v].asid][swamp[v].page] = NULL]

LEMMA TakesIs == ASSUME World, NEW a \in Asid, TakeFrame(a) PROVE \E v : Takes(a, v)
<1>1. /\ Inv /\ IOInv /\ MemoryType /\ FrameInv /\ TypeOK
  BY TypeParts DEF World, TypeInv
<1>2. /\ pc[a] = "victim" /\ ~Waits(a) /\ UNCHANGED <<io, swamp, storage, reply>>
      /\ local' = [local EXCEPT ![a].vic = pickAVictim]
  BY DEF TakeFrame, At, devices
<1>3. pickAVictim \in Frame
  BY <1>1, SizeAssumption DEF Inv, StateType, pickAVictim, Frame
<1>4. PICK v \in Frame : v = pickAVictim
  BY <1>3
<1>5. vic(a)' = v
  BY <1>1, <1>2, <1>4, Typed DEF vic, Locals
<1>6. a \notin ToSet(blocked[swampMutex])
  BY <1>1, <1>2 DEF Waits, Inv, StateType, Semaphore
<1>7. \A b \in Asid \ {a} : PageSame(b) /\ pc[b] \notin TakenPlaces
  <2>1. \A b \in Asid \ {a} : pc[b] \notin TakenPlaces
    BY <1>1, <1>2, <1>6, OthersFree DEF FrameInv
  <2> QED  BY <1>1, <2>1, TakeFrameRight DEF PageSame
<1>8. Taken = {}
  BY <1>2, <1>7 DEF Taken, Inside, TakenPlaces
<1>9. swamp[v] # NULL => pte[swamp[v].asid][swamp[v].page] = v
  BY <1>1, <1>8 DEF FrameInv, PoolAgrees
<1>10. CASE swamp[v] = NULL
  BY <1>1, <1>2, <1>4, <1>5, <1>7, <1>10, Typed DEF Takes, TakeFrame, Goto
<1>11. CASE swamp[v] # NULL
  <2>1. /\ pc' = [pc EXCEPT ![a] = "writeOut"]
        /\ pte' = [pte EXCEPT ![swamp[v].asid][swamp[v].page] = NULL]
    BY <1>4, <1>11 DEF TakeFrame, Goto, Invalidate
  <2> QED  BY <1>1, <1>2, <1>5, <1>7, <1>9, <1>11, <2>1, Typed DEF Takes
<1> QED  BY <1>10, <1>11

\* The entries of the page tables are those before, but for that one.
LEMMA TakesEntries ==
    ASSUME World, NEW a \in Asid, NEW v, Takes(a, v), NEW x \in Asid, NEW q \in Page
    PROVE  pte'[x][q] = IF swamp[v] = [asid |-> x, page |-> q] THEN NULL ELSE pte[x][q]
<1>1. /\ pte \in [Asid -> [Page -> Frame \cup {NULL}]] /\ v \in Frame
      /\ swamp \in [Frame -> [asid : Asid, page : Page] \cup {NULL}]
  BY Typed DEF World, Takes
<1>2. CASE swamp[v] = NULL
  <2>1. NULL # [asid |-> x, page |-> q]
    BY SizeAssumption
  <2> QED  BY <1>2, <2>1 DEF Takes
<1>3. CASE swamp[v] # NULL
  <2>1. PICK y \in Asid, r \in Page : swamp[v] = [asid |-> y, page |-> r]
    BY <1>1, <1>3
  <2>2. pte' = [pte EXCEPT ![y][r] = NULL]
    BY <1>3, <2>1 DEF Takes
  <2>3. pte'[x][q] = IF <<x, q>> = <<y, r>> THEN NULL ELSE pte[x][q]
    BY <1>1, <2>2
  <2>4. <<x, q>> = <<y, r>> <=> swamp[v] = [asid |-> x, page |-> q]
    BY <2>1
  <2> QED  BY <2>3, <2>4
<1> QED  BY <1>2, <1>3

LEMMA TakesPages == ASSUME World, NEW a \in Asid, NEW v, Takes(a, v) PROVE MemInv'
<1>1. UNCHANGED <<ram, disk, arm, buffer, tapePos, io, swamp, reply>> /\ vic(a)' = v
  BY DEF Takes, storage
<1>2. ASSUME NEW x \in Asid, NEW q \in Page PROVE pte'[x][q] \in {NULL, pte[x][q]}
  BY TakesEntries
<1>3. PagesRight'
  BY <1>1, <1>2 DEF World, MemInv, PagesRight, Versions
<1>4. ASSUME NEW b \in Asid \ {a} PROVE PageRight(b)'
  BY PageKept DEF Takes, World, MemInv
<1>5. PageRight(a)'
  <2>1. CASE swamp[v] = NULL /\ pc'[a] = "mask"
    BY <1>1, <2>1 DEF PageRight, Past, LeavingPlaces
  <2>2. CASE swamp[v] # NULL /\ pc'[a] = "writeOut" /\ pte[swamp[v].asid][swamp[v].page] = v
    <3>1. swamp[v].asid \in Asid /\ swamp[v].page \in Page /\ v # NULL
      BY <2>2, Typed, SizeAssumption DEF World, Takes
    <3>2. ram[v] \in Versions(swamp[v].asid, swamp[v].page)
      BY <2>2, <3>1 DEF World, MemInv, PagesRight
    <3> QED  BY <1>1, <2>2, <3>2 DEF PageRight, Past, LeavingPlaces, Versions
  <2> QED  BY <2>1, <2>2 DEF Takes
<1>6. LoadInv'
  <2>1. pc[a] \notin Loading /\ pc'[a] \notin Loading /\ \A b \in Asid \ {a} : pc'[b] = pc[b]
    BY DEF Takes, PageSame, Same, Loading
  <2>2. ASSUME NEW b \in Asid, NEW p \in Page, pc'[b] \in Loading PROVE pte'[b][p] = NULL
    <3>1. pc[b] \in Loading
      BY <2>1, <2>2
    <3> QED  BY <1>2, <3>1 DEF World, MemInv, LoadInv
  <2>3. CASE \A b \in Asid : pc[b] \notin Loading
    BY <2>1, <2>2, <2>3 DEF LoadInv, Loading
  <2>4. CASE LoneLoader
    <3>1. Asid = {a}
      BY <2>4 DEF LoneLoader, Asid
    <3>2. BlockRight(a)' /\ (Ready(a, "disk"))' /\ (Ready(a, "tape"))'
      BY <1>1, <2>1, <2>4, IdleBlock DEF LoneLoader, Ready
    <3> QED  BY <2>2, <2>4, <3>1, <3>2 DEF LoadInv, LoneLoader, Loading
  <2> QED  BY <2>3, <2>4 DEF World, MemInv, LoadInv
<1> QED  BY <1>3, <1>4, <1>5, <1>6 DEF MemInv

\* The page that loses its entry is found in the frame all the same.
LEMMA TakesStep == ASSUME World, NEW a \in Asid, NEW v, Takes(a, v) PROVE MemStep
<1>1. UNCHANGED <<ram, disk, swamp>> /\ vic(a)' = v /\ \A b \in Asid \ {a} : pc'[b] = pc[b]
  BY DEF Takes, storage, PageSame, Same
<1>2. /\ \A b \in Asid \ {a} : pc[b] \notin LeavingPlaces /\ pc'[b] \notin LeavingPlaces
      /\ pc[a] \notin LeavingPlaces
  BY <1>1, IdlePage DEF Takes, LeavingPlaces
<1>3. ASSUME NEW x \in Asid, NEW q \in Page PROVE ContentOf(x, q)' = ContentOf(x, q)
  <2>1. ContentOf(x, q) = Found(a, x, q) /\ ContentOf(x, q)' = Found(a, x, q)'
    BY <1>2, FoundIs, FoundNext
  <2>2. CASE swamp[v] = [asid |-> x, page |-> q]
    <3>1. swamp[v] # NULL /\ v # NULL
      BY <2>2, SizeAssumption DEF Takes
    <3>2. pte'[x][q] = NULL
      BY <2>2, TakesEntries
    <3>3. pte[swamp[v].asid][swamp[v].page] = v /\ pc'[a] = "writeOut"
      BY <3>1 DEF Takes
    <3>4. pte[x][q] = v
      BY <2>2, <3>3
    <3> QED  BY <1>1, <2>1, <2>2, <3>1, <3>2, <3>3, <3>4 DEF Found, LeavingPlaces
  <2>3. CASE swamp[v] # [asid |-> x, page |-> q]
    BY <1>1, <1>2, <2>1, <2>3, TakesEntries DEF Found
  <2> QED  BY <2>2, <2>3
<1>4. \A x \in Asid : pc'[x] \in Loading <=> pc[x] \in Loading
  BY <1>1 DEF Takes, Loading
<1> QED  BY <1>3, <1>4, Stutters DEF ContentsKept
-----------------------------------------------------------------------------
\* A handler enters the page it has read in, in frame v.
Maps(a, v) ==
    /\ v \in Frame /\ vic(a) = v /\ pc[a] = "update" /\ pc'[a] = "swampUnlock"
    /\ UNCHANGED <<local, storage, reply>>
    /\ swamp' = [swamp EXCEPT ![v] = [asid |-> a, page |-> fault(a).page]]
    /\ pte' = [pte EXCEPT ![a][fault(a).page] = v]
    /\ pte[a][fault(a).page] = NULL /\ ram[v] = disk[fault(a).page][a]
    /\ \A b \in Asid \ {a} : PageSame(b) /\ pc[b] \notin TakenPlaces

LEMMA MapsIs == ASSUME World, NEW a \in Asid, MapPage(a) PROVE Maps(a, vic(a))
<1>1. /\ Inv /\ IOInv /\ MemoryType /\ FrameInv /\ TypeOK
  BY TypeParts DEF World, TypeInv
<1>2. /\ pc[a] = "update" /\ pc' = [pc EXCEPT ![a] = "swampUnlock"]
      /\ UNCHANGED <<local, storage, reply>>
      /\ swamp' = [swamp EXCEPT ![vic(a)] = [asid |-> a, page |-> fault(a).page]]
      /\ pte' = [pte EXCEPT ![a][fault(a).page] = vic(a)]
  BY DEF MapPage, At, Goto, UpdateSwamp, Validate, devices
<1>3. vic(a) \in Frame /\ pc'[a] = "swampUnlock"
  BY <1>1, <1>2, Typed
<1>4. pte[a][fault(a).page] = NULL
  BY <1>1, <1>2 DEF FrameInv, FaultStands, Inside, FaultPlaces, SwampPlaces
<1>5. ram[vic(a)] = disk[fault(a).page][a]
  BY <1>2 DEF World, MemInv, PageRight, Past
<1>6. \A b \in Asid \ {a} : pc[b] \notin TakenPlaces
  BY <1>1, <1>2, TakenAlone DEF FrameInv, TakenPlaces, SwampPlaces
<1>7. \A b \in Asid \ {a} : PageSame(b)
  BY <1>1, <1>6, MapPageRight DEF FrameInv, PageSame
<1> QED  BY <1>2, <1>3, <1>4, <1>5, <1>6, <1>7 DEF Maps

LEMMA MapsStep == ASSUME World, NEW a \in Asid, NEW v, Maps(a, v) PROVE MemInv' /\ MemStep
<1>1. PICK p \in Page : p = fault(a).page
  BY Typed DEF World
<1>2. /\ UNCHANGED <<ram, disk, arm>> /\ pc[a] = "update" /\ pc'[a] = "swampUnlock"
      /\ pte' = [pte EXCEPT ![a][p] = v] /\ pte[a][p] = NULL /\ ram[v] = disk[p][a]
      /\ \A b \in Asid \ {a} : PageSame(b) /\ pc[b] \notin TakenPlaces /\ pc'[b] = pc[b]
  BY <1>1 DEF Maps, storage, PageSame, Same
<1>3. ASSUME NEW x \in Asid, NEW q \in Page
      PROVE  pte'[x][q] = IF <<x, q>> = <<a, p>> THEN v ELSE pte[x][q]
  BY <1>2, Typed DEF World
<1>4. pc[a] \notin Loading /\ pc'[a] \notin Loading /\ pc[a] \notin LeavingPlaces
      /\ pc'[a] \notin LeavingPlaces /\ pc'[a] \notin TakenPlaces
  BY <1>2 DEF Loading, LeavingPlaces, TakenPlaces
<1>5. PagesRight'
  <2>1. ASSUME NEW x \in Asid, NEW q \in Page, pte'[x][q] # NULL
        PROVE  ram[pte'[x][q]] \in Versions(x, q)
    BY <1>2, <1>3, <2>1 DEF World, MemInv, PagesRight
  <2> QED  BY <1>2, <2>1 DEF World, MemInv, PagesRight, Versions
<1>6. \A b \in Asid : PageRight(b)'
  <2>1. PageRight(a)'
    BY <1>4 DEF PageRight, TakenPlaces, SwampPlaces, LeavingPlaces, Past
  <2> QED  BY <1>2, <2>1, PageKept DEF World, MemInv
<1>7. LoadInv'
  <2>1. ASSUME NEW b \in Asid, NEW q \in Page, pc'[b] \in Loading PROVE pte'[b][q] = NULL
    <3>1. b # a /\ pc[b] \in Loading
      BY <1>2, <1>4, <2>1
    <3> QED  BY <1>3, <3>1 DEF World, MemInv, LoadInv
  <2>2. CASE \A b \in Asid : pc[b] \notin Loading
    BY <1>2, <1>4, <2>1, <2>2 DEF LoadInv, Loading
  <2>3. CASE LoneLoader
    <3>1. Asid = {a}
      BY <2>3 DEF LoneLoader, Asid
    <3>2. BlockRight(a)' /\ (Ready(a, "disk"))' /\ (Ready(a, "tape"))'
      BY <1>4, <2>3, IdleBlock DEF LoneLoader, Ready, Maps
    <3> QED  BY <2>1, <2>3, <3>1, <3>2 DEF LoadInv, LoneLoader, Loading
  <2> QED  BY <2>2, <2>3 DEF World, MemInv, LoadInv
<1>8. ASSUME NEW x \in Asid, NEW q \in Page PROVE ContentOf(x, q)' = ContentOf(x, q)
  <2>1. /\ \A b \in Asid \ {a} : pc[b] \notin LeavingPlaces
        /\ \A b \in Asid \ {a} : pc'[b] \notin LeavingPlaces
    BY <1>2, IdlePage
  <2>2. ContentOf(x, q) = Found(a, x, q) /\ ContentOf(x, q)' = Found(a, x, q)'
    BY <2>1, FoundIs, FoundNext
  <2>3. v # NULL
    BY SizeAssumption DEF Maps
  <2> QED  BY <1>2, <1>3, <1>4, <2>2, <2>3 DEF Found, LeavingPlaces
<1>9. \A x \in Asid : pc'[x] \in Loading <=> pc[x] \in Loading
  BY <1>2, <1>4
<1> QED  BY <1>5, <1>6, <1>7, <1>8, <1>9, Stutters DEF MemInv, ContentsKept
-----------------------------------------------------------------------------
\* A program stores to its page p, which is in frame f.
Stores(a, p, f) ==
    /\ f \in Frame /\ pte[a][p] = f /\ f \notin Taken /\ pc[a] = "user"
    /\ ram[f].version < MaxVersion
    /\ ram' = [ram EXCEPT ![f] = Content(a, p, ram[f].version + 1)]
    /\ UNCHANGED <<pc, pte, disk>>
    /\ \A b \in Asid : PageSame(b)

LEMMA StoresIs ==
    ASSUME World, NEW a \in Asid, NEW p \in Page, Store(a, p) PROVE \E f \in Frame : Stores(a, p, f)
<1>1. /\ Inv /\ IOInv /\ MemoryType /\ PoolAgrees
  BY TypeParts DEF World, TypeInv, FrameInv
<1>2. PICK f \in Frame :
        /\ <<a, p, f>> \in tlb /\ ram[f].version < MaxVersion
        /\ ram' = [ram EXCEPT ![f] = Content(a, p, ram[f].version + 1)]
  BY <1>1 DEF Store, MemoryType
<1>3. pc[a] = "user" /\ UNCHANGED <<pc, pte, disk, arm>>
  BY DEF Store, At, paging
<1>4. pte[a][p] = f
  BY <1>1, <1>2 DEF PoolAgrees, Cleared
<1>5. f \notin Taken
  <2>1. f # NULL
    BY SizeAssumption
  <2> QED  BY <1>1, <1>4, <2>1 DEF PoolAgrees
<1>6. ASSUME NEW b \in Asid PROVE PageSame(b)
  <2>1. pc[b] \in TakenPlaces => vic(b) # f
    BY <1>5 DEF Taken, Inside
  <2>2. pc[b] \in TakenPlaces => ram'[vic(b)] = ram[vic(b)]
    BY <1>1, <1>2, <2>1, Typed DEF MemoryType
  <2> QED  BY <1>1, <1>3, <2>2, StoreRight DEF PageSame
<1> QED  BY <1>2, <1>3, <1>4, <1>5, <1>6 DEF Stores

LEMMA StoresFacts ==
    ASSUME World, NEW a \in Asid, NEW p \in Page, NEW f \in Frame, Stores(a, p, f)
    PROVE  /\ ram[f].version \in Nat /\ VersionOf(a, p) = ram[f].version
           /\ ram'[f] = Content(a, p, ram[f].version + 1)
           /\ ram'[f] \in Versions(a, p)
           /\ \A g \in Frame \ {f} : ram'[g] = ram[g]
           /\ \A x \in Asid, q \in Page : <<x, q>> # <<a, p>> => pte[x][q] # f
<1>1. DOMAIN ram = Frame /\ f # NULL
  BY TypeParts, SizeAssumption DEF World, TypeInv, MemoryType
<1>2. ram[f] \in Versions(a, p)
  BY <1>1 DEF Stores, World, MemInv, PagesRight
<1>3. ram[f].version \in 0 .. MaxVersion /\ MaxVersion \in Nat
  BY <1>2, SizeAssumption DEF Versions, Blank, Content
<1>4. ram[f].version + 1 \in 1 .. MaxVersion
  BY <1>3 DEF Stores
<1>5. ram'[f] = Content(a, p, ram[f].version + 1) /\ \A g \in Frame \ {f} : ram'[g] = ram[g]
  BY <1>1 DEF Stores
<1>6. ContentOf(a, p) = ram[f]
  BY <1>1 DEF ContentOf, Stores
<1>7. VersionOf(a, p) = ram[f].version
  BY <1>6, ContentRight DEF World
<1>8. ASSUME NEW x \in Asid, NEW q \in Page, pte[x][q] = f PROVE <<x, q>> = <<a, p>>
  <2>1. swamp[f] = [asid |-> x, page |-> q] /\ swamp[f] = [asid |-> a, page |-> p]
    BY <1>1, <1>8 DEF World, FrameInv, PoolAgrees, Stores
  <2>2. x = swamp[f].asid /\ a = swamp[f].asid /\ q = swamp[f].page /\ p = swamp[f].page
    BY <2>1
  <2> QED  BY <2>2
<1> QED  BY <1>3, <1>4, <1>5, <1>7, <1>8 DEF Versions

LEMMA StoresStep ==
    ASSUME World, NEW a \in Asid, NEW p \in Page, NEW f \in Frame, Stores(a, p, f)
    PROVE  MemInv' /\ MemStep
<1>1. UNCHANGED <<pc, pte, disk>> /\ (\A b \in Asid : PageSame(b)) /\ pte[a][p] = f /\ f # NULL
  BY SizeAssumption DEF Stores
<1>2. PagesRight'
  <2>1. ASSUME NEW x \in Asid, NEW q \in Page, pte[x][q] # NULL
        PROVE  ram'[pte[x][q]] \in Versions(x, q)
    <3>1. CASE <<x, q>> = <<a, p>>
      BY <1>1, <3>1, StoresFacts
    <3>2. CASE <<x, q>> # <<a, p>>
      <4>1. pte[x][q] \in Frame \ {f}
        BY <2>1, <3>2, StoresFacts, Typed DEF World
      <4> QED  BY <2>1, <4>1, StoresFacts DEF World, MemInv, PagesRight
    <3> QED  BY <3>1, <3>2
  <2> QED  BY <1>1, <2>1 DEF World, MemInv, PagesRight, Versions
<1>3. \A b \in Asid : PageRight(b)'
  BY <1>1, PageKept DEF World, MemInv
<1>4. LoadInv'
  <2>1. pc[a] \notin Loading
    BY DEF Stores, Loading
  <2>2. CASE \A b \in Asid : pc[b] \notin Loading
    BY <1>1, <2>2 DEF LoadInv, Loading
  <2>3. CASE LoneLoader
    <3>1. Asid = {a}
      BY <2>3 DEF LoneLoader, Asid
    <3>2. BlockRight(a)' /\ (Ready(a, "disk"))' /\ (Ready(a, "tape"))'
      BY <1>1, <2>1, <2>3, IdleBlock DEF LoneLoader, Ready, PageSame, Same
    <3> QED  BY <1>1, <2>1, <2>3, <3>1, <3>2 DEF LoadInv, LoneLoader, Loading
  <2> QED  BY <2>2, <2>3 DEF World, MemInv, LoadInv
<1>5. ASSUME NEW x \in Asid, NEW q \in Page, <<x, q>> # <<a, p>>
      PROVE  ContentOf(x, q)' = ContentOf(x, q)
  <2>1. \A b \in Asid : pc'[b] = pc[b] /\ vic(b)' = vic(b)
    BY <1>1 DEF PageSame, Same, vic
  <2>2. \A b \in Inside(LeavingPlaces) : swamp'[vic(b)] = swamp[vic(b)] /\ ram'[vic(b)] = ram[vic(b)]
    BY <1>1, IdlePage DEF PageSame, Same, Inside
  <2>3. pte[x][q] # NULL => pte[x][q] \in Frame \ {f}
    BY <1>5, StoresFacts, Typed DEF World
  <2>4. pte[x][q] # NULL => ram'[pte[x][q]] = ram[pte[x][q]]
    BY <2>3, StoresFacts
  <2> QED  BY <1>1, <2>1, <2>2, <2>4, LeaversSame
<1>6. PICK n : n = ram[f].version + 1
  OBVIOUS
<1>7. VersionOf(a, p)' = n
  <2>1. ContentOf(a, p)' = Content(a, p, n)
    BY <1>1, <1>6, StoresFacts DEF ContentOf
  <2> QED  BY <2>1 DEF VersionOf, Content
<1> DEFINE mem == [x \in Asid |-> [q \in Page |-> VersionOf(x, q)]]
           started == {x \in Asid : pc[x] \notin Loading}
<1>8. mem' = [mem EXCEPT ![a][p] = n] /\ UNCHANGED started
  <2>1. \A x \in Asid, q \in Page : <<x, q>> # <<a, p>> => ContentOf(x, q)' = ContentOf(x, q)
    BY <1>5
  <2>2. UNCHANGED pc
    BY <1>1
  <2> QED  BY <1>7, <2>1, <2>2, Changes
<1>9. mem[a][p] + 1 = n /\ a \in started
  BY <1>6, StoresFacts DEF Stores, Loading
<1>10. Memory!Store(a, p)
  BY <1>8, <1>9 DEF Memory!Store
<1>11. MemStep
  BY <1>10 DEF MemStep, Memory!Next
<1> QED  BY <1>2, <1>3, <1>4, <1>11 DEF MemInv
-----------------------------------------------------------------------------
\* The pager does not look at the status of a write or a read.
MovesWork == {"write", "read"} \cap DeviceErrors = {}

\* A command ends: what every case needs.
LEMMA EndsAround ==
    ASSUME World, NEW a \in Asid, NEW ok \in BOOLEAN, Ends(a, ok)
    PROVE  /\ UNCHANGED <<pc, io, local, swamp, pte>> /\ pc[a] \in IOPlaces
           /\ vic(a)' = vic(a) /\ fault(a)' = fault(a) /\ currentPage(a)' = currentPage(a)
           /\ ~Finished(a) /\ Finished(a)'
           /\ IF ok THEN Carried(a) ELSE UNCHANGED storage
           /\ \A b \in Asid \ {a} : Same(b)
           /\ reply'[a][DeviceOf(a)[1]] = ok
           /\ \A line \in {"disk", "tape"} : line # DeviceOf(a)[1] => reply'[a][line] = reply[a][line]
<1>1. Inv /\ IOInv /\ MemoryType
  BY TypeParts DEF World, TypeInv
<1>2. /\ UNCHANGED <<pc, io, local, swamp, pte>> /\ pc[a] \in IOPlaces
      /\ io[a] = "done" /\ busy[DeviceOf(a)] # NULL /\ busy'[DeviceOf(a)] = NULL
      /\ reply'[a][DeviceOf(a)[1]] = ok /\ DeviceOf(a)' = DeviceOf(a)
  BY <1>1, EndsFacts DEF Ends, DeviceOf
<1>3. ~Finished(a) /\ Finished(a)'
  BY <1>2 DEF Finished
<1>4. ASSUME NEW line \in {"disk", "tape"}, line # DeviceOf(a)[1]
      PROVE  reply'[a][line] = reply[a][line]
  <2>1. reply' = [reply EXCEPT ![a][DeviceOf(a)[1]] = ok]
    BY DEF Ends
  <2>2. PICK l : l = DeviceOf(a)[1] /\ l \in {"disk", "tape", "printer", "terminal"}
    BY <1>2, LineOf
  <2> QED  BY <1>1, <1>4, <2>1, <2>2 DEF MemoryType
<1> QED  BY <1>1, <1>2, <1>3, <1>4, EndsIs, EndsOthers DEF vic, fault, currentPage

\* Where the pager gives a command.
PagerIO == {"outSeek", "outWrite", "inSeek", "inRead"}

\* What it was for, and with which status it ends.
LEMMA PagerEnds ==
    ASSUME World, MovesWork, NEW a \in Asid, NEW ok \in BOOLEAN, Ends(a, ok), pc[a] \in PagerIO
    PROVE  /\ pc[a] \in TakenPlaces /\ \A b \in Asid \ {a} : pc[b] \notin TakenPlaces
           /\ pc[a] \in {"outWrite", "inRead"} => ok
           /\ (DeviceErrors \subseteq {"char"} => ok) /\ (Ready(a, "disk"))' = ok
           /\ pc[a] \in {"outSeek", "outWrite"} =>
                 /\ swamp[vic(a)] # NULL
                 /\ ram[vic(a)] \in Versions(swamp[vic(a)].asid, swamp[vic(a)].page)
           /\ pc[a] = "outWrite" => arm = swamp[vic(a)].page
           /\ pc[a] = "inRead" => arm = fault(a).page
           /\ \A x \in Asid, q \in Page : pte[x][q] # vic(a)
<1>1. pc[a] \in TakenPlaces
  BY DEF PagerIO, TakenPlaces, SwampPlaces
<1>2. \A b \in Asid \ {a} : pc[b] \notin TakenPlaces
  BY <1>1, TakenAlone DEF World, FrameInv
<1>3. CommandOf(a).op \in {"seek", "write", "read"}
      /\ (pc[a] \in {"outWrite", "inRead"} => CommandOf(a).op \in {"write", "read"})
  BY DEF CommandOf, PagerIO, Seek, WriteBlk, ReadBlk
<1>4. ok \/ CommandOf(a).op \in DeviceErrors
  BY DEF Ends
<1>5. /\ pc[a] \in {"outWrite", "inRead"} => ok
      /\ DeviceErrors \subseteq {"char"} => ok
  BY <1>3, <1>4 DEF MovesWork
<1>6. (Ready(a, "disk"))' = ok
  BY EndsAround, LineOf DEF PagerIO, Ready
<1>7. pc[a] \in {"outSeek", "outWrite"} =>
        /\ swamp[vic(a)] # NULL
        /\ ram[vic(a)] \in Versions(swamp[vic(a)].asid, swamp[vic(a)].page)
  BY DEF World, TypeInv, OutRight, MemInv, PageRight, LeavingPlaces
<1>8. /\ pc[a] = "outWrite" => arm = swamp[vic(a)].page
      /\ pc[a] = "inRead" => arm = fault(a).page
  BY DEF World, MemInv, PageRight, Past
<1>9. \A x \in Asid, q \in Page : pte[x][q] # vic(a)
  <2>1. vic(a) \in Taken /\ vic(a) # NULL
    BY <1>1, Typed, SizeAssumption DEF World, Taken, Inside
  <2> QED  BY <2>1 DEF World, FrameInv, PoolAgrees
<1> QED  BY <1>1, <1>2, <1>5, <1>6, <1>7, <1>8, <1>9

\* What it does to the disk and the frames.
LEMMA PagerMoves ==
    ASSUME World, MovesWork, NEW a \in Asid, NEW ok \in BOOLEAN, Ends(a, ok), pc[a] \in PagerIO
    PROVE  \/ /\ UNCHANGED <<ram, disk>> /\ (pc[a] \in {"outSeek", "inSeek"})
              /\ ok => arm' = IF pc[a] = "outSeek" THEN swamp[vic(a)].page ELSE fault(a).page
           \/ /\ pc[a] = "outWrite" /\ UNCHANGED <<ram, arm>>
              /\ \A x \in Asid, q \in Page :
                    disk'[q][x] = IF swamp[vic(a)] = [asid |-> x, page |-> q] THEN ram[vic(a)]
                                  ELSE disk[q][x]
           \/ /\ pc[a] = "inRead" /\ UNCHANGED <<disk, arm>>
              /\ ram'[vic(a)] = disk[fault(a).page][a]
              /\ \A f \in Frame : f # vic(a) => ram'[f] = ram[f]
<1>1. MemoryType /\ IF ok THEN Carried(a) ELSE UNCHANGED storage
  BY EndsAround, TypeParts DEF World, TypeInv
<1>2. CASE pc[a] \in {"outSeek", "inSeek"}
  BY <1>1, <1>2 DEF Carried, storage
<1>3. CASE pc[a] = "outWrite"
  <2>1. ok /\ swamp[vic(a)] # NULL /\ arm = swamp[vic(a)].page
    BY <1>3, PagerEnds
  <2>2. PICK y \in Asid, r \in Page : swamp[vic(a)] = [asid |-> y, page |-> r]
    BY <2>1, Typed DEF World
  <2>3. disk' = [disk EXCEPT ![r][y] = ram[vic(a)]] /\ UNCHANGED <<ram, arm>>
    BY <1>1, <1>3, <2>1, <2>2 DEF Carried
  <2>4. ASSUME NEW x \in Asid, NEW q \in Page
        PROVE  disk'[q][x] = IF <<x, q>> = <<y, r>> THEN ram[vic(a)] ELSE disk[q][x]
    BY <1>1, <2>1, <2>3 DEF MemoryType
  <2>5. ASSUME NEW x \in Asid, NEW q \in Page
        PROVE  <<x, q>> = <<y, r>> <=> swamp[vic(a)] = [asid |-> x, page |-> q]
    BY <2>2
  <2> QED  BY <1>3, <2>3, <2>4, <2>5
<1>4. CASE pc[a] = "inRead"
  <2>1. ok /\ arm = fault(a).page /\ vic(a) \in Frame
    BY <1>4, PagerEnds, Typed DEF World
  <2>2. ram' = [ram EXCEPT ![vic(a)] = disk[fault(a).page][a]] /\ UNCHANGED <<disk, arm>>
    BY <1>1, <1>4, <2>1 DEF Carried
  <2> QED  BY <1>1, <1>4, <2>1, <2>2 DEF MemoryType
<1> QED  BY <1>2, <1>3, <1>4 DEF PagerIO

\* Afterwards the arm is where it was sent, or the page where it was moved to.
LEMMA PagerPage ==
    ASSUME World, MovesWork, NEW a \in Asid, NEW ok \in BOOLEAN, Ends(a, ok), pc[a] \in PagerIO
    PROVE  PageRight(a)'
<1>1. /\ UNCHANGED <<pc, swamp>> /\ vic(a)' = vic(a) /\ fault(a)' = fault(a)
      /\ Finished(a)' /\ ~Finished(a) /\ (Ready(a, "disk"))' = ok /\ PageRight(a)
  BY EndsAround, PagerEnds DEF World, MemInv
<1>2. PICK s : s = swamp[vic(a)]
  OBVIOUS
<1>3. s # NULL => s \in [asid : Asid, page : Page]
  BY <1>2, Typed DEF World
<1>4. CASE pc[a] \in {"outSeek", "inSeek"}
  <2>1. UNCHANGED <<ram, disk>> /\ (ok => arm' = IF pc[a] = "outSeek" THEN s.page ELSE fault(a).page)
    BY <1>2, <1>4, PagerMoves
  <2> QED  BY <1>1, <1>2, <1>4, <2>1 DEF PageRight, Past, LeavingPlaces, Versions
<1>5. CASE pc[a] = "outWrite"
  <2>1. /\ UNCHANGED <<ram, arm>> /\ s # NULL /\ arm = s.page
        /\ ram[vic(a)] \in Versions(s.asid, s.page)
    BY <1>2, <1>5, PagerMoves, PagerEnds
  <2>2. disk'[s.page][s.asid] = ram[vic(a)]
    <3>1. s = [asid |-> s.asid, page |-> s.page]
      BY <1>3, <2>1
    <3> QED  BY <1>2, <1>3, <1>5, <2>1, <3>1, PagerMoves
  <2> QED  BY <1>1, <1>2, <1>5, <2>1, <2>2 DEF PageRight, Past, LeavingPlaces, Versions
<1>6. CASE pc[a] = "inRead"
  <2>1. UNCHANGED <<disk, arm>> /\ arm = fault(a).page /\ ram'[vic(a)] = disk[fault(a).page][a]
    BY <1>6, PagerMoves, PagerEnds
  <2> QED  BY <1>1, <1>2, <1>6, <2>1 DEF PageRight, Past, LeavingPlaces
<1> QED  BY <1>4, <1>5, <1>6 DEF PagerIO

LEMMA PagerStep ==
    ASSUME World, MovesWork, NEW a \in Asid, NEW ok \in BOOLEAN, Ends(a, ok), pc[a] \in PagerIO
    PROVE  MemInv' /\ MemStep
<1>1. /\ UNCHANGED <<pc, swamp, pte>> /\ vic(a)' = vic(a) /\ fault(a)' = fault(a)
      /\ \A b \in Asid \ {a} : pc[b] \notin TakenPlaces /\ Same(b)
      /\ \A x \in Asid, q \in Page : pte[x][q] # vic(a)
      /\ pte \in [Asid -> [Page -> Frame \cup {NULL}]]
  BY EndsAround, PagerEnds, Typed DEF World
<1>2. ASSUME NEW x \in Asid, NEW q \in Page, pte[x][q] # NULL PROVE ram'[pte[x][q]] = ram[pte[x][q]]
  <2>1. pte[x][q] \in Frame /\ pte[x][q] # vic(a)
    BY <1>1, <1>2
  <2> QED  BY <2>1, PagerMoves
<1>3. ASSUME NEW x \in Asid, NEW q \in Page PROVE disk'[q][x] \in Versions(x, q)
  <2>1. disk[q][x] \in Versions(x, q)
    BY DEF World, MemInv, PagesRight
  <2>2. CASE disk' # disk
    <3>1. pc[a] = "outWrite"
      BY <2>2, PagerMoves
    <3>2. CASE swamp[vic(a)] = [asid |-> x, page |-> q]
      BY <3>1, <3>2, PagerMoves, PagerEnds
    <3>3. CASE swamp[vic(a)] # [asid |-> x, page |-> q]
      BY <2>1, <3>1, <3>3, PagerMoves
    <3> QED  BY <3>2, <3>3
  <2> QED  BY <2>1, <2>2
<1>4. PagesRight'
  BY <1>1, <1>2, <1>3 DEF World, MemInv, PagesRight, Versions
<1>5. \A b \in Asid : PageRight(b)'
  <2>1. ASSUME NEW b \in Asid \ {a} PROVE PageRight(b)'
    BY <1>1, PageKept DEF PageSame, World, MemInv
  <2> QED  BY <2>1, PagerPage
<1>6. LoadInv'
  <2>1. pc[a] \notin Loading
    BY DEF PagerIO, Loading
  <2>2. \A b \in Asid : pc'[b] \in Loading => \A q \in Page : pte'[b][q] = NULL
    BY <1>1 DEF World, MemInv, LoadInv
  <2>3. CASE \A b \in Asid : pc[b] \notin Loading
    BY <1>1, <2>2, <2>3 DEF LoadInv, Loading
  <2>4. CASE LoneLoader
    <3>1. Asid = {a}
      BY <2>4 DEF LoneLoader, Asid
    <3>2. ok /\ reply'[a]["tape"] = reply[a]["tape"]
      BY <2>4, EndsAround, PagerEnds, LineOf DEF PagerIO, LoneLoader
    <3>3. BlockRight(a)' /\ (Ready(a, "disk"))' /\ (Ready(a, "tape"))'
      BY <1>1, <2>1, <2>4, <3>1, <3>2, IdleBlock, PagerEnds DEF LoneLoader, Ready
    <3> QED  BY <2>2, <2>4, <3>1, <3>3 DEF LoadInv, LoneLoader, Loading
  <2> QED  BY <2>3, <2>4 DEF World, MemInv, LoadInv
<1>7. ASSUME NEW x \in Asid, NEW q \in Page PROVE ContentOf(x, q)' = ContentOf(x, q)
  <2>1. /\ \A b \in Asid \ {a} : pc[b] \notin LeavingPlaces
        /\ \A b \in Asid \ {a} : pc'[b] \notin LeavingPlaces
    BY <1>1, IdlePage
  <2>2. ContentOf(x, q) = Found(a, x, q) /\ ContentOf(x, q)' = Found(a, x, q)'
    BY <2>1, FoundIs, FoundNext
  <2>3. /\ pc[a] \in LeavingPlaces => ram'[vic(a)] = ram[vic(a)]
        /\ disk'[q][x] = disk[q][x] \/ (pc[a] \in LeavingPlaces /\ swamp[vic(a)] = [asid |-> x, page |-> q])
    BY PagerMoves DEF LeavingPlaces
  <2> QED  BY <1>1, <1>2, <2>2, <2>3 DEF Found, LeavingPlaces
<1>8. MemStep
  BY <1>1, <1>7, Stutters DEF ContentsKept
<1> QED  BY <1>4, <1>5, <1>6, <1>8 DEF MemInv
-----------------------------------------------------------------------------
\* A character has been sent: nothing about memory happens.
LEMMA CharStep ==
    ASSUME World, NEW a \in Asid, NEW ok \in BOOLEAN, Ends(a, ok), pc[a] \in {"printChar", "typeChar"}
    PROVE  MemInv' /\ MemStep
<1>1. UNCHANGED <<pc, io, local, swamp, pte, storage>> /\ \A b \in Asid \ {a} : PageSame(b)
  BY EndsAround DEF Carried, PageSame, storage
<1>2. pc[a] \notin Loading /\ pc[a] \notin TakenPlaces
  BY DEF Loading, TakenPlaces, SwampPlaces
<1>3. PagesRight'
  BY <1>1 DEF World, MemInv, PagesRight, Versions, storage
<1>4. \A b \in Asid : PageRight(b)'
  <2>1. PageRight(a)'
    BY <1>1, <1>2 DEF PageRight, TakenPlaces, SwampPlaces, LeavingPlaces, Past
  <2> QED  BY <1>1, <2>1, PageKept DEF World, MemInv
<1>5. LoadInv'
  <2>1. CASE \A b \in Asid : pc[b] \notin Loading
    BY <1>1, <2>1 DEF World, MemInv, LoadInv, Loading
  <2>2. CASE LoneLoader
    <3>1. Asid = {a}
      BY <2>2 DEF LoneLoader, Asid
    <3>2. DeviceOf(a)[1] \notin {"disk", "tape"}
      BY DEF DeviceOf, Printer, Terminal
    <3>3. \A line \in {"disk", "tape"} : reply'[a][line] = reply[a][line]
      BY <3>2, EndsAround
    <3>4. BlockRight(a)' /\ (Ready(a, "disk"))' /\ (Ready(a, "tape"))'
      BY <1>1, <1>2, <2>2, <3>3, IdleBlock DEF LoneLoader, Ready
    <3> QED  BY <1>1, <2>2, <3>1, <3>4 DEF World, MemInv, LoadInv, LoneLoader, Loading
  <2> QED  BY <2>1, <2>2 DEF World, MemInv, LoadInv
<1>6. ContentsKept
  <2>1. \A b \in Asid : pc'[b] = pc[b] /\ vic(b)' = vic(b)
    BY <1>1 DEF vic
  <2>2. UNCHANGED <<ram, disk>>
    BY <1>1 DEF storage
  <2> QED  BY <1>1, <2>1, <2>2, LeaversSame DEF ContentsKept
<1>7. MemStep
  BY <1>1, <1>6, Stutters
<1> QED  BY <1>3, <1>4, <1>5, <1>7 DEF MemInv
-----------------------------------------------------------------------------
\* A command of readAndStore() ends; the one process there is gave it.
LoaderIO == {"tape", "seek", "store"}

LEMMA LoaderEnds ==
    ASSUME World, NEW a \in Asid, NEW ok \in BOOLEAN, Ends(a, ok), pc[a] \in LoaderIO
    PROVE  /\ ok = TRUE /\ Asid = {a} /\ LoneLoader /\ BlockRight(a) /\ CopyRight(a)
           /\ pc[a] \in CopyPlaces /\ pc[a] \in Loading /\ pc[a] \notin TakenPlaces
           /\ \A p \in Page : pte[a][p] = NULL
           /\ currentPage(a) \in Page /\ currentPage(a) < Blocks[a]
<1>1. pc[a] \in CopyPlaces /\ pc[a] \in Loading /\ pc[a] \notin TakenPlaces
  BY DEF LoaderIO, CopyPlaces, Loading, TakenPlaces, SwampPlaces
<1>2. /\ Asid = {a} /\ LoneLoader /\ DeviceErrors \subseteq {"char"}
      /\ \A p \in Page : pte[a][p] = NULL
  BY <1>1, LoadersAlone DEF World
<1>3. ok = TRUE
  <2>1. CommandOf(a).op # "char"
    BY DEF LoaderIO, CommandOf, Seek, WriteBuffer
  <2> QED  BY <1>2, <2>1 DEF Ends
<1>4. CopyRight(a) /\ BlockRight(a)
  BY <1>2 DEF World, TypeInv, LoneLoader
<1>5. currentPage(a) \in Page /\ currentPage(a) < Blocks[a]
  BY <1>1, <1>4, CopyFacts DEF World, Inv, CopyRight
<1> QED  BY <1>1, <1>2, <1>3, <1>4, <1>5

\* What it has done to the storage.
LEMMA LoaderMoves ==
    ASSUME World, NEW a \in Asid, NEW ok \in BOOLEAN, Ends(a, ok), pc[a] \in LoaderIO
    PROVE  /\ ram' = ram /\ (pc[a] # "store" => disk' = disk)
           /\ pc[a] = "tape" => buffer'[a] = Content(a, currentPage(a), 1)
           /\ pc[a] = "seek" => arm' = currentPage(a) /\ buffer' = buffer
           /\ pc[a] = "store" =>
                 /\ arm = currentPage(a) /\ UNCHANGED <<arm, buffer>>
                 /\ \A q \in Page : disk'[q][a] = IF q = currentPage(a)
                                                  THEN Content(a, currentPage(a), 1) ELSE disk[q][a]
<1>1. MemoryType /\ Carried(a)
  BY EndsAround, LoaderEnds, TypeParts DEF World, TypeInv
<1>2. CASE pc[a] = "tape"
  <2>1. tapePos[a] = currentPage(a)
    BY <1>2, LoaderEnds, EndsAround DEF CopyRight, Past
  <2>2. UNCHANGED <<ram, disk>> /\ buffer' = [buffer EXCEPT ![a] = Content(a, currentPage(a), 1)]
    BY <1>1, <1>2, <2>1 DEF Carried
  <2> QED  BY <1>1, <1>2, <2>2 DEF MemoryType
<1>3. CASE pc[a] = "seek"
  BY <1>1, <1>3 DEF Carried
<1>4. CASE pc[a] = "store"
  <2>1. arm = currentPage(a) /\ buffer[a] = Content(a, currentPage(a), 1)
    BY <1>4, LoaderEnds DEF BlockRight, Past
  <2>2. UNCHANGED <<ram, arm, buffer>> /\ disk' = [disk EXCEPT ![arm][a] = buffer[a]]
    BY <1>1, <1>4 DEF Carried
  <2>3. PICK c \in Page : c = currentPage(a)
    BY LoaderEnds
  <2>4. disk' = [disk EXCEPT ![c][a] = Content(a, c, 1)]
    BY <2>1, <2>2, <2>3
  <2>5. \A q \in Page : disk'[q][a] = IF q = c THEN Content(a, c, 1) ELSE disk[q][a]
    BY <1>1, <2>4 DEF MemoryType
  <2> QED  BY <1>4, <2>1, <2>2, <2>3, <2>5
<1> QED  BY <1>2, <1>3, <1>4 DEF LoaderIO

LEMMA LoaderBlock ==
    ASSUME World, NEW a \in Asid, NEW ok \in BOOLEAN, Ends(a, ok), pc[a] \in LoaderIO
    PROVE  BlockRight(a)'
<1>1. PICK c \in Page : c = currentPage(a)
  BY LoaderEnds
<1>2. /\ UNCHANGED pc /\ currentPage(a)' = c /\ pc[a] \in CopyPlaces
      /\ \A p \in Page : p < c => Copied(a, p)
  BY <1>1, EndsAround, LoaderEnds DEF BlockRight
<1>3. CASE pc[a] = "tape"
  <2>1. disk' = disk /\ buffer'[a] = Content(a, c, 1)
    BY <1>1, <1>3, LoaderMoves
  <2> QED  BY <1>2, <1>3, <2>1 DEF BlockRight, Past, Copied
<1>4. CASE pc[a] = "seek"
  <2>1. disk' = disk /\ arm' = c /\ buffer' = buffer /\ buffer[a] = Content(a, c, 1)
    BY <1>1, <1>4, LoaderMoves, LoaderEnds DEF BlockRight, Past
  <2> QED  BY <1>2, <1>4, <2>1 DEF BlockRight, Past, Copied
<1>5. CASE pc[a] = "store"
  <2>1. /\ arm = c /\ UNCHANGED <<arm, buffer>> /\ buffer[a] = Content(a, c, 1)
        /\ \A q \in Page : disk'[q][a] = IF q = c THEN Content(a, c, 1) ELSE disk[q][a]
    BY <1>1, <1>5, LoaderMoves, LoaderEnds DEF BlockRight, Past
  <2>2. \A p \in Page : p < c => disk'[p][a] = Content(a, p, 1)
    <3>1. \A p \in Page : p < c => p # c
      BY SizeAssumption DEF Page
    <3> QED  BY <1>2, <2>1, <3>1 DEF Copied
  <2> QED  BY <1>2, <1>5, <2>1, <2>2 DEF BlockRight, Past, Copied
<1> QED  BY <1>3, <1>4, <1>5 DEF LoaderIO

LEMMA LoaderInv ==
    ASSUME World, NEW a \in Asid, NEW ok \in BOOLEAN, Ends(a, ok), pc[a] \in LoaderIO
    PROVE  MemInv'
<1>1. /\ UNCHANGED <<pc, pte>> /\ Asid = {a} /\ ram' = ram /\ pc[a] \notin TakenPlaces
      /\ \A p \in Page : pte[a][p] = NULL
  BY EndsAround, LoaderEnds, LoaderMoves
<1>2. PagesRight'
  <2>1. ASSUME NEW q \in Page PROVE disk'[q][a] \in Versions(a, q)
    <3>1. disk[q][a] \in Versions(a, q)
      BY DEF World, MemInv, PagesRight
    <3>2. Content(a, q, 1) \in Versions(a, q)
      BY SizeAssumption DEF Versions
    <3>3. disk'[q][a] \in {disk[q][a], Content(a, q, 1)}
      BY LoaderMoves DEF LoaderIO
    <3> QED  BY <3>1, <3>2, <3>3
  <2> QED  BY <1>1, <2>1 DEF PagesRight, Versions
<1>3. \A b \in Asid : PageRight(b)'
  <2>1. PageRight(a)'
    BY <1>1 DEF PageRight, TakenPlaces, SwampPlaces, LeavingPlaces, Past
  <2> QED  BY <1>1, <2>1
<1>4. LoadInv'
  <2>1. (Ready(a, "disk"))' /\ (Ready(a, "tape"))'
    <3>1. \A line \in {"disk", "tape"} : reply[a][line] = TRUE
      BY LoaderEnds DEF LoneLoader, Ready, MemoryType
    <3> QED  BY <3>1, LoaderEnds, EndsAround DEF Ready
  <2>2. MAXUPROC = 1 /\ DeviceErrors \subseteq {"char"}
    BY LoaderEnds DEF LoneLoader
  <2> QED  BY <1>1, <2>1, <2>2, LoaderBlock DEF LoadInv, LoneLoader
<1> QED  BY <1>2, <1>3, <1>4 DEF MemInv

LEMMA LoaderStep ==
    ASSUME World, NEW a \in Asid, NEW ok \in BOOLEAN, Ends(a, ok), pc[a] \in LoaderIO
    PROVE  MemInv' /\ MemStep
<1>1. /\ UNCHANGED <<pc, pte>> /\ Asid = {a} /\ pc[a] \in Loading /\ pc[a] \notin LeavingPlaces
      /\ \A p \in Page : pte[a][p] = NULL
  BY EndsAround, LoaderEnds, IdlePage
<1>2. ASSUME NEW q \in Page PROVE ContentOf(a, q) = disk[q][a] /\ ContentOf(a, q)' = disk'[q][a]
  <2>1. ContentOf(a, q) = Found(a, a, q) /\ ContentOf(a, q)' = Found(a, a, q)'
    BY <1>1, FoundIs, FoundNext
  <2> QED  BY <1>1, <2>1 DEF Found, LeavingPlaces
<1>3. CASE pc[a] # "store"
  <2>1. disk' = disk
    BY <1>3, LoaderMoves
  <2>2. ContentsKept
    BY <1>1, <1>2, <2>1 DEF ContentsKept
  <2> QED  BY <1>1, <2>2, Stutters, LoaderInv
<1>4. CASE pc[a] = "store"
  <2>1. PICK c \in Page : c = currentPage(a) /\ c < Blocks[a]
    BY LoaderEnds
  <2>2. \A q \in Page : disk'[q][a] = IF q = c THEN Content(a, c, 1) ELSE disk[q][a]
    BY <1>4, <2>1, LoaderMoves
  <2>3. VersionOf(a, c)' = 1
    <3>1. ContentOf(a, c)' = Content(a, c, 1)
      BY <1>2, <2>2
    <3> QED  BY <3>1 DEF VersionOf, Content
  <2>4. \A x \in Asid, q \in Page : <<x, q>> # <<a, c>> => ContentOf(x, q)' = ContentOf(x, q)
    BY <1>1, <1>2, <2>2
  <2> DEFINE mem == [x \in Asid |-> [q \in Page |-> VersionOf(x, q)]]
             started == {x \in Asid : pc[x] \notin Loading}
  <2>5. mem' = [mem EXCEPT ![a][c] = 1] /\ UNCHANGED started
    BY <1>1, <2>3, <2>4, Changes
  <2>6. a \notin started
    BY <1>1
  <2>7. Memory!Load(a, c)
    BY <2>1, <2>5, <2>6 DEF Memory!Load
  <2>8. MemStep
    BY <2>7 DEF MemStep, Memory!Next
  <2> QED  BY <2>8, LoaderInv
<1> QED  BY <1>3, <1>4

\* Any command that ends.
LEMMA EndsStep ==
    ASSUME World, MovesWork, NEW a \in Asid, NEW ok \in BOOLEAN, Ends(a, ok)
    PROVE  MemInv' /\ MemStep
<1>1. pc[a] \in IOPlaces
  BY DEF Ends
<1> QED  BY <1>1, PagerStep, CharStep, LoaderStep DEF IOPlaces, PagerIO, LoaderIO
-----------------------------------------------------------------------------
\* The steps that are nothing to the memory: those of test(), the clock's, and
\* the ends.
Rests ==
    /\ UNCHANGED <<io, swamp, pte, storage, busy, reply>>
    /\ \A b \in Asid : /\ local'[b] = local[b]
                       /\ pc'[b] = pc[b] \/ (pc[b] = "unborn" /\ pc'[b] = "professor")

LEMMA TestRests == ASSUME Inv, Test_ PROVE Rests
<1>1. CASE AwaitChild \/ EndTest
  <2>1. /\ UNCHANGED <<io, busy, reply, storage, paging>> /\ Test \in Proc \ Asid /\ Asid \subseteq Proc
        /\ \A b \in Asid : pc'[b] = pc[b]
    BY <1>1, Universe DEF AwaitChild, EndTest, Dies, Goto, devices, Inv, StateType, NoIO
  <2>2. \A b \in Asid : local'[b] = local[b]
    BY <1>1, <2>1 DEF AwaitChild, EndTest, Dies, Count, Inv, StateType
  <2> QED  BY <2>1, <2>2 DEF Rests, paging
<1>2. CASE CreateChild
  <2>1. /\ StateType /\ Births /\ pc[Test] = "create" /\ Test = 0 /\ Asid = 1 .. MAXUPROC
        /\ Test \in Proc /\ Asid \subseteq Proc /\ Test \notin Asid /\ MAXUPROC \in Nat
        /\ UNCHANGED <<io, busy, reply, storage, swamp, pte>>
    BY <1>2, Universe, SizeAssumption
    DEF Inv, LockInv, CreateChild, At, Test, Asid, paging, devices, NoIO
  <2>2. Counted \in Nat /\ Counted < MAXUPROC
    BY <2>1 DEF StateType, Locals, Births, Counted
  <2>3. PICK c \in Asid : c = Counted + 1 /\ pc[c] = "unborn"
    BY <2>1, <2>2 DEF Births
  <2>4. PICK next : pc' = [pc EXCEPT ![c] = "professor", ![Test] = next]
    BY <1>2, <2>3 DEF CreateChild
  <2>5. local' = [local EXCEPT ![Test].count = IF c < MAXUPROC THEN c ELSE 0]
    BY <1>2, <2>3 DEF CreateChild, Count
  <2>6. \A b \in Asid : local'[b] = local[b]
    BY <2>1, <2>5 DEF StateType
  <2>7. pc'[c] = "professor" /\ \A b \in Asid \ {c} : pc'[b] = pc[b]
    BY <2>1, <2>3, <2>4 DEF StateType
  <2> QED  BY <2>1, <2>3, <2>6, <2>7 DEF Rests
<1> QED  BY <1>1, <1>2 DEF Test_

LEMMA RestsStep == ASSUME MemInv, Rests PROVE MemInv' /\ MemStep
<1>1. UNCHANGED <<io, swamp, pte, ram, disk, arm, buffer, tapePos, busy, reply>>
  BY DEF Rests, storage
<1>2. ASSUME NEW b \in Asid, pc'[b] # pc[b]
      PROVE  /\ {pc[b], pc'[b]} \cap (TakenPlaces \cup LeavingPlaces \cup CopyPlaces \cup {"start"}) = {}
             /\ {pc[b], pc'[b]} \subseteq Loading
  BY <1>2 DEF Rests, TakenPlaces, SwampPlaces, LeavingPlaces, CopyPlaces, Loading
<1>3. PagesRight'
  BY <1>1 DEF MemInv, PagesRight, Versions
<1>4. ASSUME NEW b \in Asid PROVE PageRight(b)'
  <2>1. CASE pc'[b] = pc[b]
    <3>1. PageSame(b)
      BY <1>1, <2>1 DEF Rests, PageSame, Same
    <3> QED  BY <3>1, PageKept DEF MemInv
  <2>2. CASE pc'[b] # pc[b]
    <3>1. pc'[b] \notin TakenPlaces
      BY <1>2, <2>2
    <3> QED  BY <3>1 DEF PageRight, TakenPlaces, SwampPlaces, LeavingPlaces, Past
  <2> QED  BY <2>1, <2>2
<1>5. \A b \in Asid : pc'[b] \in Loading <=> pc[b] \in Loading
  BY <1>2
<1>6. LoadInv'
  <2>1. \A b \in Asid : pc'[b] \in Loading => \A p \in Page : pte'[b][p] = NULL
    BY <1>1, <1>5 DEF MemInv, LoadInv
  <2>2. CASE \A b \in Asid : pc[b] \notin Loading
    BY <1>5, <2>1, <2>2 DEF LoadInv, Loading
  <2>3. CASE LoneLoader
    <3>1. ASSUME NEW b \in Asid PROVE BlockRight(b)'
      <4>1. CASE pc'[b] = pc[b]
        <5>1. /\ currentPage(b)' = currentPage(b) /\ Finished(b)' = Finished(b) /\ BlockRight(b)
          BY <1>1, <2>3, <4>1 DEF Rests, currentPage, Finished, DeviceOf, LoneLoader
        <5> QED  BY <1>1, <4>1, <5>1 DEF BlockRight, Past, Copied
      <4>2. CASE pc'[b] # pc[b]
        <5>1. pc'[b] = "professor"
          BY <4>2 DEF Rests
        <5> QED  BY <5>1 DEF BlockRight, Past, CopyPlaces
      <4> QED  BY <4>1, <4>2
    <3>2. \A b \in Asid : (Ready(b, "disk"))' /\ (Ready(b, "tape"))'
      BY <1>1, <2>3 DEF LoneLoader, Ready
    <3> QED  BY <2>1, <2>3, <3>1, <3>2 DEF LoadInv, LoneLoader, Loading
  <2> QED  BY <2>2, <2>3 DEF MemInv, LoadInv
<1>7. ContentsKept
  <2>1. \A b \in Asid : \/ pc[b] \notin LeavingPlaces /\ pc'[b] \notin LeavingPlaces
                        \/ pc'[b] = pc[b] /\ vic(b)' = vic(b)
    BY <1>2 DEF Rests, vic
  <2> QED  BY <1>1, <2>1, LeaversSame DEF ContentsKept
<1>8. MemStep
  BY <1>5, <1>7, Stutters
<1> QED  BY <1>3, <1>4, <1>6, <1>8 DEF MemInv

\* Every step keeps what was proved of the places, and is one that the memory
\* promised to the programs may take, or none.
LEMMA WorldStep ==
    ASSUME World, MovesWork, [Next]_vars PROVE MemInv' /\ MemStep
<1>1. Inv /\ IOInv /\ TypeInv /\ MemInv
  BY DEF World
<1>2. CASE Deadlock \/ Stop \/ Tick \/ UNCHANGED vars
  <2>1. Rests
    BY <1>2 DEF Deadlock, Stop, Tick, vars, paging, devices, Rests
  <2> QED  BY <1>1, <2>1, RestsStep
<1>3. CASE Test_
  BY <1>1, <1>3, TestRests, RestsStep
<1>4. ASSUME NEW a \in Asid, Professor(a) \/ Program(a) \/ Handlers(a) PROVE MemInv' /\ MemStep
  <2>1. CASE Calm(a)
    BY <2>1, CalmPages, CalmLoads, CalmStep DEF MemInv
  <2>2. CASE TakeFrame(a)
    BY <2>2, TakesIs, TakesPages, TakesStep
  <2>3. CASE MapPage(a)
    BY <2>3, MapsIs, MapsStep
  <2>4. CASE \E p \in Page : Store(a, p)
    BY <2>4, StoresIs, StoresStep
  <2> QED  BY <1>1, <1>4, <2>1, <2>2, <2>3, <2>4, ProcessIs DEF Calm
<1>5. ASSUME NEW d \in Device, DeviceInterrupt(d) PROVE MemInv' /\ MemStep
  BY <1>1, <1>5, InterruptEnds, EndsStep DEF TypeInv
<1> QED  BY <1>2, <1>3, <1>4, <1>5 DEF Next

\* What the invariants of this module are proved for: programs in segment 2
\* (another page of theirs has no place on the disk), none of several prints, and
\* a disk that moves what it is told to.
ProperUse == Segment = {2} /\ PrintsAlone /\ NullIsNoCommand /\ MovesWork

LEMMA WorldKept ==
    ASSUME ProperUse, World, [Next]_vars PROVE World' /\ MemStep
<1>1. Inv' /\ FrameInv'
  BY StepKeeps DEF World, ProperUse
<1>2. IOInv'
  BY IOInvStep DEF World, ProperUse
<1>3. TypeInv'
  BY <1>1, <1>2, TypeInvStep DEF World, FrameInv
<1>4. MemInv' /\ MemStep
  BY WorldStep DEF ProperUse
<1> QED  BY <1>1, <1>2, <1>3, <1>4 DEF World

LEMMA WorldInit ==
    ASSUME Init, MAXUPROC = 1, DeviceErrors \subseteq {"char"} PROVE World /\ Memory!Init
<1>1. Inv /\ FrameInv /\ IOInv /\ TypeInv
  BY InitKeeps, IOInvInit, TypeInvInit
<1>2. /\ \A a \in Asid : pc[a] = "unborn"
      /\ \A a \in Asid, p \in Page : pte[a][p] = NULL /\ disk[p][a] = Blank
      /\ reply = [a \in Asid |-> [line \in {"disk", "tape", "printer", "terminal"} |-> TRUE]]
  BY Universe DEF Init
<1>3. \A a \in Asid : pc[a] \notin TakenPlaces
  BY <1>2 DEF TakenPlaces, SwampPlaces
<1>4. LoneLoader
  <2>1. \A a \in Asid : BlockRight(a)
    BY <1>2 DEF BlockRight, Past, CopyPlaces
  <2> QED  BY <1>2, <2>1 DEF LoneLoader, Ready
<1>5. MemInv
  BY <1>2, <1>3, <1>4, IdlePage DEF MemInv, LoadInv, PagesRight, Versions
<1>6. {a \in Asid : pc[a] \notin Loading} = {}
  BY <1>2 DEF Loading
<1>7. ASSUME NEW a \in Asid, NEW p \in Page PROVE VersionOf(a, p) = 0
  <2>1. Leaving(a, p) = {}
    BY <1>3, IdlePage DEF Leaving, Inside
  <2>2. ContentOf(a, p) = Blank
    BY <1>2, <2>1 DEF ContentOf
  <2> QED  BY <2>2 DEF VersionOf, Blank, Content
<1>8. Memory!Init
  BY <1>6, <1>7 DEF Memory!Init
<1> QED  BY <1>1, <1>5, <1>8 DEF World

\* One process loads and runs: through loading, faults and evictions the program
\* has the memory that it was promised.  It starts with the blocks of its tape,
\* and every page changes by the program's own stores alone, wherever readOut and
\* writeOut have put it.
THEOREM MemoryIsKept ==
    ASSUME MAXUPROC = 1, Segment = {2}, DeviceErrors \subseteq {"char"}, NullIsNoCommand
    PROVE  Spec => MemoryKept
<1>1. ProperUse
  BY DEF ProperUse, PrintsAlone, MovesWork
<1>2. Init => World /\ Memory!Init
  BY WorldInit
<1>3. World /\ [Next]_vars => World' /\ [Memory!Next]_(Memory!memory)
  BY <1>1, WorldKept DEF MemStep
<1>4. Spec => Memory!Init /\ [][Memory!Next]_(Memory!memory)
  BY <1>2, <1>3, PTL DEF Spec
<1> QED  BY <1>4 DEF MemoryKept, Memory!Spec
-----------------------------------------------------------------------------
\* The state in which every program has started.
LEMMA LoadedLocks == ASSUME AllLoaded PROVE Inv /\ FrameInv
<1>1. \A a \in Asid : pc[a] = "user"
  BY Universe DEF AllLoaded
<1>2. StateType
  <2>1. local \in [Proc -> Locals]
    <3>1. [Unused EXCEPT !.count = 1] \in Locals
      BY UnusedType DEF Locals
    <3> QED  BY <3>1, UnusedType DEF AllLoaded
  <2>2. blocked \in [Semaphore \cup {Clock} \cup Device -> Seq(Proc)]
    BY Universe DEF AllLoaded
  <2>3. sem \in [Semaphore -> Int] /\ DOMAIN pc = Proc
    BY DEF AllLoaded
  <2>4. /\ tlbNew \in [Asid -> {"unset", "handler", "overrun"}]
        /\ swamp \in [Frame -> [asid : Asid, page : Page] \cup {NULL}] /\ victim \in Frame
        /\ pte \in [Asid -> [Page -> Frame \cup {NULL}]]
    BY Universe DEF AllLoaded
  <2> QED  BY <2>1, <2>2, <2>3, <2>4 DEF StateType
<1>3. Inside(DiskPlaces) = {} /\ Inside(SwampPlaces) = {}
  BY <1>1 DEF Inside, DiskPlaces, SwampPlaces
<1>4. Mutex(diskMutex, DiskPlaces) /\ Mutex(swampMutex, SwampPlaces)
  <2>1. IsInjective(<<>>)
    BY DEF IsInjective
  <2>2. /\ blocked[diskMutex] = <<>> /\ blocked[swampMutex] = <<>>
        /\ sem[diskMutex] = 1 /\ sem[swampMutex] = 1
    BY Universe DEF AllLoaded, Mutexes
  <2> QED  BY <1>3, <2>1, <2>2 DEF Mutex
<1>5. Master
  BY Universe DEF Master, AllLoaded
<1>6. Births
  BY Universe DEF Births, AllLoaded
<1>7. FrameInv
  <2>1. Taken = {}
    BY <1>1 DEF Taken, TakenPlaces, SwampPlaces, Inside
  <2>2. FaultStands /\ VectorLost
    BY <1>1 DEF FaultStands, VectorLost, FaultPlaces, SwampPlaces, CallPlaces, Inside
  <2>3. WaitsAtVictim
    BY Universe DEF WaitsAtVictim, AllLoaded, ToSet, Mutexes
  <2>4. PoolAgrees
    <3>1. Cleared(pte) = {}
      BY SizeAssumption DEF Cleared, AllLoaded
    <3> QED  BY <3>1, <2>1 DEF PoolAgrees, AllLoaded
  <2> QED  BY <2>2, <2>3, <2>4 DEF FrameInv
<1> QED  BY <1>2, <1>4, <1>5, <1>6, <1>7 DEF Inv, LockInv

LEMMA LoadedTypes == ASSUME AllLoaded PROVE IOInv /\ TypeInv
<1>1. \A a \in Asid : pc[a] = "user" /\ io[a] = "command"
  BY Universe DEF AllLoaded
<1>2. IOInv
  BY <1>1, Universe DEF AllLoaded, IOInv, ToSet, PrintPlaces, Mutexes
<1>3. MachineType
  BY DEF AllLoaded, MachineType, Statuses
<1>4. MemoryType
  <2>1. Blocks \in [Asid -> 1 .. KUSEGPTESIZE] /\ KUSEGPTESIZE \in Nat /\ MaxVersion \in Nat \ {0}
    BY SizeAssumption
  <2>2. Blank \in Contents
    BY <2>1, Universe DEF Blank, Content, Contents
  <2>3. ASSUME NEW a \in Asid, NEW c \in Page PROVE Content(a, c, 1) \in Contents
    BY <2>1 DEF Content, Contents
  <2>4. \A a \in Asid : Blocks[a] - 1 \in Page /\ Blocks[a] \in Nat
    BY <2>1 DEF Page
  <2>5. tapePos \in [Asid -> Nat] /\ arm \in Page
    BY <2>1, <2>4 DEF AllLoaded
  <2>6. buffer \in [Asid -> Contents] /\ disk \in [Page -> [Asid -> Contents]] /\ ram \in [Frame -> Contents]
    BY <2>2, <2>3, <2>4 DEF AllLoaded
  <2> QED  BY <2>5, <2>6 DEF AllLoaded, MemoryType
<1>5. \A a \in Asid : Right(a)
  BY <1>1 DEF Right, CommandRight, CopyRight, OutRight, CopyPlaces, Loading
<1> QED  BY <1>2, <1>3, <1>4, <1>5, LoadedLocks, TypeInvIs

LEMMA LoadedWorld == ASSUME AllLoaded PROVE World
<1>1. \A a \in Asid : pc[a] = "user"
  BY Universe DEF AllLoaded
<1>2. LoadInv
  BY <1>1 DEF LoadInv, Loading
<1>3. \A a \in Asid : PageRight(a)
  BY <1>1, IdlePage DEF TakenPlaces, SwampPlaces
<1>4. PagesRight
  <2>1. \A a \in Asid, p \in Page : pte[a][p] = NULL
    BY DEF AllLoaded
  <2>2. \A a \in Asid, p \in Page : disk[p][a] \in {Blank, Content(a, p, 1)}
    BY DEF AllLoaded
  <2>3. 1 \in 1 .. MaxVersion
    BY SizeAssumption
  <2>4. ASSUME NEW a \in Asid, NEW p \in Page PROVE disk[p][a] \in Versions(a, p)
    BY <2>2, <2>3 DEF Versions
  <2> QED  BY <2>1, <2>4 DEF PagesRight
<1> QED  BY <1>2, <1>3, <1>4, LoadedLocks, LoadedTypes DEF World, MemInv

\* When the programs have started, up to eight share the frames, the disk and its
\* arm, and no page of one is ever lost, stale or another's: each memory changes
\* by its own program's stores alone.
THEOREM MemoriesStayKept == ASSUME ProperUse PROVE LoadedSpec => MemoryStaysKept
<1>1. AllLoaded => World
  BY LoadedWorld
<1>2. World /\ [Next]_vars => World' /\ [Memory!Next]_(Memory!memory)
  BY WorldKept DEF MemStep
<1>3. LoadedSpec => [][Memory!Next]_(Memory!memory)
  BY <1>1, <1>2, PTL DEF LoadedSpec
<1> QED  BY <1>3 DEF MemoryStaysKept

\* From that state, too, the mutexes exclude, and the swap pool agrees with the
\* page tables while faults are served.
THEOREM LoadedIsSound == ASSUME Segment = {2} PROVE LoadedSpec => [](LockInv /\ FrameInv)
<1>1. AllLoaded => Inv /\ FrameInv
  BY LoadedLocks
<1>2. Inv /\ FrameInv /\ [Next]_vars => Inv' /\ FrameInv'
  BY StepKeeps
<1>3. Inv => LockInv
  BY DEF Inv
<1> QED  BY <1>1, <1>2, <1>3, PTL DEF LoadedSpec
=============================================================================
