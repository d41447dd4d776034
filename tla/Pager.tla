-------------------------------- MODULE Pager --------------------------------
(***************************************************************************)
(* The paging half of phase3/vmIOsupport.c: userTLBHandler, readOut,       *)
(* writeOut, and the accesses to memory that call for them.                *)
(***************************************************************************)
EXTENDS Loader

fault(a) == local[a].fault
vic(a) == local[a].vic

\* A store to page p of segment 2, through a translation the processor has.
\* (A load changes nothing, here or there.)
Store(a, p) ==
    /\ At(a, "user")
    /\ \E f \in Frame :
        /\ <<a, p, f>> \in tlb
        /\ ram[f].version < MaxVersion
        /\ ram' = [ram EXCEPT ![f] = Content(a, p, @.version + 1)]
    /\ Resumes(a)
    /\ UNCHANGED <<kernel, currentStatus, pc, io, waiting, local, tlbNew, paging, disk, arm,
                   buffer, tapePos, devices>>

Resident(a, seg, p) == seg = 2 /\ \E f \in Frame : <<a, p, f>> \in tlb

\* SYSCALL(18) of a handler is passed up: userSyscallHandler starts, with the
\* status of its vector, at the branch for 18.
Syscall18(a) == Goto(a, "sys18") /\ RunsWith(a, "virtual")

\* The new state loaded for a page fault is the vector of this exception.  Once
\* passUpOrDie has stored three words too many, these have become its asid (0),
\* its cause and its status: the handler then works on procMeta[-1].  What it
\* finds there as the cause makes it end the process, or does not.
EnterTLBHandler(a) ==
    IF tlbNew[a] = "handler"
    THEN Goto(a, "tlb") /\ RunsWith(a, "virtual") /\ UNCHANGED kernel
    ELSE \/ Syscall18(a) /\ UNCHANGED kernel
         \/ kernel' = "astray" /\ UNCHANGED <<pc, masked, status>>

\* A page fault: TLBL or TLBS (2, 3) on a page of a page table, PTE-MISS (14)
\* on any other address.
PageFault(a) ==
    /\ At(a, "user")
    /\ \E seg \in Segment, p \in Page, cause \in {2} \cup (IF ProgramErrors THEN {14} ELSE {}) :
        /\ ~Resident(a, seg, p)
        /\ local' = [local EXCEPT ![a].fault = [seg |-> seg, page |-> p, cause |-> cause]]
    /\ tlbNew[a] # "handler" => FaultAfterCall
    /\ EnterTLBHandler(a)
    /\ UNCHANGED <<currentStatus, io, waiting, tlbNew, paging, storage, devices>>

-----------------------------------------------------------------------------
\* The start of userTLBHandler, to P(swampMutex).
EnterSwamp(a) ==
    /\ At(a, "tlb")
    /\ IF fault(a).cause \notin {2, 3}
       THEN Syscall18(a) /\ UNCHANGED waiting
       ELSE P(a, swampMutex) /\ Goto(a, "victim")
    /\ UNCHANGED <<local, tlbNew, paging>> /\ NoIO

pickAVictim == (victim + 1) % NUMOFSWAMP

\* The translations TLBCLR leaves: those the page tables then have.
Cleared(tables) == {t \in Asid \X Page \X Frame : tables[t[1]][t[2]] = t[3]}

\* Mutants: no TLBCLR; the entry stays valid.
Invalidate_NoClear(s) == pte' = [pte EXCEPT ![s.asid][s.page] = NULL] /\ UNCHANGED tlb
Invalidate_Not(s) == UNCHANGED <<pte, tlb>>

\* The entry of the page in the victim frame becomes invalid.
Invalidate(s) == pte' = [pte EXCEPT ![s.asid][s.page] = NULL] /\ tlb' = Cleared(pte')

\* pickAVictim, and the page table of an occupied frame, with interrupts off:
\* the two toggles leave a new value in currentStatus.
TakeFrame(a) ==
    /\ At(a, "victim")
    /\ victim' = pickAVictim
    /\ local' = [local EXCEPT ![a].vic = pickAVictim]
    /\ IF swamp[pickAVictim] = NULL
       THEN Goto(a, "mask") /\ UNCHANGED <<pte, tlb, currentStatus>>
       ELSE Goto(a, "writeOut") /\ Invalidate(swamp[pickAVictim]) /\ currentStatus' = status[a]
    /\ Resumes(a)
    /\ UNCHANGED <<kernel, io, waiting, tlbNew, swamp, storage, devices>>

\* The head and frame of a block the pager moves.
WriteBlk(s, f) == [op |-> "write", asid |-> s.asid, frame |-> f]
ReadBlk(a, f) == [op |-> "read", asid |-> a, frame |-> f]

\* writeOut(oldAsid, oldPageNum, address).
WriteOut(a) ==
    \/ LockDisk(a, "writeOut", "outSeek")
    \/ DoIO(a, "outSeek", Disk0, Disk0, Seek(swamp[vic(a)].page),
            IF Ready(a, "disk") THEN "outWrite" ELSE "PANIC")
    \/ DoIO(a, "outWrite", Disk0, Disk0, WriteBlk(swamp[vic(a)], vic(a)), "outUnlock")
    \/ UnlockDisk(a, "outUnlock", "mask")

\* The toggle around what follows: readOut toggles again, inside.
MaskUpdate(a) ==
    /\ At(a, "mask")
    /\ TurnOff(a) /\ Goto(a, "readOut")
    /\ UNCHANGED <<kernel, io, waiting, local, tlbNew, paging, storage, devices>>

\* readOut(asid, pageNum, address).
ReadOut(a) ==
    \/ LockDisk(a, "readOut", "inSeek")
    \/ DoIO(a, "inSeek", Disk0, Disk0, Seek(fault(a).page),
            IF Ready(a, "disk") THEN "inRead" ELSE "PANIC")
    \/ DoIO(a, "inRead", Disk0, Disk0, ReadBlk(a, vic(a)), "inUnlock")
    \/ UnlockDisk(a, "inUnlock", "update")

Panic(a) ==
    /\ At(a, "PANIC")
    /\ kernel' = "panic"
    /\ UNCHANGED <<masked, currentStatus, pc, io, status, waiting, local, tlbNew, paging,
                   storage, devices>>

\* Mutant: the frame is not entered in the swap pool.
UpdateSwamp_Not(a) == UNCHANGED swamp

UpdateSwamp(a) == swamp' = [swamp EXCEPT ![vic(a)] = [asid |-> a, page |-> fault(a).page]]

\* Mutant: the TLB still has the invalid entry.
Validate_NoClear(a) == pte' = [pte EXCEPT ![a][fault(a).page] = vic(a)] /\ UNCHANGED tlb

\* The entry that becomes valid is always that of segment 2.
Validate(a) == pte' = [pte EXCEPT ![a][fault(a).page] = vic(a)] /\ tlb' = Cleared(pte')

\* Swap pool and page table get the new page; then the second toggle.
MapPage(a) ==
    /\ At(a, "update")
    /\ UpdateSwamp(a) /\ Validate(a)
    /\ TurnOn(a) /\ Goto(a, "swampUnlock")
    /\ UNCHANGED <<kernel, io, waiting, local, tlbNew, victim, storage, devices>>

\* Mutant: the V is forgotten.
LeaveSwamp_NoV(a) ==
    /\ At(a, "swampUnlock")
    /\ Resumes(a) /\ Goto(a, "LDST")
    /\ UNCHANGED <<waiting, local, tlbNew, paging>> /\ NoIO

LeaveSwamp(a) ==
    /\ At(a, "swampUnlock")
    /\ V(a, swampMutex) /\ Goto(a, "LDST")
    /\ UNCHANGED <<local, tlbNew, paging>> /\ NoIO

\* LDST(oldState).
ResumeProgram(a) ==
    /\ At(a, "LDST")
    /\ Goto(a, "user") /\ RunsWith(a, "virtual")
    /\ local' = [local EXCEPT ![a] = Unused]
    /\ reply' = [reply EXCEPT ![a] = [line \in DOMAIN @ |-> TRUE]]
    /\ UNCHANGED <<kernel, io, currentStatus, busy, storage, waiting, tlbNew, paging>>

TLBHandler(a) ==
    \/ EnterSwamp(a) \/ TakeFrame(a) \/ WriteOut(a) \/ MaskUpdate(a) \/ ReadOut(a)
    \/ Panic(a) \/ MapPage(a) \/ LeaveSwamp(a) \/ ResumeProgram(a)
=============================================================================
