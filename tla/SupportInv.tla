----------------------------- MODULE SupportInv -----------------------------
(***************************************************************************)
(* The inductive invariants behind the mutual exclusion of the support     *)
(* level, the agreement of its swap pool with the page tables, the wake-   *)
(* ups by the devices and the memory the programs see.                     *)
(***************************************************************************)
EXTENDS Support

Locals == [fault : [seg : {2, 3}, page : Page, cause : {2, 14}], vic : Frame,
           call : UserCall \cup {NoCall}, count : Nat]

\* What the proofs need of the types.
StateType ==
    /\ DOMAIN pc = Proc
    /\ sem \in [Semaphore -> Int]
    /\ blocked \in [Semaphore \cup {Clock} \cup Device -> Seq(Proc)]
    /\ local \in [Proc -> Locals]
    /\ tlbNew \in [Asid -> {"unset", "handler", "overrun"}]
    /\ swamp \in [Frame -> [asid : Asid, page : Page] \cup {NULL}] /\ victim \in Frame
    /\ pte \in [Asid -> [Page -> Frame \cup {NULL}]]

\* test() creates each child once.
Births ==
    pc[Test] = "create" =>
        /\ Counted < MAXUPROC
        /\ \A a \in Asid : a > Counted => pc[a] = "unborn"

\* A mutex is free and nobody is inside, or one process is and the others there
\* wait for it.
Mutex(s, places) ==
    /\ IsInjective(blocked[s])
    /\ \/ sem[s] = 1 /\ blocked[s] = <<>> /\ Inside(places) = {}
       \/ /\ sem[s] = - Len(blocked[s])
          /\ \E h \in Asid \ ToSet(blocked[s]) :
                Inside(places) = {h} \cup ToSet(blocked[s])

LockInv == Births /\ Mutex(diskMutex, DiskPlaces) /\ Mutex(swampMutex, SwampPlaces)

-----------------------------------------------------------------------------
\* The part of the handler in which the frame it has taken is nobody's.
TakenPlaces == SwampPlaces \ {"victim", "swampUnlock"}
Taken == {vic(a) : a \in Inside(TakenPlaces)}

\* The fault a handler works on is still a fault.
FaultPlaces == {"tlb"} \cup (SwampPlaces \ {"swampUnlock"})
FaultStands == \A a \in Inside(FaultPlaces) : pte[a][fault(a).page] = NULL

\* From a process's first SYS call on its page faults do not reach the handler.
CallPlaces == {"print", "printChar", "printed", "type", "typeChar", "typed"}
VectorLost == \A a \in Inside(CallPlaces) : tlbNew[a] = "overrun"

\* A valid entry names the frame that holds its page; so does the swap pool for
\* every frame but the one that has been taken.
PoolAgrees ==
    /\ tlb = Cleared(pte)
    /\ \A a \in Asid, p \in Page :
          pte[a][p] # NULL => /\ pte[a][p] \notin Taken
                              /\ swamp[pte[a][p]] = [asid |-> a, page |-> p]
    /\ \A f \in Frame \ Taken : swamp[f] # NULL => pte[swamp[f].asid][swamp[f].page] = f

\* Who waits for the swap pool waits before he has a frame.
WaitsAtVictim == \A a \in ToSet(blocked[swampMutex]) : pc[a] = "victim"

FrameInv == WaitsAtVictim /\ FaultStands /\ VectorLost /\ PoolAgrees

-----------------------------------------------------------------------------
\* Where a process gives a command to a device, and to which.
IOPlaces == {"tape", "seek", "store", "outSeek", "outWrite", "inSeek", "inRead", "printChar",
             "typeChar"}
PrintPlaces == {"print", "printChar", "printed"}
DeviceOf(a) ==
    CASE pc[a] = "tape" -> Tape(a)
      [] pc[a] = "printChar" -> Printer(a)
      [] pc[a] = "typeChar" -> Terminal(a)
      [] OTHER -> Disk0

\* A device works for one process, which is about to wait for it or does.
Serves(d, a) ==
    /\ DeviceOf(a) = d
    /\ \/ io[a] = "wait" /\ blocked[d] = <<>>
       \/ io[a] = "done" /\ blocked[d] = <<a>>

IOInv ==
    /\ io \in [Proc -> {"command", "wait", "done"}]
    /\ busy = [d \in Device |-> busy[d]]
    /\ kernel # "trap"
    /\ \A p \in Proc : io[p] # "command" => p \in Asid /\ pc[p] \in IOPlaces
    /\ \A a \in Asid : io[a] = "wait" => masked = a /\ Serves(DeviceOf(a), a)
                                         /\ busy[DeviceOf(a)] # NULL
    /\ \A d \in Device : IF busy[d] = NULL THEN blocked[d] = <<>> ELSE \E a \in Asid : Serves(d, a)
    /\ \A p \in ToSet(blocked[diskMutex]) : io[p] = "command"
    /\ \A a \in Asid : pc[a] \in PrintPlaces => MAXUPROC = 1

\* No process but the only one prints.
PrintsAlone == MAXUPROC = 1 \/ \A c \in UserCall : c.no # 16

\* NULL, the command of an idle device, is none that a device can get.
NullIsNoCommand ==
    \A a, c, f, s : NULL \notin {[op |-> "readTape", asid |-> a], Seek(c), WriteBuffer(a),
                                 WriteBlk(s, f), ReadBlk(a, f), [op |-> "char"]}

-----------------------------------------------------------------------------
\* What has been asked of a device is what the process it works for asks there.
CommandOf(a) ==
    CASE pc[a] = "tape" -> [op |-> "readTape", asid |-> a]
      [] pc[a] = "seek" -> Seek(currentPage(a))
      [] pc[a] = "store" -> WriteBuffer(a)
      [] pc[a] = "outSeek" -> Seek(swamp[vic(a)].page)
      [] pc[a] = "outWrite" -> WriteBlk(swamp[vic(a)], vic(a))
      [] pc[a] = "inSeek" -> Seek(fault(a).page)
      [] pc[a] = "inRead" -> ReadBlk(a, vic(a))
      [] OTHER -> [op |-> "char"]

CommandRight(a) ==
    io[a] # "command" /\ busy[DeviceOf(a)] # NULL => busy[DeviceOf(a)] = CommandOf(a)

\* The command a process has given has ended; it is on its way to the next place.
Finished(a) == io[a] = "done" /\ busy[DeviceOf(a)] = NULL
Past(a, place, next) == (pc[a] = place /\ Finished(a)) \/ pc[a] \in next

\* The loop of readAndStore() counts the blocks of the tape that were read.
CopyPlaces == Loading \ {"unborn", "professor", "start"}
CopyRight(a) ==
    /\ pc[a] \in {"unborn", "professor"} => currentPage(a) = 0 /\ tapePos[a] = 0
    /\ pc[a] \in CopyPlaces =>
        /\ currentPage(a) < Blocks[a]
        /\ tapePos[a] = IF Past(a, "tape", CopyPlaces \ {"tape"}) /\ Ready(a, "tape")
                        THEN currentPage(a) + 1 ELSE currentPage(a)

\* What is written out is a page.
OutRight(a) ==
    pc[a] \in {"writeOut", "outSeek", "outWrite", "outUnlock"} => swamp[vic(a)] # NULL

TypeInv == TypeOK /\ \A a \in Asid : CommandRight(a) /\ CopyRight(a) /\ OutRight(a)

\* The page a handler has served is there until its program goes on; if no other
\* process can take it away meanwhile.
ServedInv ==
    \A a \in Asid : /\ fault(a).seg = 2
                    /\ pc[a] \in {"swampUnlock", "LDST"} => pte[a][fault(a).page] # NULL

-----------------------------------------------------------------------------
\* What may be found where page p of a belongs.
Versions(a, p) == {Blank} \cup {Content(a, p, v) : v \in 1 .. MaxVersion}

\* The arm is where a handler needs it, what it has written out is on the disk,
\* what it has read in is in its frame.
PageRight(a) ==
    LET s == swamp[vic(a)] IN
    /\ Past(a, "outSeek", {"outWrite"}) /\ (pc[a] = "outSeek" => Ready(a, "disk")) => arm = s.page
    /\ Past(a, "inSeek", {"inRead"}) /\ (pc[a] = "inSeek" => Ready(a, "disk")) => arm = fault(a).page
    /\ pc[a] \in LeavingPlaces /\ s # NULL => ram[vic(a)] \in Versions(s.asid, s.page)
    /\ Past(a, "outWrite", {"outUnlock", "mask", "readOut", "inSeek"}) /\ s # NULL =>
            disk[s.page][s.asid] = ram[vic(a)]
    /\ Past(a, "inRead", {"inUnlock", "update"}) => ram[vic(a)] = disk[fault(a).page][a]

\* The blocks copied so far are on the disk, the one being copied is where the
\* next statement needs it.
Copied(a, p) == disk[p][a] = Content(a, p, 1)
BlockRight(a) ==
    LET c == currentPage(a) IN
    /\ pc[a] \in CopyPlaces => \A p \in Page : p < c => Copied(a, p)
    /\ Past(a, "tape", {"seekLock", "seek", "seekUnlock", "storeLock", "store"}) =>
            buffer[a] = Content(a, c, 1)
    /\ Past(a, "seek", {"seekUnlock", "storeLock", "store"}) => arm = c
    /\ Past(a, "store", {"storeUnlock", "stored"}) => Copied(a, c)
    /\ pc[a] = "start" => \A p \in Page : p < Blocks[a] => Copied(a, p)

\* A single process loads with devices that make no errors, or none loads.
LoneLoader ==
    /\ MAXUPROC = 1 /\ DeviceErrors \subseteq {"char"}
    /\ \A a \in Asid : BlockRight(a) /\ Ready(a, "disk") /\ Ready(a, "tape")
LoadInv ==
    /\ \A a \in Asid : pc[a] \in Loading => \A p \in Page : pte[a][p] = NULL
    /\ LoneLoader \/ \A a \in Asid : pc[a] \notin Loading

\* Every place holds a version of the page that belongs there.
PagesRight ==
    \A a \in Asid, p \in Page :
        /\ disk[p][a] \in Versions(a, p)
        /\ pte[a][p] # NULL => ram[pte[a][p]] \in Versions(a, p)

MemInv == LoadInv /\ PagesRight /\ \A a \in Asid : PageRight(a)
=============================================================================
