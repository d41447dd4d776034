# KayaOS: specification, model checking and proofs

KayaOS is a small operating system for the uMPS2 machine, written in C in three
phases: queues and trees of process control blocks (phase 1), a nucleus with
scheduling, eight system calls and interrupts (phase 2), and virtual memory with
user processes on top (phase 3). The modules here specify all three: the linked
structures pointer by pointer, the nucleus with every handler, and the support level with its tape
loader, pager and user system calls. Refinements connect them to five abstract specifications: queues
(`PcbLists`), trees (`Forest`), what the nucleus promises its processes (`ProcessLife`), the interface at which nucleus and support level
meet (`ProcessCalls`: the one provides it, the other keeps to it) and what the
support level promises a program (`UserMemory`). TLC checks the modules on small instances; TLAPS proves
every safety property the passing runs check, of the linked structures, the nucleus and the support level, and all the refinements, each under the conditions section 4 names: for any number of pcbs, processes, semaphores
and devices in phases 1 and 2, and for any number of pages and frames and up to eight user processes in the support level.

Paths in this file are relative to the repository (`phase2/exceptions.c` is
`src/phase2/exceptions.c`).

## 1. Inventory

### Components, state, operations

| Component | Files | State | Operations | What makes it correct |
|---|---|---|---|---|
| Process queues | `phase1/pcb.c` | circular doubly linked lists through `p_next`/`p_prev`, a tail pointer held by the caller | `mkEmptyProcQ`, `emptyProcQ`, `insertProcQ`, `removeProcQ`, `outProcQ`, `headProcQ`, `isInQ` | first in first out; a pcb once in one queue; removal leaves a queue |
| Pcb allocation | `phase1/pcb.c` | `pcbFree_h`, MAXPROC static pcbs | `initPcbs`, `allocPcb`, `freePcb` | a pcb is free or in use, and fresh when handed out |
| Process tree | `phase1/pcb.c` | `p_prnt`, `p_child`, `p_lSib`, `p_rSib` | `insertChild`, `removeChild`, `outChild`, `emptyChild` | a forest of live processes |
| Active semaphore list (ASL) | `phase1/asl.c` | sorted list of descriptors with two dummies, `semdFree_h` | `insertBlocked`, `removeBlocked`, `outBlocked`, `headBlocked`, `initASL` | a descriptor exactly for each semaphore with a queue; never too few |
| Initialization | `phase2/initial.c` | new-state areas, the globals of the nucleus | `main` | one ready process, all semaphores 0 |
| Scheduler | `phase2/scheduler.c` | `MLPQ[0..2]`, `currentProc`, `procCnt`, `softBlockCnt` | `scheduler`, `putInQ`, `nextProc` | HALT, PANIC and WAIT only when right; the top queue is served |
| System calls | `phase2/exceptions.c` | old-state areas, pcbs | `sysCallHandler`, `sys1` … `sys8` | counters and semaphores agree with the queues; SYS2 takes the whole subtree |
| Pass up or die | `phase2/exceptions.c` | `sysCallFlag`, the vectors of SYS5 | `tlbHandler`, `prgTrapHandler`, `passUpOrDie`, `passUpOrDieHelper` | the process continues at its handler or dies with its subtree |
| Interrupts | `phase2/interrupts.c` | `deviceLookup[7][8]`, device registers | `ioTrapHandler`, `getLineNumber`, `getDevNum`, `procTimerIntr`, `intervalTimerIntr`, `terminalIntr` | each completed command wakes the process that waits for it |
| User process set-up | `phase3/initProc.c` | `procMeta`, `deviceMutex`, `masterSem`, page tables | `test`, `professor`, `readAndStore`, `toggleInterrupts` | a process starts with its image on disk; `test` ends after all children |
| Virtual memory, user system calls | `phase3/vmIOsupport.c` | `swampPool`, `swampMutex`, page tables | `userTLBHandler`, `userSyscallHandler`, `userPrgmHandler`, `pickAVictim`, `readOut`, `writeOut` | the page read back is the page written; mutexes are given back |
| Constants and types | `h/*.h` | | | |
| Build files | `phase*/Makefile` | | | |

### How they interact

Everything is a call or an exception on one processor. An exception saves the
processor state in an old-state area and enters `sysCallHandler`, `tlbHandler`,
`prgTrapHandler` or `ioTrapHandler` with interrupts off. A handler copies the area into
the running process (`moveState`), changes queues, semaphores and counters, and ends
in `loadState` of the same process or in `scheduler`. The scheduler ends in `loadState`,
`WAIT`, `HALT` or `PANIC`. Devices run beside this: a command starts one, and
its interrupt is taken when a process runs or the processor waits. Phase 3 reaches
the nucleus by SYS1 to SYS8 and by the vectors of SYS5.

### Which behaviours are hard

* **The nucleus interrupts processes, never itself** - with one exception: a load or store
  through a bad pointer inside a handler enters `prgTrapHandler` *again*, in the middle of
  whatever the first handler was doing, and that blames (and possibly kills) the current process.
* **SYS2** takes a subtree apart recursively, finding each process wherever it is;
  any of these removals may trap, loop, or return with a tail pointer left on a pcb that is freed next.
* **Interrupts and waiting** race: a device may finish before its process waits.
* **Counters decide** between HALT, PANIC and WAIT, and every handler keeps them by hand.

### Facts of the code the models rest on

Each was read in the source and is part of the models as it is.

1. `moveState` (`exceptions.c:72-85`) copies 34 registers; a state has 31. The three words
   written past `p_s` are `p_semAdd`, `totalProcTime` and `timeLeft`. The three words
   read are `s_asid`, `s_cause` and `s_status` of the new-state area behind the old one; of these
   only `s_status` is written, to `ALL_OFF`. So `timeLeft` is 0 after each entry, the total time is lost,
   and `p_semAdd` is no longer NULL (`MoveState`, `NewAreaAsid`, `NewAreaCause`).
2. `NULL` is `0xFFFFFFFF`; loading through it traps.
3. `outProcQ` calls `isInQ` before anything else. Depending on the queue it
   traps (empty), returns NULL (absent from a queue of one), never returns (absent
   from a longer one), unlinks the pcb, leaves the caller's tail pointer on it and returns normally (it was the tail), or works
   (`OutProcQ` in `PcbQueue`). `sys2` does not see the difference: it frees the pcb, goes on, and the queue's tail names a pcb of the free list (`stray`).
4. `sys2` looks for a process whose `p_semAdd` is NULL in the three ready queues in order,
   and takes any other for blocked (`RetireReady`, `RetireBlocked`). It leaves `currentProc` as it is.
5. The test for a device semaphore in `sys2` goes up to `&deviceLookup[7][8]`, the array's dimensions taken for
   its last index: nine words past its end (`PastLookup`).
6. `getDevNum` compares the whole bit map with one bit at a time: two devices of a line give -1 (`DevNum`).
7. `ioTrapHandler` signals `deviceLookup[line-2][devNum]` for both halves of a terminal; `sys8`
   waits on the next row for the receiver (`IntrSem`, `WaitSem`).
8. `ioTrapHandler` stores the status through the pcb `removeBlocked` returned, without a test for NULL.
9. `toggleInterrupts` (`initProc.c:34-47`) keeps the status to go back to in one global, shared by all processes and
   by the nested pairs of calls in `userTLBHandler` and `readOut` (`TurnOff`, `TurnOn`).
10. `passUpOrDie` copies the state of a SYS call above 8 with the same `moveState` into `procMeta[asid-1].uold_trap[SYSTYPE]`; the three
   words behind it are the asid, cause and status of `unew_trap[TLBTYPE]`, the vector of page faults (`tlbNew`, `EnterTLBHandler`).
11. `MAXUPROC` is 1 (`const.h:26`). With one user process the code runs as built; the models take the number as a
   parameter because everything in phase 3 is written for eight.
12. SYS16 commands printer 0 and waits for printer asid-1 (`vmIOsupport.c:208-215`), reads the status from the device register when the
   interrupt has been acknowledged, and ends the process without a V when its arguments are bad.
13. `readAndStore` gives disk 0's semaphore back between SEEKCYL and WRITEBLK (`initProc.c:88-94`).
14. `userTLBHandler` computes the segment of the faulting address and does not use it (`vmIOsupport.c:109`).
15. `userSyscallHandler` negates `i` after an error and then returns `totalTransmit` (`vmIOsupport.c:269`).
16. SYS18 V's `masterSem` and then terminates itself in two system calls (`vmIOsupport.c:178`): `test` may be through its last P, and
   call SYS2, while a child is still between the two. That child has entered the nucleus, so its `p_semAdd` is junk (fact 1): `sys2` takes it out of the
   tree, finds no semaphore, and traps on the increment (`exceptions.c:252`); `prgTrapHandler` calls `sys2` on `test` again, which now has
   one child less, and so on until `test` is gone. The children live on without a parent and come to their own SYS2 (`EndTest`, and `Entered`, `NestedTrap` in the nucleus).
17. The new-process result of SYS1 and the result of SYS6 are written after the state was saved; they
   change no state that the properties see.

## 2. Modules

Phase 1, pointer by pointer, each with the abstract specification it implements:

    PcbTable                    a table of linked records, and pointers into it
      ProcQueue -> PcbLists     queues and the free list by p_next, p_prev and tails             ProcQueueProofs
        Asl     -> PcbLists     the sorted list of descriptors, whose tails the queues hang on   AslProofs
      ProcTree  -> Forest       p_prnt, p_child, p_lSib, p_rSib                                  ProcTreeProofs
        MCStructures            Asl and ProcTree, for TLC

An arrow leads to the abstract specification a module implements; the queues of `Asl` are those of `ProcQueue`, which it extends.

Phase 2, on queues as sequences:

    PcbQueue          queues as sequences; what outProcQ does in each position
      NucleusState    constants, assumptions, variables, Init, shared helpers
        Scheduler     Dispatch, Recharge, NothingReady
        Syscalls      SYS1-SYS8, pass up or die, sys2 as a machine, nested traps
        Interrupts    local timer, interval timer, devices, device interrupts
          Nucleus     Next, Spec, fairness, the properties
            NucleusInv    the inductive invariants
              NucleusLife   the refinements of ProcessLife and ProcessCalls
              MCNucleus     instances for TLC
    ProcessLife       what the nucleus promises: processes, semaphores with permits, events
    ProcessCalls      the same without turns: what a process may ask of the nucleus, and what comes of it

    PcbQueueProofs -> PlaceProofs -> NucleusProofs

Phase 3, over what it uses of the nucleus:

    SupportState      processes, semaphores, storage and devices; SYS3, SYS4, SYS7, SYS8, toggleInterrupts
      Loader          test, professor, readAndStore
        Pager         userTLBHandler, readOut, writeOut, page faults, stores of a program
          UserCalls   userSyscallHandler, userPrgmHandler
            Support   devices, clock, Next, Spec, fairness, the properties
              SupportInv    the inductive invariants       SupportProofs -> MemoryProofs
                MCSupport   instances for TLC
    UserMemory        what a program is promised: a memory of its own, with its image in it

### The linked structures

`ProcQueue` has the pointers as functions from pcbs to pcbs or NULL, and each routine of `pcb.c` as an action that
writes the pointers the routine writes. A load through NULL, the endless walk of `isInQ` and a queue whose tail pointer names an unlinked pcb
are values of `fault`: `outProcQ`'s local copy of the tail pointer is there, so removing the last of several leaves
`dangling`, and a pcb that is absent traps or hangs. After a fault this module goes no further. After a trap or in a loop the code does not either; with a queue known by an unlinked pcb
it does go on, and what follows is in the nucleus's model (`stray`). Up to that point `ProcQueue` implements `PcbLists` (`ListsKept`). `ProcTree` implements `Forest` without
restriction (`TreesKept`). `Asl` extends `ProcQueue` with the descriptors, each of which owns one of its tail pointers: `findParent`'s walk over the sorted list
between the dummies 0 and `MAXINT`, `popFree`, `pushFree`, the address each waiting pcb keeps in `p_semAdd`, and `roHelper`, which calls an action of `ProcQueue` on the queue
it finds and takes a descriptor whose queue became empty out of the list. `insertBlocked`, `removeBlocked` and `outBlocked` are whole: an `outProcQ` that
traps, hangs or loses a tail does so here too. To its callers it implements one sequence per semaphore (`QueuesKept`). `OutcomePredicted` in `ProcQueue` is the bridge to
phase 2: what `outProcQ` does with pointers is what `OutProcQ` of `PcbQueue` says, fault for fault.

### State of the nucleus

| Variable | Code |
|---|---|
| `kpc` | where control is: a process runs (`run`), `scheduler()` is to choose (`schedule`), `sys2` works (`terminate`), the nucleus itself has trapped (`trap`), `WAIT` (`wait`), `HALT` (`halted`), the PANIC of a deadlock (`deadlock`), any other PANIC (`panic`), an endless loop (`hung`), an operation has followed a stray tail (`astray`) |
| `currentProc`, `mlpq`, `procCnt`, `softBlockCnt` | the globals of the same name |
| `blocked` | the ASL: for each semaphore the queue of its descriptor; a semaphore without a descriptor has the empty queue |
| `stray` | for each ready queue and each semaphore: the pcb that was freed as the tail of its queue and that the tail pointer still names, or NULL |
| `semVal` | the integer at each semaphore's address |
| `pcb` | `p_semAdd`, `totalProcTime`, `timeLeft`, and the set of types SYS5 was called for |
| `kids` | the children of each process, `p_child` first |
| `free` | `pcbFree_h`, as a set |
| `dying` | the arguments of the active calls of `sys2`, innermost last: the C stack |
| `busy`, `pending` | devices at work, devices whose interrupt is not acknowledged |
| `request` | the device a process has commanded and not yet waited for |

### Actions of the nucleus

One action is one handler with every call it makes. `CreateProcess` and `NoFreePcb` are SYS1,
`TerminateProcess` SYS2, `Verhogen` and `Passeren` SYS3 and SYS4, `SpecifyVector` SYS5, `GetCpuTime` SYS6,
`WaitForClock` SYS7, `WaitForIO` SYS8; `TlbException`, `ProgramTrap`, `UserModeSyscall` and
`HighSyscall` are the exceptions passed up. `ProcTimer`, `IntervalTimer` and `DeviceInterrupt` are the three
branches of `ioTrapHandler`. `scheduler()` that calls itself is split at the calls. `sys2` is one action per stage of a call
(`TakeChild`, `RetireCurrent`, `RetireReady`, `RetireBlocked`) because a trap can end it between two stages;
`NestedTrap` is `prgTrapHandler` entered from inside the nucleus. `ScheduleAstray`, `CallAstray` and `InterruptAstray` are the same handlers
where they use a stray tail (below). `CommandDevice` is a process's store to a device register
and `DeviceDone` the device: both are external to the repository.

#### Stray tails

When `sys2` kills the last of several pcbs of a queue, nothing stops: counter or semaphore are updated, the pcb is freed,
`sys2` returns to its caller and that goes on to the scheduler (`exceptions.c:244-258`). `RetireReady` and `RetireBlocked` do all of it and record the
tail in `stray`. From then on the sequence in `mlpq` or `blocked` is the circle of pcbs that the tail pointer no longer leads to. What the code then does
with that queue is modelled as far as the queue matters:

* `emptyProcQ` finds it not empty (`NonEmpty`, `HasSemd`), so `nextProc` chooses a stray ready queue and the idle scheduler does not HALT or PANIC for its sake;
* `outProcQ`, while the tail's pcb is free, walks down the free list to its NULL and finds nobody (`OutAt`); who was cut off
  leaves the circle by being freed (`Leave`);
* every other operation - an insertion, `removeProcQ`, or `outProcQ` when the pcb has been handed out again - reads or writes through the freed pcb. Which queue or free
  list that ruins depends on the order of the free list, and the model ends with `kpc = "astray"`: nothing is claimed of the system from there on.

All else goes on: other queues are scheduled, semaphores and devices used, further processes killed. Properties that a stray tail does not
touch (counters, semaphores, the tree, where a pcb's fields say it is) are stated until `astray`; `OnePlace` as long as no tail is stray (`Intact`). 
The comment of `outProcQ` (`pcb.c:249`) promises to "Update the porcess queue's tail pinter if necessary". Checking `Intact` under `Kill.cfg` shows how little
it takes, seven states: a process with two children that have not run yet calls SYS2.

### Abstractions in the nucleus

* A queue is a sequence, the free list a set, the children of a process a sequence. The ASL is a function from
  semaphores to queues; what is kept of its list is how many descriptors there are (`NoSemd`). Which free pcb
  `allocPcb` returns is a choice over all of them.
* A semaphore of the nucleus is its index in the flat `deviceLookup` (an integer), so that indexing with -1 or one row
  off gives the semaphore the code really touches. Semaphores of processes are model values.
* Time is counted in units: `QUANTUM` and the lengths in `Elapsed`.
* A processor state is not modelled: registers, addresses and messages are data. Neither is `waitedForIO`,
  which is TRUE only between the assignment and the call of `putInQ` that reads it: it is an argument.
* `IncrementDevice` does not count a device semaphore above `MaxSem`.

### State and actions of the support level

| Variable | Code |
|---|---|
| `kernel` | `up`, or how the machine stopped: `halted`, `deadlock` (PANIC of the scheduler), `panic` (PANIC of `readOut`), `trap` (the nucleus, see fact 8), `astray` (a handler that works on `procMeta[-1]`) |
| `masked` | the process that runs with interrupts off, if any |
| `pc`, `io` | where in `initProc.c` or `vmIOsupport.c` each process is; how far in "interrupts off, command, SYS8, interrupts on" |
| `status`, `currentStatus` | interrupts and address translation of each process; the global of `toggleInterrupts` |
| `sem`, `blocked` | `masterSem`, `swampMutex`, `deviceMutex` of disk 0; who waits for them, the clock and the devices |
| `local` | the handlers' locals: cause and page of the fault, frame, arguments of the call, loop counter |
| `tlbNew` | `unew_trap[TLBTYPE]`: as SYS5 got it or overrun |
| `swamp`, `victim`, `pte`, `tlb` | `swampPool`, the static of `pickAVictim`, `procMeta[].Tproc_pte` by page, the TLB |
| `ram`, `disk`, `arm`, `buffer`, `tapePos` | contents of frames, blocks and tape buffers as (process, page, version) |
| `busy`, `reply` | commands at work; whether SYS8 last returned READY |

An action is the code from one place where another process, a device or an interrupt can come in to the next: a system call of the nucleus,
a toggle, or the end of a handler. `Professor` is the path from `professor` to the first instruction of the program; `TLBHandler`
and `SyscallHandler` have one disjunct per stage. `Store`, `PageFault`, `Call` and
`ProgramTrap` are what a program may do at any moment, within the workload constants.

Abstractions: a block is the page it should be and the number of stores to it; characters are counted. Each `toggleInterrupts` is one step:
the places between its assignment and its `setSTATUS` let nothing in that the model cannot show elsewhere. A device that
ends its command has its interrupt taken in the same step when interrupts are on: nothing
reads a device's status in between but SYS16, whose status is that after the acknowledgement. The tables that map the
system's own pages one to one are data; so are stacks. `Alive`, `Deadlock`, `Tick` and the devices are the nucleus as `Nucleus` models it,
reduced to what phase 3 uses; that this is what `Nucleus` does is the business of `ProcessCalls`, which both implement (`CallsProvided`, proved; `CallsKept`, checked and proved). A SYS2 ends its caller, and the machine HALTs with the last process (`Dies`); when children of `test` live they live on (fact 16).

## 3. Runs

### Bounds and workload of the nucleus runs

| Constant | Value | Why it is enough |
|---|---|---|
| `Proc` | 3 pcbs (20 in the code) | 3 make a parent, a child and a third party, a tree of depth 3, and queues with a head, a tail and a place between; what the proofs cover does not depend on the number. SYS1 meets the empty free list often |
| `UserSem` | 0 or 1 | more semaphores are independent queues; interference between them is through the pcbs |
| `Device` | 0 to 2, in the code's own numbering | each instance has the devices its question is about: on different lines, on one line, both halves of a terminal |
| `QUANTUM`, `Elapsed` | 2, {1}; in `live` {2} | one unit less than a quantum and a whole quantum are told apart. A process that SYS7 charges a whole quantum and the tick puts into `MLPQ[0]` is recharged into `MLPQ[1]` (`scheduler.c:130-133`), which `live` is to meet |
| `MaxSem` | 1 | bound on V: one more than is needed to see a P that does not block |
| `ClockFloor` | -(number of pcbs) | bound on SYS7 (a guard of `WaitForClock`): kills drive the clock semaphore down between two ticks; never met when nobody who waits is killed |
| `VectorTypes` | {}, {1} (program traps) or {2} (high system calls) | for which exceptions processes call SYS5. With {1}, in `kill` and `early`, a process goes on in its own handler after its SYS2, or an interrupt, has trapped half way |
| `KillTrees` | FALSE: a process dies when all its children have entered the nucleus since they were created or woken and have no children, as those of `test` (fact 16), or when it has none | TRUE: any process may, at any time |
| `EarlyInterrupts` | FALSE: command and SYS8 are one step, as in phase 3, which turns interrupts off around them and keeps one process per device by `deviceMutex` | TRUE: they are two |
| `PastLookup` | {} | no process semaphore is linked in the nine words after `deviceLookup` |

`Interchangeable` permutes the pcbs except that of `test`; no definition tells the others apart. `Live` uses no symmetry.
`CHECK_DEADLOCK` is on everywhere: stopping is the explicit action `Stop`.

### Bounds and workload of the other runs

| Constant | Value | Why it is enough |
|---|---|---|
| `MAXUPROC` | 1 as built, 2 as designed | two make every conflict there is: over disk 0, the swap pool, `currentStatus` |
| `NUMOFSWAMP`, `KUSEGPTESIZE` | 1 or 2 frames, 2 or 3 pages | fewer frames than pages: every fault after the first ones evicts, its own page or the other process's |
| `Blocks` | 1 or 2 blocks | a loop with a second round, and an image shorter than the memory |
| `UserCall` | SYS10, 13, 16, 17, 18 with legal arguments (`LegalCalls`), refused ones (`BadPrints`), a mixture for `boot` | each branch of `userSyscallHandler`; strings in paged memory and outside |
| `Segment` | {2}, {} without paging | where a program faults. A fault in segment 3 never ends (fact 14); `FramesExact` and the runs are about programs that stay in segment 2 |
| `ProgramErrors`, `FaultAfterCall` | may a program trap, may it fault after its first SYS call | FALSE where the question is about what happens without |
| `DeviceErrors` | the commands that may fail: printed characters in `uproc`, seeks in `paging`, all but the pager's transfers in `boot` | each branch on a status is taken in some run; nothing is promised of a page whose transfer failed, since the code does not look at that status |
| `MaxVersion`, `TicksPerSecond` | 1 or 2; 1 or 2 (10 in the code) | bound on stores to a page; length of a loop |
| `Pcb`, `InUse` | 4 pcbs, all of them in a tree, at most 3 allocated with the semaphore list | first, middle, last and only element of each list, on both sides |
| `Queue`, `SemAdd`, `MAXINT` | 4 descriptors, which own the queues, 3 semaphores, 4 | the code has as many descriptors as pcbs. Three waiting processes fill one queue or three, so that a descriptor is put in and taken out in front, between and last, and the search fails in each place; the mutant that loses descriptors runs out of them |

`structures` uses the semaphore list with its queues, or the trees, in a behaviour (`used`): they link a pcb by different fields, so that operations on one
mean nothing to the other. `Interchangeable` permutes pcbs and descriptors; semaphores are numbers, because the list is sorted by them. `paging` starts in `AllLoaded`, the state in which every program has been loaded and none has executed an instruction:
two processes that load at the same time spoil each other's image (fact 13), and what paging does to a memory is
asked for images that are right. `AllLoaded` is reached when the loaders run one after the other.

### Runs that pass

| Run | Instance | Distinct states | What it shows |
|---|---|---|---|
| `core` | 3 pcbs, a mutex, a disk and a tape, handlers for high system calls; a process ends without children or, as `test`, with children that have entered the nucleus | 1,201,866 (depth 48) | used as phase 3 uses it the nucleus is right: device semaphores exact, no wake-up lost, the idle scheduler's verdict right, no stray tail, no loop, no lack of descriptors, and no nested trap but within a SYS2 on such a child |
| `kill` | 3 pcbs, a mutex and the clock, handlers for program traps; any process may be killed with its subtree, in any state | 1,029,635 (depth 86) | what holds while SYS2 traps, loops or frees the tail of a queue - the caller may then go on in its own handler - and after that until the tail is followed: places told by the fields, the tree, the counters, the semaphores of the processes, the scheduler's reasons to stop; and `LifeKept`: each of these steps, mid-kill and mid-trap, is a step of `ProcessLife` or none (so, by a theorem, of `ProcessCalls`). Kills of processes that wait for a device would be beyond the time of a run; the clock takes the same branch of `sys2`, and the theorems have any set of devices |
| `early` | 3 pcbs, a disk commanded before SYS8 with interrupts on, handlers for program traps | 1,523,507 (depth 57) | an interrupt handler that traps half way, re-enters the nucleus and is resumed neither loses nor doubles a process, as long as no tail is stray |
| `live` | 3 pcbs, a disk, ticks as long as a quantum, no symmetry, `FairSpec` | 72,111 (depth 49) | waiting for a device or the clock ends, and who is in the top queue with some of its quantum left runs |
| `structures` | 3 of 4 pcbs, 4 descriptors, 3 semaphores; 4 pcbs in trees | 9,078 (depth 23) | the circles are circles, each pcb in one; links of a tree agree with each other; the ASL is sorted and complete, with a descriptor left for each process that may have to wait; pointers implement queues, a stack, lists of children and one queue per semaphore; `outProcQ` ends as `PcbQueue` says |
| `uproc` | 1 user process, 3 pages in 2 frames, all legal calls, program errors, a terminal or printer that fails, `FairSpec` | 100,916 (depth 199) | as built, from boot to HALT: page faults are served or end the program, no deadlock, the machine HALTs when every program has announced its end, whoever comes to SYS2 first (`TestEnds`), and the program sees `UserMemory` |
| `boot` | 2 user processes that type, wait, make a refused SYS16 and end; program and device errors, no paging | 425,454 (depth 79) | loading, typing, waiting and ending in every interleaving: no wake-up and no command to disk 0 is lost; the scheduler gives up only when a child has ended without its V; `test` calls SYS2 only when each child has nothing left but its own (`NoChildCutShort`); and `CallsKept`: the level asks of the nucleus only what `ProcessCalls` offers. An accepted SYS16 is not among the calls: with two processes printer 0 has two users (fact 12) |
| `paging` | 2 programs, 2 pages each in 2 frames, seeks that fail | 154,753 (depth 186) | the programs evict each other's pages while these are wanted back: each keeps its memory; `LockInv` (with it `SwampMutexExact`) and `FrameInv`, on which the proofs rest |

### Fairness

`Fairness` is the least that the code and the hardware justify:

* weak fairness of the nucleus's own steps (`Schedule`, `Sys2`, `NestedTrap`): interrupts are off, the code just runs on;
* weak fairness of each `DeviceDone`: a device that got a command finishes it;
* weak fairness of `ProcTimer`: the scheduler loads the local timer before each dispatch, so a process that keeps the processor loses it;
* strong fairness of `IntervalTimer` and `DeviceInterrupt`: both are level-triggered, pending until handled, and taken whenever
  interrupts come back on, however short each period with interrupts on is. Weak fairness would let a sequence of
  system calls postpone them for ever.

Processes get no fairness: they may do nothing but run. `TopPriorityRuns` is about a process in `MLPQ[0]` that has not used up a quantum: one that has may be there because a
tick woke it, is recharged into `MLPQ[1]` when its turn comes, and may starve there.

`FairSpec` of `Support` has weak fairness of the code of `test`, of each loader and handler, of each device, of the clock and of the
scheduler's verdict. `uproc` uses it with one user process, as built: `test` then waits on `masterSem` whenever the user process runs, so
nothing competes for the processor, and a step that is enabled stays so until it is taken; with more processes the queue levels of the
nucleus would not give every one of them the processor. Programs get no fairness here either.
The lower queues of the nucleus can starve by design.

### Runs that refute a statement of the repository

Each checks one property taken from a comment; TLC shows a short behaviour of the code that violates it.

| Run | Property | Comment | What happens |
|---|---|---|---|
| `orphans` | `NoOrphans` | `exceptions.c:208` "all progenies of this process are termiated as well" | a child is unlinked from the tree, its removal from a ready queue traps, and the re-entered handler kills or resumes the parent: the child lives on outside the tree. It happens in phase 3's own use too, to a child between its V and its SYS2 (fact 16) |
| `same_line` | `HighestPriorityDevice` | `interrupts.c:70` "the device number of the highest priority device" | two printers finish together: -1 |
| `bad_print` | `NeverDeadlocks` | `initProc.c:164` "P and then calls Sys2" | a SYS16 with bad arguments ends the child without a V: `test` waits for ever |
| `after_call` | `FaultReachesHandler` | `exceptions.c:318` "The processor state area that is to be taken as the new processor state" | the vector of page faults is overrun by the first SYS call |

Where the other facts of section 1 differ from a comment, the models have what the code does, and the runs above take place in the presence of it.

Every property of a passing run has a mutant in `PROJECT.json`: a plausible slip in one definition that makes TLC
find the property violated. The mutated forms stand next to the definitions, marked `Mutant`.

## 4. Proofs

### The nucleus

The theorems are in `NucleusProofs`; they hold for every value of the constants that meets the named assumptions:

* `ProcAssumption` - finitely many pcbs, that of `test` among them;
* `SemAssumption` - semaphores of processes are not entries of `deviceLookup`, and the junk `moveState` leaves in `p_semAdd` is no semaphore's address;
* `TimeAssumption`, `DeviceAssumption`, `WorkloadAssumption` - the types of the other constants; devices are on lines 3 to 7, receivers on line 7.

| Theorem | States | Extra assumption |
|---|---|---|
| `Invariant` | `TypeOK` always; `IInv` until `astray` | |
| `TypeCorrect` | `TypeOK` | |
| `OnlyStrayTailsLeadAstray` | without a stray tail the nucleus is never led astray | |
| `EveryPcbInOnePlace` | `OnePlace`: as long as no tail is stray, a pcb is free, running, or once in one queue | |
| `TreeIsSound` | `FamilyKept`: until `astray`, a forest of live processes without cycles, so that the recursion of `sys2` is finite | |
| `CountersAreExact` | `CountsExact`: until `astray`, `procCnt` and `softBlockCnt` are what they count | `PastLookup = {}` |
| `SemaphoresAreExact` | `SemaphoresExact`: until `astray`, a process semaphore is minus the number that wait | `PastLookup = {}` |
| `SchedulerStopsRightly` | `StopIsRight`: HALT only without live processes, PANIC for a deadlock only when all live processes wait for each other | `PastLookup = {}` |
| `FieldsTellThePlace` | `FieldsTellPlace`: until `astray`, from a pcb's own fields one knows where it is | |
| `NucleusImplementsLife` | `LifeKept`: the nucleus implements `ProcessLife`, until it fails | `PastLookup = {}` |
| `NucleusProvidesCalls` | `CallsProvided`: the nucleus implements `ProcessCalls`, until it fails | `PastLookup = {}` |
| `DeviceSemaphoresAreExact` | `DeviceSemaphoresExact`: a device's semaphore is minus the number that wait | `CarefulUse` |
| `NoWakeupIsLost` | `NoLostWakeup`: who waits for a device waits for one that works or interrupts | `CarefulUse` |
| `SchedulerIsRight` | `VerdictIsRight`: HALT, PANIC and WAIT each only when right | `CarefulUse` |
| `NucleusIsSound` | `NucleusSound`: no stray tail, no endless loop, no PANIC but the scheduler's, no trap but within a SYS2 | `CarefulUse` |

The first eleven cover every workload: nested traps, early interrupts, any set of devices, and kills of whole trees with the stray tails that they leave - up to the
first operation that goes through one (`astray`), and `OnePlace` up to the first stray tail, since a stray tail is a freed pcb that a queue still leads to. From `astray` on only
`TypeCorrect` says anything, and the code promises no more: it then works on the free list as if it were a queue. Counters and semaphores also
end at the PANIC of a P without a descriptor (`OnCourse`), since the value has been decremented and the process is in no queue; a stray tail keeps its
descriptor, so with one a P may lack one. `PastLookup = {}` is needed: a
process semaphore in the nine words after `deviceLookup` would be taken for a device's by `sys2`, its P never undone and
`softBlockCnt` wrongly decremented. It is a statement about the link map, not about the C code, hence an assumption.

The last four are about the nucleus as phase 3 uses it, which `CarefulUse` of `NucleusInv` states: a process ends when each of its children has entered
the nucleus since it was created or woken and has no children (`Entered`; or has none), a command and its SYS8 are one step for everybody else, and each line has one device, a terminal's transmitter if a terminal. With one
user process (fact 11) this is what phase 3 does: it has one tape, disk, printer and terminal, turns interrupts off around each command, and
`test` calls SYS2 when every child has done the V of SYS18 at least (`TestWaitsForAll`, for programs whose calls are not refused; with a refused SYS16 `test` never comes so far).
`sys2` then traps on a child that is left, once for each, and the children outlive `test` as nobody's children (fact 16): `NucleusSound` allows
just this trap, and nothing like `NoOrphans` holds. Each part is needed: with
kills of fresh children `sys2` leaves a stray tail; when the interrupt comes before SYS8 the handler stores through NULL (fact 8);
two devices of a line make `getDevNum` answer -1 (fact 6, run `same_line`) and a receiver is waited for in the wrong row (fact 7).

#### The argument

`OnePlace` is not inductive: to know that the process `sys2` removes from the queue of `p_semAdd` *is* there, one needs to know
that `p_semAdd` tells the truth. `IInv == TypeOK /\ PlaceInv /\ FamilyInv` (module `NucleusInv`):

* `PlaceInv` says where each pcb is *from its own fields*: a live process whose `p_semAdd` is a semaphore is in that semaphore's queue - or in the circle cut off from its stray tail -
  and nowhere else; any other live process is running or in exactly one ready queue. It holds in spite of fact 1 because
  `moveState` writes a non-semaphore into the *running* process only, and the handlers that block a process write `p_semAdd` after it.
* `FamilyInv` has the tree, the stack of `sys2` (which starts at the current process and holds processes taken from their parents),
  and `Acyclic`, by which `sys2` never meets a process twice.

`PcbQueueProofs` has the lemmas on sequences (what appending, taking the head, removing and concatenating do to elements and injectivity);
`PlaceProofs` has one lemma per action for each of the three parts.
`NucleusProofs` adds `CountInv`, inductive relative to `IInv`: cardinalities change by one because, by `BlockedInv`, the
process that leaves or enters a queue was or was not in it, and a kill that leaves a stray tail changes them like any other. `SchedulerStopsRightly` follows: with empty ready queues and no current
process every live process waits, and with `softBlockCnt = 0` none waits for a device; a ready queue with a stray tail does not look empty, so the scheduler does not come to stop.
`OnlyStrayTailsLeadAstray` goes through the handlers: each of their guards for a way astray names a stray tail.

`NucleusImplementsLife` maps initial states to initial states and every action to a step of `ProcessLife` or to none. The
mapping takes the running process from `currentProc` and `kpc`, the permits of a semaphore from its counter and the length of its queue: what the counter would be if nobody waited. (The positive part
of the counter would be simpler and too weak: a P that passes at 0 would then be no step at all.) That an action
is a `Passeren` or `Verhogen` of `ProcessLife` needs `SemaphoresExact` (the counter is negative exactly when the
queue is not empty); that `Halt` and `Deadlock` are justified is `StopIsRight`; that a death in `sys2` takes the process out
of the queue it is in, and of no other, is `PlaceInv`. `PastLookup = {}` comes in through the first two. An endless loop, a P without a descriptor and `astray` are
the step `Fail` of `ProcessLife`, to the verdict `failed` after which it takes no step: all that went before is judged, and the failure is visible as one.
`NucleusProvidesCalls` follows: the process that runs is alive and waits for nothing (`RunningCalls`), so what `ProcessLife` lets it do
`ProcessCalls` does too, and turns that begin or end change nothing there.

The last part of `NucleusProofs` adds `UsageInv`, inductive relative to `IInv` and `CountInv`. Its core is `DeviceInv`: each device that works or interrupts has
exactly one process in its semaphore's queue, and an idle one has none. So an interrupt always finds a process to wake
(`InterruptOf` shows that `getDevNum` finds the device), nothing is stored through NULL, and whoever waits for a device will be woken.
`IdleInv` carries this into WAIT: the processor waits only when a process is queued on the clock or on such a device,
because `softBlockCnt`, exact by `CountInv`, was not 0. `DeathInv` says that `sys2` works on the current process, or on a child of it that has entered the nucleus; the first is in no queue
and for the second `outBlocked` finds no semaphore, so that no `outProcQ` is called that could loop or leave a stray tail. `NoSemd` is excluded by a pigeonhole: without a stray tail each descriptor in use
has a process in its queue, and none of them is the running one.

### The process tree

`ProcTreeProofs` proves `LinksAreSound` for any number of pcbs: `TypeOK /\ LinksSound` is inductive, one lemma for each of
`insertChild`, `removeChild` and `outChild`, each of which states the new pointers as functions of the old ones first.

From it `ChildrenAreLists` proves `TreesKept`, that each operation is the one `Forest` has on lists of children. The inductive invariant adds
`KidsInv`: the right links lead from `p_child` through a sequence without repetition, and it has exactly the pcbs that name
the parent. The links alone do not say so: a circle of siblings beside the list would satisfy `LinksSound`. That `p_leftSib` finds the pcb before the
one that `outChild` takes out is `LinksSound` again; the chain then goes round it (`ChainUnlink`), and the lemmas on chains (`ChainPush`, `ChainPop`,
`StackRead`) are those of the free list.

### The process queues

`ProcQueueProofs`, for any number of pcbs and queues (`PcbAssumption` of `PcbTable`: finitely many, and NULL is none):

| Theorem | States |
|---|---|
| `PointersMakeQueues` | `WellFormed`: queues are circles in both directions, the free list a chain, every pcb in one place |
| `PointersMeanQueues` | `OutcomePredicted`: `outProcQ` ends as `PcbQueue`, on which the nucleus is modelled, says of the sequence |
| `PointersImplementLists` | `ListsKept`: each operation is one on a stack and first-in first-out queues |

All three hold until `outProcQ` takes the tail of several (fact 3), which the modules of phase 1 do not follow further.

The inductive invariant is `Shaped`: the sequences that the pointers lead through, `Chain` from the head of the free list and `Circles` from the tails,
are linked pcb by pcb (`ChainOf`, `CircleOf`), and share none. Each operation is shown to link the pcbs of a
new sequence (`ChainPush`, `ChainPop`, `CircleAppend`, `CircleUnlink`); that following the pointers then *reads* this very sequence is `RingRead` and
`StackRead`. These are inductions on the number of steps: `Behind` is a recursive function, whose equations hold because such a
function exists for every bound (`FollowExists`), and the induction is a least counterexample (`Least`, from `NatLessThanWellFounded`). The
cycle closes within as many steps as there are pcbs, because it has none twice (`NoLonger`). With the circle read, the search loop of
`isInQ` stops without an answer exactly at a pcb alone in its circle, which is where its three bad ends come from (`OutcomeRead`).

### The active semaphore list

`AslProofs`, for any number of pcbs and any set of semaphores, under `PcbAssumption`, `SemdAssumption` (as many descriptors as pcbs, the two dummies apart) and
`SemAddAssumption` (the address of a semaphore lies strictly between those of the dummies, 0 and `MAXINT`):

| Theorem | States |
|---|---|
| `AslInvKept` | the inductive invariant `AslInv` |
| `ListIsSound` | `ListSound`: the list is sorted, every descriptor is in it or free, it is in it exactly while its queue is not empty, and who waits knows the semaphore |
| `DescriptorIsLeft` | `DescriptorLeft`: `insertBlocked` never lacks a descriptor |
| `AslImplementsQueues` | `QueuesKept`: to its callers the list is one first-in first-out queue per semaphore |

`AslInv` has three parts. `Listed` is about the descriptors alone and holds always: the pointers lead from `ASL_h` and from `semdFree_h` through two sequences that
share no node and have all of them between them, the first from dummy to dummy with rising addresses - for each two places, not only for neighbours, since the step that
takes a descriptor out makes neighbours of others. `Shaped` is the invariant of the process queues, and `Waits` ties the two together: the queue of a
listed descriptor is not empty, that of a free one is, and the pcbs in it carry its address. These two hold until `outProcQ` takes the tail
of several (fact 3). The free descriptors must be known to have *empty* queues: otherwise `insertBlocked` would append to the processes of another
semaphore.

A chain of descriptors is a chain of pcbs with other names: `AslProofs` takes the lemmas on chains from `ProcQueueProofs` through an instance with the descriptors
for the pcbs (`Nodes`), and adds insertion in the middle (`NodesInsert`). `Search` says where `findParent` stops: at the last node whose address comes before
the one looked for, so that the node behind it has that address or none has (`OneDescriptor`). `ListInsert` and `ListDelete` then show that putting a descriptor in and
taking it out there keeps `Listed`. The invariant makes the address in `p_semAdd` lead `outBlocked` to the very queue the pcb is in, if it is in any.

For `QueuesKept` each step changes the queue of one semaphore and leaves all the others alone although every search starts anew on other pointers
(`OneSemaphore`): what a semaphore's queue is depends only on which descriptors are listed, not on how. `DescriptorIsLeft` is a pigeonhole: with every
descriptor listed each of them has a head in its queue, different ones, as many as there are pcbs; a pcb that is about to wait would be one of them.

### The support level

`SupportProofs` and `MemoryProofs`, under `SizeAssumption` (one to eight processes, since each has a device of its own on lines of eight; any number of pages and frames) and `WorkloadAssumption`:

| Theorem | States | Extra assumption |
|---|---|---|
| `DiskExcludes` | `DiskMutexExact`: disk 0 is used by one process at a time, and its semaphore counts exactly | |
| `SwapPoolExcludes` | `SwampMutexExact`: the same of the swap pool | |
| `FramesAgree` | `FramesExact`: when no fault is served the swap pool, the page tables and the TLB agree | `Segment = {2}` |
| `SchedulerGivesUpRightly` | `DeadlockIsRight`: PANIC for a deadlock only when every child has ended and V's of SYS18 are missing | |
| `SupportKeepsCalls` | `CallsKept`: the support level implements `ProcessCalls` | |
| `WakeupsArrive` | `NoLostWakeup`: a command and its SYS8 are one for everybody else | `PrintsAlone`, `NullIsNoCommand` |
| `DiskIsIdle` | `CommandsReachDevice`: who is about to command disk 0 finds it idle | the same |
| `LocksAreSound` | `LockInv`: both mutexes with their queues, and no child twice | |
| `PoolIsSound` | `FrameInv`: the swap pool half way through a fault | `Segment = {2}` |
| `LoadedIsSound` | both of them from any state in which all programs are loaded, where `paging` starts | `Segment = {2}` |
| `LegalCallsNeverDeadlock` | `NeverDeadlocks`: the scheduler never gives up | `LegalCallsOnly` |
| `TestWaitsForAll` | `NoChildCutShort`: `test` calls SYS2 only when every child has announced its end or is gone | |
| `SupportTypes` | `TypeOK` | `PrintsAlone`, `NullIsNoCommand` |
| `FaultsAreServed` | `FaultServed`: a program goes on after a fault with its page in a frame | one process, `Segment = {2}`, `NullIsNoCommand` |
| `MemoryIsKept` | `MemoryKept`: loading and paging implement `UserMemory` | one process, `Segment = {2}`, no device errors but of characters, `NullIsNoCommand` |
| `MemoriesStayKept` | `MemoryStaysKept`: paging of loaded programs implements `UserMemory` | `ProperUse`: `Segment = {2}`, `PrintsAlone`, `NullIsNoCommand`, no disk transfer of the pager fails |

The first two hold for every workload: bad arguments, program traps, failing devices, faults after a SYS call. Mutual exclusion by itself is not
inductive, because a V hands the mutex over: `Mutex(s, places)` of `SupportInv` says that either the semaphore is 1 and nobody is
inside or waits, or one process is inside and the others in these places are exactly the queue, without repetition, and
the counter is minus its length. A P and a V each keep it by a lemma about sequences (`MutexP`, `MutexV`), and every other action
leaves semaphore, queue and places alone. `Births` (no child is created twice) completes `LockInv`.

`FrameInv` says what holds *while* a fault is served, where `FramesExact` is silent: the frame the handler has taken is no page's
(`Taken`), every other frame is its page's and every valid entry its frame's (`PoolAgrees`), and the page the fault is about is still
invalid (`FaultStands`) - else `Validate` would give a page two frames. The last needs two more facts: a process that
waits for `swampMutex` does so before it has a frame (`WaitsAtVictim`), and a handler of a SYS call never reaches the TLB handler
(`VectorLost`, by fact 10), so that no process has two faults at once. `Segment = {2}` is needed: a fault in segment 3 on a page whose namesake in segment 2 is valid
breaks `FaultStands` and then `FramesExact` (the hazard at `vmIOsupport.c:109`).

`SchedulerGivesUpRightly` says that the mutexes, taken in the order swap pool, disk, cannot make the processes wait for each other. When
everybody alive waits for a semaphore, the process that has disk 0 does not wait for the disk (`Mutex`), nor for the swap pool (`WaitsAtVictim`, which
holds without an assumption on `Segment`), nor for `masterSem` (only `test` does, `Master`); so nobody has the disk and nobody waits for it. Then the
process that has the swap pool would wait for nothing either. What is left is `test`, which has created every child (`TestInv`) and waits with
`masterSem` at -1.

For the other two, `IOInv` says for each device at work which process it `Serves`: one that has given the command and not yet called SYS8, and then runs with
interrupts off and nobody else does, or one that is alone in the device's queue. That the next command finds the device idle is `OneUser`: a process with disk 0 has its mutex, and
the other devices have one process each. Printer 0 does not (fact 12): `PrintsAlone` says that there is one user process or that none calls SYS16; with two that
print `NoLostWakeup` fails. `NullIsNoCommand` says that the value for "no command" is no command.

`LegalCallsNeverDeadlock` is for programs whose SYS calls are all of those that return or announce their end (`LegalCallsOnly`); program traps are
allowed, since they go through SYS18's code. Each of them V's `masterSem` before it ends: `EndsCounted` says that the semaphore and the P's `test` has completed add up to
the children between that V and their death or beyond it. With `DeadlockIsRight` nothing is left to wait for. `bad_print` shows that
a refused SYS16 breaks it.

`TestWaitsForAll` needs no such assumption, refused calls included. The V's of SYS18 that have come are at most the children at or beyond their end (`EndsBounded`);
a child whose SYS16 was refused is there without a V, and then the last P never returns. When `test` is through its last P (`LastAwaited`) it has received MAXUPROC of them, so no child is anywhere else. `Awaited_TooFew`, a loop in `test` that
is one P short, breaks it.

#### Nucleus and support level

`Support` does not extend `Nucleus`: it has its own `P`, `V`, `Sleep`, `Tick`, `DeviceInterrupt` and `Deadlock`, shorter than the handlers they stand for. `ProcessCalls` is
what keeps them honest. Its variables are those either side can name - who lives, who waits where in which order, permits, how the machine
stopped - and its actions are SYS1 to SYS4, SYS7, SYS8, an event, HALT and the scheduler's PANIC, each by a process that waits for nothing.
`NucleusProvidesCalls` says that the nucleus does this, `SupportKeepsCalls` that the support level, with what it has in the nucleus's place, does no more than this:
no process makes a call while it waits, no P passes without a permit and none waits when there is one, a V wakes the first in the queue, and the machine is given up only when all
who live wait for semaphores. So what is proved of `Support` does not rest on a nucleus that is kinder than the real one in these respects. The second has no assumption on the workload;
its proof says of each handler which one thing it `Uses`, a semaphore, an event or nothing. It needs `Inv` for the semaphores (`PermitsOf`: a counter
below 0 is minus the length of its queue) and `Births` for SYS1 (the child was not alive before).

What `ProcessCalls` does not have is what the levels share beside it: who has the processor (`masked`, `ProcTimer`), passing up with its overrun vectors (fact 10), and the devices'
registers. There `Support` follows the code directly. `ProcessCalls` allows more than either level does - any process may die or call at any
time - as an interface between them must.

#### The memory

`MemoryProofs` adds to `LockInv`, `FrameInv` and `IOInv` two more parts, and calls the whole `World`:

* `TypeInv`. `TypeOK` is not inductive: what a device writes into a frame or onto a block is typed only because the command that is under way names the
  block and the frame that its process's handler has (`CommandRight`), the tape block being copied is one of the program's image (`CopyRight`), and what is
  written out is a frame that had a page (`OutRight`).
* `MemInv`. `PagesRight` says that every block and every resident frame holds *some* version of the page that belongs there; `PageRight` that
  the arm stands where the transfer needs it, that a page written out is on the disk until its frame is filled, and that a page
  read in is in its frame until the table is updated; `BlockRight` says the same of the loader. The arm is shared: that nobody else moves it is
  `OneUser`, that is, `DiskMutexExact` and `IOInv` together.

The version of a page that `UserMemory` sees is taken from where the page is: its frame if the table says so, the frame on its way out if it
is being evicted, else its block. Each action of `Support` is one of a few kinds of step - from place to place without a transfer, one of the three stages of a command, a
completed transfer, an eviction (`Takes`), an entry made valid (`Maps`), a store (`Stores`), an idle machine - and each kind
has a lemma that no page changes its version but by a `Store`, and by a block that arrives on the disk while
loading (`WorldStep`). `MaxVersion >= 1` is an assumption because a block from tape is version 1.

The extra assumptions are where the code promises no more:

* the pager does not look at the status of READBLK and WRITEBLK (hazard at `vmIOsupport.c:69`), so a page whose transfer fails is lost;
* `readAndStore` gives disk 0 back between seek and write (fact 13), so with two processes that load, one writes where the other has moved the arm;
  this is why `MemoryIsKept` has one process and `MemoriesStayKept` starts with the programs loaded;
* with a second process a page may be evicted between the V on `swampMutex` and the LDST; so `FaultsAreServed` has one process. The program then faults again, and
  loses nothing: `MemoriesStayKept` is for any number.

### Only model-checked

* Liveness (`IOCompletes`, `ClockWakes`, `TopPriorityRuns`, `TestEnds`, `FaultEnds`): fairness and ENABLED are beyond the prover. They are asked of small instances only.
* The refutations of section 3.

## 5. Not modelled, and what could follow

Not modelled, and why:

* `headBlocked`, `headProcQ` and the debug routines: queries nothing calls, or calls with no effect on state.
* The page tables of segment 0 (`ksegOS`) and their one-to-one mapping: constant data after boot.
* The contents of stacks. The stack areas of some processes reach into tape buffers (hazard at `initProc.c:133`); the models have no memory in which
  this could be seen.
* Two user processes that print strings in paged memory with an overrun status (hazard at `vmIOsupport.c:255`): the step is in
  `NextChar`, two processes with paged strings are beyond the bounds of the runs.
* What the nucleus does after it has followed a stray tail (`astray`): it depends on the order of the free list, which the nucleus's model does not have.
* Two user processes that print (fact 12), and the image of programs that load at the same time (fact 13): the steps are there, but no property is asked of them.
* Faults in segment 3 (fact 14): in the model with `Segment = {2, 3}`, where `FaultServed` and `FramesExact` fail.
* A semaphore linked behind `deviceLookup` (fact 5): in the model with `PastLookup`, where the counters fail.
* A receiver of a terminal with somebody waiting for it (hazard at `interrupts.c:228`): `IntrSem` and `WaitSem` have it, but no process of
  phase 3 reads from a terminal.
* Register contents, messages and characters: data. The build files: nothing to check.

What could follow: devices in `ProcessCalls`, with a proof that `Support` uses them within `CarefulUse`; the memory of programs that load
together, for a `readAndStore` that keeps the disk between seek and write.

## 6. Running

    tlc -workers 2 -config Core.cfg MCNucleus
    tlc -workers 2 -config Paging.cfg MCSupport
    tlc -workers 2 -config Structures.cfg MCStructures
    tlapm NucleusProofs.tla
    tlapm ProcTreeProofs.tla
    tlapm ProcQueueProofs.tla
    tlapm AslProofs.tla
    tlapm SupportProofs.tla
    tlapm MemoryProofs.tla

`PROJECT.json` lists the components, runs, mutants, findings, hazards and theorems, and maps each definition to the lines it models.
