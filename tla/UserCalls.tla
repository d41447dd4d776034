------------------------------ MODULE UserCalls ------------------------------
(***************************************************************************)
(* The other half of phase3/vmIOsupport.c: userSyscallHandler and          *)
(* userPrgmHandler.                                                        *)
(***************************************************************************)
EXTENDS Pager

call(a) == local[a].call
i(a) == local[a].count

Set(a, c, n) ==
    local' = [local EXCEPT ![a] = [fault |-> fault(a), vic |-> vic(a), call |-> c, count |-> n]]

\* The branches of userSyscallHandler.  With the interrupts on nothing that
\* happens between the call and the first statement of its branch matters.
\* A length or address that SYS16 refuses ends the process without a V.
Branch(c) ==
    CASE c.no = 18 -> "sys18"
      [] c.no = 16 -> IF c.s <= EndOS \/ c.n < 0 \/ c.n > 128 THEN "terminate" ELSE "print"
      [] c.no = 13 -> IF c.n < 0 THEN "sys18" ELSE "delay"
      [] c.no = 10 -> "type"
      [] OTHER -> "return"

\* A SYS call above 8 is passed up; saving the state spoils the TLB vector.
Call(a) ==
    /\ At(a, "user")
    /\ \E c \in UserCall : Set(a, c, 0) /\ Goto(a, Branch(c))
    /\ tlbNew' = [tlbNew EXCEPT ![a] = "overrun"]
    /\ RunsWith(a, "virtual")
    /\ UNCHANGED <<waiting, paging>> /\ NoIO

\* A program trap, SYS1 to SYS8 of a program included, ends it.
ProgramTrap(a) ==
    /\ At(a, "user") /\ ProgramErrors
    /\ Syscall18(a)
    /\ UNCHANGED <<waiting, local, tlbNew, paging>> /\ NoIO

\* Mutant: the process ends without the V.
Sys18_NoV(a) ==
    /\ At(a, "sys18")
    /\ Resumes(a) /\ Goto(a, "terminate")
    /\ UNCHANGED <<waiting, local, tlbNew, paging>> /\ NoIO

\* SYS18, in two system calls.
Sys18(a) ==
    /\ At(a, "sys18")
    /\ V(a, masterSem) /\ Goto(a, "terminate")
    /\ UNCHANGED <<local, tlbNew, paging>> /\ NoIO

\* SYS2, whether test() still lives or not.
Terminate(a) ==
    /\ At(a, "terminate")
    /\ Dies(a) /\ RunsWith(a, "real")
    /\ local' = [local EXCEPT ![a] = Unused]
    /\ UNCHANGED <<io, currentStatus, devices, storage, waiting, tlbNew, paging>>

\* The test of the loops of SYS10 and SYS16, and s[i].
MoreChars(a) == i(a) < call(a).n
InUserMemory(a) == call(a).s > EndOS

\* Loading s[i] fails without address translation (a program trap), and when
\* the page of s is not resident (a page fault of the handler).
NextChar(a, loop, give) ==
    /\ At(a, loop)
    /\ IF ~MoreChars(a) THEN Goto(a, "return") /\ Resumes(a) /\ UNCHANGED kernel
       ELSE IF InUserMemory(a) /\ status[a] # "virtual"
            THEN Syscall18(a) /\ UNCHANGED kernel
       ELSE IF InUserMemory(a) /\ ~Resident(a, 2, call(a).s)
            THEN EnterTLBHandler(a)
       ELSE Goto(a, give) /\ Resumes(a) /\ UNCHANGED kernel
    /\ UNCHANGED <<currentStatus, io, waiting, local, tlbNew, paging, storage, devices>>

\* The end of a round of these loops.
CharSent(a, place, loop, error) ==
    /\ At(a, place)
    /\ IF error THEN Goto(a, "return") /\ UNCHANGED local
       ELSE Goto(a, loop) /\ Set(a, call(a), i(a) + 1)
    /\ Resumes(a)
    /\ UNCHANGED <<waiting, tlbNew, paging>> /\ NoIO

\* SYS16: printer 0 is commanded, printer asid - 1 waited for, and d_status
\* read when the interrupt has been acknowledged: only BUSY is an error.
PrintString(a) ==
    \/ NextChar(a, "print", "printChar")
    \/ DoIO(a, "printChar", Printer(1), Printer(a), [op |-> "char"], "printed")
    \/ CharSent(a, "printed", "print", busy[Printer(1)] # NULL)

\* SYS10: the transmitter of terminal asid - 1, and the status SYS8 returned.
TypeString(a) ==
    \/ NextChar(a, "type", "typeChar")
    \/ DoIO(a, "typeChar", Terminal(a), Terminal(a), [op |-> "char"], "typed")
    \/ CharSent(a, "typed", "type", ~Ready(a, "terminal"))

\* SYS13: SYS7 for every tenth of a second.
Delay(a) ==
    /\ At(a, "delay")
    /\ IF i(a) < call(a).n * TicksPerSecond
       THEN Sleep(a, Clock) /\ Set(a, call(a), i(a) + 1) /\ UNCHANGED <<pc, sem>>
       ELSE Goto(a, "return") /\ Resumes(a) /\ UNCHANGED <<local, waiting>>
    /\ UNCHANGED <<tlbNew, paging>> /\ NoIO

\* LDST at the end of userSyscallHandler.
Return(a) ==
    /\ At(a, "return")
    /\ Goto(a, "user") /\ RunsWith(a, "virtual")
    /\ local' = [local EXCEPT ![a] = Unused]
    /\ reply' = [reply EXCEPT ![a] = [line \in DOMAIN @ |-> TRUE]]
    /\ UNCHANGED <<kernel, io, currentStatus, busy, storage, waiting, tlbNew, paging>>

SyscallHandler(a) == Sys18(a) \/ Terminate(a) \/ PrintString(a) \/ TypeString(a) \/ Delay(a) \/ Return(a)
=============================================================================
