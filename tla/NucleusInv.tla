----------------------------- MODULE NucleusInv -----------------------------
(***************************************************************************)
(* The inductive invariant behind OnePlace and SemaphoresExact.  It says   *)
(* where a pcb is from its own fields: a live process whose p_semAdd is a  *)
(* semaphore is in the queue of that semaphore and nowhere else; every     *)
(* other live process is running or in one ready queue.                    *)
(***************************************************************************)
EXTENDS Nucleus

Unblocked == {p \in Live : pcb[p].p_semAdd \notin Sem}
BlockedOn(s) == {p \in Live : pcb[p].p_semAdd = s}

\* Where control is tells whether there is a current process.
ControlInv ==
    /\ kpc \in {"run", "terminate"} => currentProc # NULL
    /\ kpc = "wait" => currentProc = NULL
    /\ Active \subseteq Unblocked

\* The queues of q hold the pcbs of S, each once.
Holds(q, S) ==
    /\ \A i \in 0 .. 2 : IsInjective(q[i]) /\ ToSet(q[i]) \subseteq S
    /\ \A i, j \in 0 .. 2 : i # j => ToSet(q[i]) \cap ToSet(q[j]) = {}
    /\ S \subseteq ToSet(q[0]) \cup ToSet(q[1]) \cup ToSet(q[2])

ReadyInv == Holds(mlpq, Unblocked \ Active)

BlockedInv ==
    \A s \in Sem : IsInjective(blocked[s]) /\ ToSet(blocked[s]) = BlockedOn(s)

\* While sys2 works, its stack starts at the current process; the other
\* processes on it have been taken from their parents.
DyingInv ==
    kpc = "terminate" =>
        /\ dying # <<>> /\ dying[1] = currentProc
        /\ IsInjective(dying) /\ ToSet(dying) \subseteq Live
        /\ \A i \in 2 .. Len(dying), p \in Proc : dying[i] \notin ToSet(kids[p])

\* The children of p, with the one sys2 has taken from p and is working on.
Offspring(p) ==
    ToSet(kids[p]) \cup
    (IF kpc = "terminate"
     THEN {dying[i + 1] : i \in {j \in 1 .. Len(dying) - 1 : dying[j] = p}} ELSE {})

\* Nobody is his own descendant: every family has a member without offspring
\* in it.
Acyclic == \A S \in SUBSET Proc : S # {} => \E p \in S : Offspring(p) \cap S = {}

PlaceInv == ControlInv /\ ReadyInv /\ BlockedInv
FamilyInv == TreeSound /\ DyingInv /\ Acyclic

IInv == TypeOK /\ PlaceInv /\ FamilyInv

\* Until the nucleus is led astray, the fields of a pcb tell where it is: in the
\* queue of the semaphore p_semAdd names, the processes cut off from its tail
\* included, or else running or in one ready queue.
FieldsTellPlace == kpc # "astray" => PlaceInv

\* Until then the tree is one of live processes, nobody descends from himself,
\* and the calls of sys2 are about different live processes.
FamilyKept == kpc # "astray" => FamilyInv

-----------------------------------------------------------------------------
(***************************************************************************)
(* The nucleus as phase 3 uses it.  A process that dies has no children,   *)
(* or only ready ones that have entered the nucleus: test does not wait    *)
(* for the SYS2 of its children but for the V they do before.  A device is *)
(* commanded with interrupts off, one device of a line is in use, and it   *)
(* is no terminal's receiver.                                              *)
(***************************************************************************)
CarefulUse ==
    /\ ~KillTrees /\ ~EarlyInterrupts /\ PastLookup = {}
    /\ \A d, e \in Device : d.line = e.line => d = e
    /\ \A d \in Device : ~d.recv

\* sys2 works on the current process, or on a child of it that has entered the
\* nucleus, on which it traps; so have the children that are left.
DeathInv ==
    kpc \in {"terminate", "trap"} =>
        /\ dying # <<>> /\ dying[1] = currentProc
        /\ \A i \in 2 .. Len(dying) : Entered(dying[i])
        /\ \A c \in ToSet(kids[currentProc]) : Entered(c)

\* One process waits for a device that works or interrupts, none for another;
\* no other semaphore of the nucleus but the clock's has a queue.
DeviceInv ==
    /\ busy \cap pending = {}
    /\ \A d \in Device : IF Idle(d) THEN blocked[WaitSem(d)] = <<>>
                         ELSE \E p \in Proc : blocked[WaitSem(d)] = <<p>>
    /\ \A s \in DeviceSem \ {ClockSem} :
          blocked[s] # <<>> => \E d \in Device : s = WaitSem(d)

\* An idle processor waits for an interrupt that makes a process ready.
IdleInv ==
    kpc = "wait" => \/ blocked[ClockSem] # <<>>
                    \/ \E d \in busy \cup pending : blocked[WaitSem(d)] # <<>>

UsageInv == NucleusSound /\ DeathInv /\ DeviceSemaphoresExact /\ DeviceInv /\ IdleInv
=============================================================================
