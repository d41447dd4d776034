----------------------------- MODULE UserMemory -----------------------------
(***************************************************************************)
(* What the support level promises a user program: a memory of its own,    *)
(* which holds the blocks of its tape when it starts and from then on      *)
(* changes only by its stores.                                             *)
(***************************************************************************)
EXTENDS Naturals

CONSTANTS Asid, Page, Blocks

VARIABLES
    mem,      \* mem[a][p]: how often page p was stored to, loading included
    started   \* the programs that run

memory == <<mem, started>>

Init ==
    /\ mem = [a \in Asid |-> [p \in Page |-> 0]]
    /\ started = {}

\* A block of the tape is put where it belongs.
Load(a, p) ==
    /\ a \notin started /\ p < Blocks[a]
    /\ mem' = [mem EXCEPT ![a][p] = 1]
    /\ UNCHANGED started

Start(a) ==
    /\ a \notin started /\ \A p \in Page : p < Blocks[a] => mem[a][p] = 1
    /\ started' = started \cup {a}
    /\ UNCHANGED mem

Store(a, p) ==
    /\ a \in started
    /\ mem' = [mem EXCEPT ![a][p] = @ + 1]
    /\ UNCHANGED started

Next == \E a \in Asid : Start(a) \/ \E p \in Page : Load(a, p) \/ Store(a, p)

Spec == Init /\ [][Next]_memory
=============================================================================
