----------------------------- MODULE MCNucleus -----------------------------
(***************************************************************************)
(* Small instances of the nucleus for TLC.                                 *)
(***************************************************************************)
EXTENDS NucleusLife

Disk0 == [line |-> 3, num |-> 0, recv |-> FALSE]
Tape0 == [line |-> 4, num |-> 0, recv |-> FALSE]
Printer0 == [line |-> 6, num |-> 0, recv |-> FALSE]
Printer1 == [line |-> 6, num |-> 1, recv |-> FALSE]

NoDevice == {}
OneDisk == {Disk0}
DiskAndTape == {Disk0, Tape0}
TwoPrinters == {Printer0, Printer1}

OneTick == {1}
\* As long as a quantum: a process that waits for the clock has used one up.
LongTick == {2}

\* Only the pcb of test is special.
Interchangeable == Permutations(Proc \ {Test})
=============================================================================
