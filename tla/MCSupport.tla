----------------------------- MODULE MCSupport -----------------------------
(***************************************************************************)
(* Small instances of the support level for TLC.                           *)
(***************************************************************************)
EXTENDS SupportInv

TwoBlocks == [a \in Asid |-> 2]

\* Calls: SYS13 for a second and for less than none, SYS10 and SYS16 with a
\* string in page 1 or in the memory of the system, and so on.
Delay1 == [no |-> 13, s |-> 0, n |-> 1]
DelayNegative == [no |-> 13, s |-> 0, n |-> -1]
Type2 == [no |-> 10, s |-> 1, n |-> 2]
TypeOS == [no |-> 10, s |-> EndOS, n |-> 1]
Print2 == [no |-> 16, s |-> 1, n |-> 2]
PrintOS == [no |-> 16, s |-> EndOS, n |-> 2]
Print129 == [no |-> 16, s |-> 1, n |-> 129]
CpuTime == [no |-> 17, s |-> 0, n |-> 0]
End == [no |-> 18, s |-> 0, n |-> 0]

LegalCalls == {Delay1, DelayNegative, Type2, TypeOS, Print2, CpuTime, End}
OneCpuTime == {CpuTime}
BadPrints == {PrintOS, Print129}
BootCalls == {TypeOS, Delay1, PrintOS, End}

\* Tapes of different length.
FirstHasTwo == [a \in Asid |-> IF a = 1 THEN 2 ELSE 1]
=============================================================================
