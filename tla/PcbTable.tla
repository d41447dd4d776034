------------------------------ MODULE PcbTable ------------------------------
(***************************************************************************)
(* The static array of process control blocks of phase1/pcb.c, and the     *)
(* pointers into it.                                                       *)
(***************************************************************************)
EXTENDS Integers, FiniteSets, SequencesExt

CONSTANTS Pcb, NULL

ASSUME PcbAssumption == IsFiniteSet(Pcb) /\ NULL \notin Pcb

Pointer == Pcb \cup {NULL}

\* The links when the pcbs of S have been freed one after the other, and the
\* one freed last.
Freed(S) ==
    LET array == SetToSeq(S)
    IN [p \in S |-> LET i == CHOOSE i \in DOMAIN array : array[i] = p
                    IN IF i = 1 THEN NULL ELSE array[i - 1]]
LastFreed(S) == IF S = {} THEN NULL ELSE Last(SetToSeq(S))

\* The pcb n links behind p (NULL behind NULL).
Behind(ptrs, p) ==
    LET f[n \in 0 .. Cardinality(Pcb)] ==
            IF n = 0 THEN p ELSE IF f[n - 1] = NULL THEN NULL ELSE ptrs[f[n - 1]]
    IN f

\* The pcbs linked from p to the NULL at the end.
LinkedFrom(ptrs, p) ==
    LET f == Behind(ptrs, p)
    IN [n \in 1 .. Cardinality({m \in 0 .. Cardinality(Pcb) : f[m] # NULL}) |-> f[n - 1]]
=============================================================================
