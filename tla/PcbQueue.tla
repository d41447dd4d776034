------------------------------ MODULE PcbQueue ------------------------------
(***************************************************************************)
(* The process queues of phase1/pcb.c, at the level the nucleus uses them: *)
(* a queue is the sequence of its pcbs, head first.  A queue in memory is  *)
(* a circular list reached through a pointer to its TAIL; that matters     *)
(* here only for outProcQ, whose behaviour depends on where in the circle  *)
(* the wanted pcb is.                                                      *)
(***************************************************************************)
EXTENDS Naturals, SequencesExt

\* Mutant: the caller's tail pointer is not moved, so the new pcb is the head.
InsertProcQ_AtHead(q, p) == <<p>> \o q

\* insertProcQ: the new pcb becomes the tail.
InsertProcQ(q, p) == Append(q, p)

\* Mutant: the head is unlinked, whatever p is.
Without_Head(q, p) == Tail(q)

\* The queue left when outProcQ unlinks p.
Without(q, p) == RemoveAt(q, CHOOSE i \in DOMAIN q : q[i] = p)

(***************************************************************************)
(* What outProcQ(&q, p) does.                                              *)
(*   "trap"     - q is empty: isInQ, called before the test for the empty  *)
(*                queue, loads through the tail pointer NULL (0xFFFFFFFF). *)
(*   "absent"   - p is not in a queue of one: NULL is returned.            *)
(*   "hang"     - p is not in a longer queue: isInQ only stops at a pcb    *)
(*                that points to itself, and the circle has none.          *)
(*   "dangling" - p is the tail of a longer queue: p is unlinked but the   *)
(*                caller's tail pointer, never written, still points to p. *)
(*   "removed"  - every other case: p is unlinked and returned.            *)
(***************************************************************************)
OutProcQ(q, p) ==
    IF q = <<>> THEN "trap"
    ELSE IF p \notin ToSet(q) THEN IF Len(q) = 1 THEN "absent" ELSE "hang"
    ELSE IF Len(q) > 1 /\ p = Last(q) THEN "dangling"
    ELSE "removed"
=============================================================================
