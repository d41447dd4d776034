---------------------------- MODULE NucleusLife ----------------------------
(***************************************************************************)
(* The nucleus implements ProcessLife.  A semaphore of the nucleus is one  *)
(* signed counter and a queue: its permits are what the counter would be   *)
(* without those that wait.  Where control is, with currentProc, tells who *)
(* runs.                                                                   *)
(***************************************************************************)
EXTENDS NucleusInv

\* The V's no P has used; negative if a P went on without one.
Permits == [s \in UserSem |-> semVal[s] + Len(blocked[s])]

\* Why the machine stopped.
Verdict == IF kpc \in {"halted", "deadlock"} THEN kpc
           ELSE IF kpc \in {"hung", "astray", "panic"} THEN "failed" ELSE "none"

Life == INSTANCE ProcessLife WITH
    Event <- DeviceSem,
    alive <- Live, running <- Active, queue <- blocked,
    permits <- Permits, verdict <- Verdict

\* Every step of the nucleus, the middle of a kill and its own traps included,
\* is a step of ProcessLife or none: processes are served in the order they
\* came, no P or V of a process is lost, and the machine stops because nobody
\* can go on, or fails: it loops for ever, has no descriptor left for a process
\* or follows a stray tail.
LifeKept == Life!Spec

Calls == INSTANCE ProcessCalls WITH
    Event <- DeviceSem,
    alive <- Live, queue <- blocked, permits <- Permits, verdict <- Verdict

\* The nucleus provides the calls that the support level is written against.
CallsProvided == Calls!Spec
=============================================================================
