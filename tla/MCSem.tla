------------------------------- MODULE MCSem --------------------------------
(***************************************************************************)
(* Instances of module Kernel for TLC, about semaphores and priorities.    *)
(* Either the processes kill each other while they wait, or they end by    *)
(* themselves: only then are the counters exact, since kill does not give  *)
(* back what its victim waits for.                                         *)
(***************************************************************************)
EXTENDS Kernel

VARIABLE killing

MCInit == Init /\ killing \in BOOLEAN

\* Only user processes change priority; idle keeps its own.
ChprioUser ==
  InUser /\ \E pid \in UserPid, newprio \in Prios : Run(chprio(k, pid, newprio))

\* Only the first user process starts others.
FirstStarts == k.cur_pid = 1 /\ Start

MCNext ==
  /\ \/ killing /\ (Start \/ Kill)
     \/ ~killing /\ (FirstStarts \/ Exit)
     \/ SemNext \/ ChprioUser \/ ClockInterrupt \/ GarbageCollector
  /\ UNCHANGED killing

SemSpec == MCInit /\ [][MCNext]_<<k, killing>>

\* While nobody kills, a negative counter counts the processes blocked on the
\* semaphore: what screate, signal, wait and reset (sem.c) keep up to date.
ExactUnlessKilled == ~killing => ExactCount

\* While nobody kills, the running process has the highest priority of those
\* that can run and the queues stay sorted (chprio, signal, scheduler).
TopRunsUnlessKilled == ~killing => TopRuns

=============================================================================
