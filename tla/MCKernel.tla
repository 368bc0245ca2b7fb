------------------------------ MODULE MCKernel ------------------------------
(***************************************************************************)
(* Instances of module Kernel for TLC.  A program repertoire is the set of *)
(* system calls the user processes of a run make; the clock interrupt and  *)
(* the garbage collector are in all of them.                               *)
(***************************************************************************)
EXTENDS Kernel

System == ClockInterrupt \/ GarbageCollector

\* Life and death of processes.
LifeNext == Start \/ Exit \/ Kill \/ Waitpid \/ ResumeWaitpid \/ System

LifeSpec == Init /\ [][LifeNext]_k

\* Processes that sleep, wait for each other, end, and compete for the processor,
\* while the timer never stops.
LiveNext == Start \/ Exit \/ WaitClock \/ Wait \/ Signal \/ Screate \/ System

TimePasses == []<><<k'.clock_ticks # k.clock_ticks>>_k

LiveSpec == Init /\ [][LiveNext]_k /\ TimePasses

\* Round robin: a process that can run and that no other one outranks gets
\* the processor, again and again.
RoundRobin ==
  \A p \in UserPid :
    []<>( \/ k.cur_pid = p
          \/ k.state[p] # "actionable"
          \/ \E q \in Pid : k.state[q] = "actionable" /\ k.prio[q] > k.prio[p])

=============================================================================
