------------------------------- MODULE Kernel -------------------------------
(***************************************************************************)
(* The kernel: processes and semaphores under the system calls of          *)
(* kernel/process_handler.c and kernel/sem.c, the clock interrupt and the  *)
(* garbage collector process.                                              *)
(*                                                                         *)
(* The running user process may make any system call at any time; the      *)
(* clock may interrupt it (or idle) between two of them, never inside one. *)
(* Two constants restrict what the user programs do, not what the kernel   *)
(* does: with Orphans = FALSE a process does not die while it has living   *)
(* children, with Reuse = FALSE no process is started while the pid it     *)
(* would get has an orphan of its last owner linked to it.                 *)
(***************************************************************************)
EXTENDS Semaphores

CONSTANTS
  Prios,      \* priorities the programs ask for
  RetVals,    \* values given to exit
  Counts,     \* counts given to screate, sreset and signaln
  Alarms,     \* clock values given to wait_clock
  AllocFails, \* BOOLEAN: may mem_alloc or user_stack_alloc return 0?
  Orphans,    \* BOOLEAN: may a process die before its children?
  Reuse       \* BOOLEAN: may start reuse the pid of an orphan's father?

ASSUME InputAssumption ==
  /\ Prios \subseteq Int /\ RetVals \subseteq Int
  /\ Counts \subseteq SHRT_MIN..SHRT_MAX
  /\ Alarms \subseteq 0..(CLOCK_MOD - 1)
  /\ {AllocFails, Orphans, Reuse} \subseteq BOOLEAN

VARIABLE k

-----------------------------------------------------------------------------
(***************************************************************************)
(* System calls of process_handler.c.                                      *)
(***************************************************************************)

\* The fields start gives a new process once its memory is allocated.
init_process(m, new, prio) ==
  [m EXCEPT !.stacks[new] = "allocated", !.cont[new] = "user",
            !.alarm_time[new] = 0, !.prio[new] = prio, !.retvalue[new] = 0,
            !.child_waited[new] = 0, !.father[new] = m.cur_pid,
            !.links = init_head(init_link(@, new), children(new))]

\* start: a pid whose memory cannot be allocated is not given back.
start(m, prio, alloc) ==
  LET free == m.queue_table["freepid"]
      new  == queue_bottom(free)
      a    == [m EXCEPT !.queue_table["freepid"] = queue_out_bot(@)]
      b    == init_process(a, new, prio)
      c    == add_child(place(b, new, "actionable", b.prio), new, m.cur_pid)
  IN  IF prio \notin 1..MAXPRIO \/ queue_empty(free) THEN m
      ELSE IF ~alloc THEN a
      ELSE IF m.cur_pid # 0 /\ m.prio[m.cur_pid] < prio THEN scheduler(c)
      ELSE c

\* Mutant: sleepers are sorted by priority.
wait_clock_by_prio(m, clock) ==
  LET a == [m EXCEPT !.alarm_time[m.cur_pid] = ToInt(clock)]
  IN  IF clock > m.clock_ticks
      THEN scheduler(place(a, m.cur_pid, "asleep", a.prio))
      ELSE m

wait_clock(m, clock) ==
  LET a == [m EXCEPT !.alarm_time[m.cur_pid] = ToInt(clock)]
  IN  IF clock > m.clock_ticks
      THEN scheduler(place(a, m.cur_pid, "asleep", a.alarm_time))
      ELSE m

\* Mutant: no rescheduling when the caller steps down.
chprio_no_yield(m, pid, newprio) ==
  LET a == [m EXCEPT !.prio[pid] = newprio]
      b == IF pid = m.cur_pid THEN a
           ELSE place(unchain(a, pid), pid, m.state[pid], a.prio)
  IN  IF m.state[pid] \in {"freepid", "zombie"} \/ newprio \notin 1..MAXPRIO
      THEN m
      ELSE IF pid # m.cur_pid /\ newprio > getprio(b, m.cur_pid)
      THEN scheduler(b) ELSE b

chprio(m, pid, newprio) ==
  LET a == [m EXCEPT !.prio[pid] = newprio]
      b == IF pid = m.cur_pid THEN a
           ELSE place(unchain(a, pid), pid, m.state[pid], a.prio)
  IN  IF m.state[pid] \in {"freepid", "zombie"} \/ newprio \notin 1..MAXPRIO
      THEN m
      ELSE IF \/ pid # m.cur_pid /\ newprio > getprio(b, m.cur_pid)
              \/ pid = m.cur_pid /\ newprio < m.prio[pid]
      THEN scheduler(b) ELSE b

\* Mutant: the dead child stays in the list of children.
waitpid_end_keeps_link(m) ==
  LET p == m.cur_pid
      c == m.child_waited[p]
      a == free_pid(unchain(m, c), c)
  IN  IF c \notin Range(m.queue_table["zombie"]) THEN panic(m)
      ELSE [a EXCEPT !.child_waited[p] = 0, !.cont[p] = "user"]

\* The end of waitpid, run when the awaited child is dead.
waitpid_end(m) ==
  LET p == m.cur_pid
      c == m.child_waited[p]
      a == free_pid(del_child(unchain(m, c), c), c)
  IN  IF c \notin Range(m.queue_table["zombie"]) THEN panic(m)
      ELSE [a EXCEPT !.child_waited[p] = 0, !.cont[p] = "user"]

waitpid_block(m) ==
  scheduler(place([m EXCEPT !.cont[m.cur_pid] = "waitpid"],
                  m.cur_pid, "waiting_child", pid_key))

waitpid(m, pid) ==
  LET head == children(m.cur_pid)
      fwd  == Walk(m.links.next, head, Pid)
      bwd  == Walk(m.links.prev, head, Pid)
      i    == FirstWhere(bwd.met, LAMBDA p : m.state[p] = "zombie")
      a    == [m EXCEPT !.child_waited[m.cur_pid] =
                            IF pid = -1 /\ i # 0 THEN bwd.met[i] ELSE pid]
  IN  IF pid \notin UserPid \cup {-1} \/ link_empty(m.links, head) THEN m
      ELSE IF pid # -1 /\ pid \notin Range(fwd.met)
           THEN IF fwd.closed THEN m ELSE panic(m)
      ELSE IF pid = -1 /\ i = 0
           THEN IF bwd.closed THEN waitpid_block(a) ELSE panic(m)
      ELSE IF m.state[a.child_waited[m.cur_pid]] # "zombie"
           THEN waitpid_block(a)
      ELSE waitpid_end(a)

\* The common part of exit and kill, from the new alarm_time to the entry in
\* the list of the garbage collector.
die(m, pid) ==
  LET a == [m EXCEPT !.alarm_time[pid] = ToInt(m.clock_ticks)]
      b == report_father(place(a, pid, "zombie", a.alarm_time), pid)
  IN  add_garbage_collection(funeral(check_zombies_children(b, pid), pid), pid)

exit(m, retval) ==
  scheduler(die([m EXCEPT !.retvalue[m.cur_pid] = retval], m.cur_pid))

\* kill writes retvalue before it looks at the state.
kill(m, pid) ==
  LET a == [m EXCEPT !.retvalue[pid] = KILL_RETVAL]
      b == IF m.state[pid] = "sem_blocked"
           THEN signal_death([a EXCEPT !.sem_blocked[pid] = -1],
                             m.sem_blocked[pid])
           ELSE a
  IN  IF pid \notin UserPid THEN m
      ELSE IF pid = m.cur_pid THEN exit(m, KILL_RETVAL)
      ELSE IF m.state[pid] \in {"zombie", "freepid"} THEN a
      ELSE garbage_collect(die(unchain_from(b, pid, m.state[pid]), pid))

-----------------------------------------------------------------------------
(***************************************************************************)
(* Boot: kernel_start up to the endless loop of idle.                      *)
(***************************************************************************)

init_free_list ==
  [cur_pid |-> 0, clock_ticks |-> 0, sched_ticks |-> 0, fault |-> FALSE,
   state |-> [p \in Pid |-> "freepid"], prio |-> [p \in Pid |-> 0],
   alarm_time |-> [p \in Pid |-> 0], father |-> [p \in Pid |-> 0],
   child_waited |-> [p \in Pid |-> 0], retvalue |-> [p \in Pid |-> 0],
   awakener |-> [p \in Pid |-> -1], sem_blocked |-> [p \in Pid |-> -1],
   stacks |-> [p \in Pid |-> "none"], cont |-> [p \in Pid |-> "user"],
   links |-> [next |-> [n \in Node |-> NULL], prev |-> [n \in Node |-> NULL]],
   queue_table |-> [s \in list_type |->
                      IF s = "freepid" THEN [i \in 1..NB_PROCESS |-> i - 1]
                      ELSE <<>>],
   garbage_collection_list |-> <<>>,
   sem_used |-> {}, value |-> [s \in Sem |-> 0]]

\* idle is created with priority 1, then gets 0 and leaves its queue.
init_scheduler(m) == unchain([start(m, 1, TRUE) EXCEPT !.prio[0] = 0], 0)

kernel_start == start(init_scheduler(init_free_list), MAXPRIO, TRUE)

Init == k = kernel_start

-----------------------------------------------------------------------------
(***************************************************************************)
(* Steps.                                                                  *)
(***************************************************************************)

\* A fault stops the machine: what the memory would hold is of no interest.
Run(r) == k' = IF r.fault THEN panic(k) ELSE r

\* The running process is a user process, in user mode.
InUser == ~k.fault /\ k.cur_pid \in UserPid /\ k.cont[k.cur_pid] = "user"

LivingChild(p, c) ==
  c # p /\ k.father[c] = p /\ k.state[c] \notin {"zombie", "freepid"}

MayDie(p) == Orphans \/ \A c \in UserPid : ~LivingChild(p, c)

MayStart ==
  \/ Reuse
  \/ \A i \in DOMAIN k.queue_table["freepid"], c \in UserPid :
       i = 1 /\ k.state[c] # "freepid" =>
         k.links.next[c] # children(k.queue_table["freepid"][i])

Start ==
  /\ InUser /\ MayStart
  /\ \E prio \in Prios, alloc \in {TRUE, ~AllocFails} :
       Run(start(k, prio, alloc))

Exit ==
  /\ InUser /\ MayDie(k.cur_pid)
  /\ \E retval \in RetVals : Run(exit(k, retval))

Kill ==
  /\ InUser
  /\ \E pid \in Pid : MayDie(pid) /\ Run(kill(k, pid))

Waitpid ==
  /\ InUser
  /\ \E pid \in Pid \cup {-1} : Run(waitpid(k, pid))

\* A process that was descheduled inside waitpid has been chosen again.
ResumeWaitpid ==
  /\ ~k.fault /\ k.cur_pid \in UserPid /\ k.cont[k.cur_pid] = "waitpid"
  /\ Run(waitpid_end(k))

Chprio ==
  /\ InUser
  /\ \E pid \in Pid, newprio \in Prios : Run(chprio(k, pid, newprio))

WaitClock ==
  /\ InUser
  /\ \E clock \in Alarms : Run(wait_clock(k, clock))

Screate == InUser /\ \E count \in Counts : Run(screate(k, count))

Sdelete == InUser /\ \E id \in Sem : Run(sdelete(k, id))

Sreset ==
  InUser /\ \E id \in Sem, count \in Counts : Run(sreset(k, id, count))

Signal == InUser /\ \E id \in Sem : Run(signal(k, id))

Signaln ==
  InUser /\ \E id \in Sem, count \in Counts : Run(signaln(k, id, count))

Wait == InUser /\ \E id \in Sem : Run(wait(k, id))

TryWait == InUser /\ \E id \in Sem : Run(try_wait(k, id))

\* it32_clock_body: interrupts are only open in user mode and in idle.
it32_clock_body(m) ==
  LET a == [m EXCEPT !.clock_ticks = (@ + 1) % CLOCK_MOD,
                     !.sched_ticks = (@ + 1) % SCHED_TICKS]
  IN  IF a.sched_ticks = 0 THEN scheduler(a) ELSE a

ClockInterrupt ==
  /\ ~k.fault /\ k.cur_pid \in Pid /\ k.cont[k.cur_pid] = "user"
  /\ Run(it32_clock_body(k))

\* One turn of the endless loop of the garbage collector process.
GarbageCollector ==
  /\ ~k.fault /\ k.cur_pid = PID_GARBAGE
  /\ Run(scheduler(garbage_collect(k)))

SemNext ==
  \/ Screate \/ Sdelete \/ Sreset \/ Signal \/ Signaln \/ Wait \/ TryWait

Next ==
  \/ Start \/ Exit \/ Kill \/ Waitpid \/ ResumeWaitpid
  \/ Chprio \/ WaitClock
  \/ SemNext
  \/ ClockInterrupt \/ GarbageCollector

Spec == Init /\ [][Next]_k

-----------------------------------------------------------------------------
(***************************************************************************)
(* Properties.                                                             *)
(***************************************************************************)

\* Every field of the kernel memory keeps its type; in particular a semaphore
\* counter never leaves SHRT_MIN..SHRT_MAX and a pid field is a pid.
TypeOK == k \in Memory

\* No assertion of queue_add or queue_del ever fails, no find_pid whose result
\* is dereferenced returns NULL, no walk of a list of children is endless, no
\* stack is freed twice.
NoFault == ~k.fault

\* The state queues agree with the process table whenever the kernel is left:
\* the running process is actionable and in no queue, everyone else is in the
\* queue of its state, idle can always be chosen, and the garbage collector
\* runs exactly when there is something to collect.
QueueInv ==
  ~k.fault =>
    /\ Placed(k, {k.cur_pid} \cap Pid)
    /\ k.cur_pid \in Pid => k.state[k.cur_pid] = "actionable"
    /\ k.state[0] = "actionable"
    /\ k.cur_pid = PID_GARBAGE <=> garbage_collection_needed(k)

Alive(p) == k.state[p] \notin {"zombie", "freepid"}

Backwards(s) == [i \in 1..Len(s) |-> s[Len(s) + 1 - i]]

\* The list of children of a living process, followed in either direction,
\* holds exactly the processes that have it as father and whose pid is taken.
Filiation ==
  ~k.fault => \A f \in UserPid : Alive(f) =>
    LET fwd == Walk(k.links.next, children(f), Pid)
        bwd == Walk(k.links.prev, children(f), Pid)
    IN  /\ fwd.closed /\ bwd.closed /\ bwd.met = Backwards(fwd.met)
        /\ IsInjective(fwd.met)
        /\ Range(fwd.met) = {c \in Pid : k.state[c] # "freepid"
                                            /\ k.father[c] = f}

\* waitpid loses no death: a blocked father awaits a child that is alive (any
\* child: it has one, and none is a zombie); a father that was woken finds the
\* zombie it was told about, not yet given back.
NoLostDeath ==
  ~k.fault => \A f \in UserPid :
    LET c    == k.child_waited[f]
        mine == {p \in UserPid : k.father[p] = f /\ k.state[p] # "freepid"}
    IN  /\ k.state[f] = "waiting_child" =>
             IF c = -1 THEN mine # {} /\ \A p \in mine : Alive(p)
             ELSE c \in mine /\ Alive(c)
        /\ k.state[f] = "actionable" /\ k.cont[f] = "waitpid" =>
             c \in mine /\ k.state[c] = "zombie"

\* Nothing of a dead process is left behind, and nothing of a living one is
\* taken: a zombie is kept only for a living father that may still call
\* waitpid, or for the garbage collector that is about to run; the stacks of a
\* process exist as long as it may run, and outlive it only until then.
DeadCollected ==
  ~k.fault =>
    /\ \A p \in UserPid : k.state[p] = "zombie" =>
         \/ p \in Range(k.garbage_collection_list)
         \/ k.father[p] # 0 /\ Alive(k.father[p])
    /\ \A p \in Pid : k.stacks[p] = "allocated" <=>
         Alive(p) \/ p \in Range(k.garbage_collection_list)

\* The precondition written above free_pid: a pid is given back only once the
\* memory is, and the father is gone or is the process that runs waitpid.
FreePidContract ==
  [][\A p \in UserPid :
       k.state[p] # "freepid" /\ k'.state[p] = "freepid" =>
         /\ k'.stacks[p] = "freed"
         /\ \/ k'.father[p] = 0
            \/ k'.state[k'.father[p]] \in {"zombie", "freepid"}
            \/ k'.father[p] = k.cur_pid /\ k'.child_waited[k.cur_pid] = 0]_k

\* No wake-up of a semaphore is lost: at most -value processes are blocked on
\* it, so nobody is blocked on one that is deleted, reset or positive; and the
\* field sem_blocked says who is.
Blocked(s) == {p \in Pid : k.state[p] = "sem_blocked" /\ k.sem_blocked[p] = s}

NoLostWakeup ==
  ~k.fault =>
    /\ \A p \in Pid : k.state[p] = "sem_blocked" <=> k.sem_blocked[p] # -1
    /\ \A s \in Sem : Blocked(s) # {} =>
         s \in k.sem_used /\ Cardinality(Blocked(s)) <= -k.value[s]

\* A negative counter counts the processes blocked on the semaphore.
ExactCount ==
  ~k.fault => \A s \in k.sem_used :
    k.value[s] < 0 => Cardinality(Blocked(s)) = -k.value[s]

\* A process that leaves a semaphore it was blocked on, other than by dying,
\* is nearer to the top of the queue than every one left behind: it has a
\* higher priority, or the same one and has been there for longer.
WakeInOrder ==
  [][\A s \in Sem : \A p, q \in Blocked(s) :
       k'.state[p] = "actionable" /\ k'.state[q] = "sem_blocked" =>
         LET w == k.queue_table["sem_blocked"]
         IN  /\ k.prio[p] >= k.prio[q]
             /\ \E i, j \in DOMAIN w : w[i] = q /\ w[j] = p /\ i < j]_k

\* The running user process has the highest priority of those that can run,
\* and the queues ordered by priority stay sorted when priorities change, so
\* the next one that is chosen or woken has the highest one too.
TopRuns ==
  ~k.fault =>
    /\ k.cur_pid \in UserPid => \A p \in Range(k.queue_table["actionable"]) :
         k.prio[p] <= k.prio[k.cur_pid]
    /\ \A s \in {"actionable", "sem_blocked"} : SortedBy(k.queue_table[s], k.prio)

\* A process is not left asleep by a call of the scheduler after its alarm:
\* between two calls the clock gains at most SCHED_TICKS.
WokenOnTime ==
  ~k.fault => \A p \in UserPid : k.state[p] = "asleep" =>
    ToInt(k.clock_ticks) - k.alarm_time[p] <= SCHED_TICKS

\* A process does not leave its sleep alive before its alarm.
NoEarlyWake ==
  [][\A p \in UserPid :
       k.state[p] = "asleep" /\ k'.state[p] = "actionable" =>
         k.alarm_time[p] < ToInt(k'.clock_ticks)]_k

=============================================================================
