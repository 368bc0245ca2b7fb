---------------------------- MODULE ProcessTable ----------------------------
(***************************************************************************)
(* The kernel memory that kernel/process_handler.c works on, and the       *)
(* internal functions of that file as transformers of it.                  *)
(*                                                                         *)
(* The kernel runs with interrupts masked, so everything a system call     *)
(* does up to the call of scheduler() is one step.  A C function that      *)
(* changes the memory is an operator k |-> k' on the record "k" below; a   *)
(* system call composes them (module Kernel).  A failed assertion, a NULL  *)
(* dereference and a list walk that never ends all set k.fault.            *)
(***************************************************************************)
EXTENDS Queue, Links

CONSTANTS
  NB_PROCESS,    \* process slots, idle (pid 0) included
  NB_SEM,        \* semaphores
  MAXPRIO,       \* highest priority
  SHRT_MAX,      \* a semaphore counter stays in -SHRT_MAX..SHRT_MAX
  CLOCK_MOD,     \* 2^32 in the code: clock_ticks wraps there
  SCHED_TICKS    \* CLOCKFREQ / SCHEDFREQ: ticks between two schedulings

ASSUME SizeAssumption ==
  /\ NB_PROCESS \in Nat \ {0, 1}
  /\ NB_SEM \in Nat
  /\ MAXPRIO \in Nat \ {0}
  /\ SHRT_MAX \in Nat \ {0}
  /\ CLOCK_MOD \in Nat \ {0}
  /\ SCHED_TICKS \in Nat \ {0}

Pid == 0..(NB_PROCESS - 1)

UserPid == 1..(NB_PROCESS - 1)

PID_GARBAGE == NB_PROCESS

Sem == 0..(NB_SEM - 1)

SHRT_MIN == -SHRT_MAX

KILL_RETVAL == 0

list_type == {"actionable", "asleep", "sem_blocked", "io_blocked",
              "waiting_child", "zombie", "freepid"}

\* The nodes of the lists of children: a process's children_chaining field is
\* named by its pid, its children field (the head) by children(pid).
children(p) == NB_PROCESS + p

Node == 0..(2 * NB_PROCESS - 1)

\* Conversion of an unsigned long to the int fields and variables that hold
\* clock values (alarm_time, time).
ToInt(c) == IF 2 * c >= CLOCK_MOD THEN c - CLOCK_MOD ELSE c

\* The memory.  struct process fields are functions on Pid; "stacks" stands
\* for the two stacks a slot owns; "cont" says where a descheduled process
\* resumes: in user mode, or inside waitpid or a read of the keyboard after its
\* call of scheduler().
\* The two lists of sem.c are sorted by id without duplicates, so sem_used
\* and its complement stand for them.
Memory ==
  [cur_pid      : 0..NB_PROCESS,
   clock_ticks  : 0..(CLOCK_MOD - 1),
   sched_ticks  : 0..(SCHED_TICKS - 1),
   fault        : BOOLEAN,
   state        : [Pid -> list_type],
   prio         : [Pid -> 0..MAXPRIO],
   alarm_time   : [Pid -> Int],
   father       : [Pid -> Pid],
   child_waited : [Pid -> Pid \cup {-1}],
   retvalue     : [Pid -> Int],
   awakener     : [Pid -> {-1, 0, -3, -4}],
   sem_blocked  : [Pid -> Sem \cup {-1}],
   stacks       : [Pid -> {"none", "allocated", "freed"}],
   cont         : [Pid -> {"user", "waitpid", "cons_read", "shell_cons_read"}],
   links        : [next : [Node -> Node \cup {NULL}],
                   prev : [Node -> Node \cup {NULL}]],
   queue_table  : [list_type -> Seq(Pid)],
   garbage_collection_list : Seq(Pid),
   sem_used     : SUBSET Sem,
   value        : [Sem -> SHRT_MIN..SHRT_MAX]]

panic(k) == [k EXCEPT !.fault = TRUE]

\* while (cond) body, with a bound on the number of turns: "step" is the
\* identity once the condition is false.  A panic ends the loop.
Repeat(step(_), k, n) ==
  LET it[i \in 0..n] ==
        IF i = 0 THEN k
        ELSE LET x == it[i - 1] IN IF x.fault THEN x ELSE step(x)
  IN  it[n]

-----------------------------------------------------------------------------
(***************************************************************************)
(* Queues of processes.  Every queue_add on one of the lists of            *)
(* queue_table goes with the matching value of the field state.            *)
(***************************************************************************)

pid_key == [p \in Pid |-> p]

\* The link field "chaining" of p is in some list.
chained(k, p) == \E s \in list_type : p \in Range(k.queue_table[s])

place(k, p, s, key) ==
  IF chained(k, p) THEN panic(k)
  ELSE [k EXCEPT !.queue_table[s] = queue_add(p, @, key), !.state[p] = s]

unchain(k, p) ==
  IF chained(k, p)
  THEN [k EXCEPT !.queue_table = [s \in list_type |-> queue_del(p, @[s])]]
  ELSE panic(k)

\* queue_del(find_pid(&queue_table[s], p), chaining): find_pid returns NULL
\* when p is not in that list.
unchain_from(k, p, s) ==
  IF p \in Range(k.queue_table[s]) THEN unchain(k, p) ELSE panic(k)

free_pid(k, p) ==
  place([k EXCEPT !.awakener[p] = -1, !.sem_blocked[p] = -1],
        p, "freepid", pid_key)

-----------------------------------------------------------------------------
(***************************************************************************)
(* Filiation.                                                              *)
(***************************************************************************)

children_met(k, f) == Walk(k.links.next, children(f), Pid)

add_child(k, p, f) ==
  IF link_add_ok(k.links, p, children(f), Pid, k.prio)
  THEN [k EXCEPT !.links = link_add(@, p, children(f), Pid, k.prio)]
  ELSE panic(k)

del_child(k, p) ==
  IF link_del_ok(k.links, p)
  THEN [k EXCEPT !.links = link_del(@, p)]
  ELSE panic(k)

\* Mutant: waitpid(-1) is forgotten.
report_father_named_only(k, pid) ==
  LET f == k.father[pid]
  IN  IF k.child_waited[f] # pid THEN k
      ELSE place(unchain_from(k, f, "waiting_child"),
                 f, "actionable", pid_key)

\* The father that waits for this child, or for any, becomes actionable.  The
\* queue_add is given the field pid as its key, not prio.
report_father(k, pid) ==
  LET f == k.father[pid]
  IN  IF k.child_waited[f] \notin {pid, -1} THEN k
      ELSE place(unchain_from([k EXCEPT !.child_waited[f] = pid],
                              f, "waiting_child"),
                 f, "actionable", pid_key)

\* One turn of the while loop of check_zombies_children: the first zombie of
\* the list of children gives its pid back.
free_zombie_child(k, f) ==
  LET w == children_met(k, f)
      i == FirstWhere(w.met, LAMBDA p : k.state[p] = "zombie")
  IN  IF i # 0
      THEN free_pid(unchain_from(del_child(k, w.met[i]), w.met[i], "zombie"),
                    w.met[i])
      ELSE IF w.closed THEN k ELSE panic(k)

check_zombies_children(k, f) ==
  LET turn(x) == free_zombie_child(x, f)
  IN  Repeat(turn, k, Len(k.queue_table["zombie"]))

\* Mutant: the children keep their dead father.
funeral_forgotten(k, f) == k

\* The children still in the list go to idle; their links stay as they are.
funeral(k, f) ==
  LET w == children_met(k, f)
      o == Range(w.met)
  IN  IF k.fault THEN k
      ELSE IF w.closed
      THEN [k EXCEPT !.father = [p \in Pid |-> IF p \in o THEN 0 ELSE @[p]]]
      ELSE panic(k)

-----------------------------------------------------------------------------
(***************************************************************************)
(* Memory of dead processes.                                               *)
(***************************************************************************)

add_garbage_collection(k, pid) ==
  IF pid \in Range(k.garbage_collection_list) THEN panic(k)
  ELSE [k EXCEPT !.garbage_collection_list = queue_add(pid, @, pid_key)]

garbage_collection_needed(k) == ~queue_empty(k.garbage_collection_list)

\* Mutant: the pid is given back although the father may still want it.
collect_one_always_frees_pid(k) ==
  LET p == queue_top(k.garbage_collection_list)
      a == [k EXCEPT !.garbage_collection_list = queue_out(@),
                     !.stacks[p] = "freed"]
  IN  IF ~garbage_collection_needed(k) THEN k
      ELSE free_pid(del_child(unchain(a, p), p), p)

\* One turn of the loop of garbage_collect; freeing twice is a fault.
collect_one(k) ==
  LET p == queue_top(k.garbage_collection_list)
      a == [k EXCEPT !.garbage_collection_list = queue_out(@),
                     !.stacks[p] = "freed"]
      b == IF k.stacks[p] = "allocated" THEN a ELSE panic(a)
  IN  IF ~garbage_collection_needed(k) THEN k
      ELSE IF k.father[p] # 0 THEN b
      ELSE free_pid(del_child(unchain(b, p), p), p)

garbage_collect(k) ==
  Repeat(collect_one, k, Len(k.garbage_collection_list))

-----------------------------------------------------------------------------
(***************************************************************************)
(* The scheduler.                                                          *)
(***************************************************************************)

\* Mutant: a sleeper is woken at its alarm, not after it.
wake_one_at_alarm(k) ==
  LET q == k.queue_table["asleep"]
      p == queue_bottom(q)
  IN  IF queue_empty(q) \/ ~(k.alarm_time[p] <= ToInt(k.clock_ticks)) THEN k
      ELSE place(unchain([k EXCEPT !.alarm_time[p] = 0], p),
                 p, "actionable", k.prio)

\* One turn of the loop that wakes the sleepers whose alarm is in the past;
\* only the bottom of the queue is looked at.
wake_one(k) ==
  LET q == k.queue_table["asleep"]
      p == queue_bottom(q)
  IN  IF queue_empty(q) \/ ~(k.alarm_time[p] < ToInt(k.clock_ticks)) THEN k
      ELSE place(unchain([k EXCEPT !.alarm_time[p] = 0], p),
                 p, "actionable", k.prio)

wake_sleepers(k) == Repeat(wake_one, k, Len(k.queue_table["asleep"]))

\* The process that was running goes back to its queue.
requeue_current(k) ==
  IF k.cur_pid # PID_GARBAGE /\ k.state[k.cur_pid] = "actionable"
  THEN place(k, k.cur_pid, "actionable", k.prio)
  ELSE k

\* Mutant: the chosen process is looked at but not taken out of its queue.
switch_keeps_top(k) ==
  LET q == k.queue_table["actionable"]
  IN  IF garbage_collection_needed(k) THEN [k EXCEPT !.cur_pid = PID_GARBAGE]
      ELSE IF queue_empty(q) THEN panic(k)
      ELSE [k EXCEPT !.cur_pid = queue_top(q)]

\* The garbage collector goes first, then the top of the actionable queue.
switch(k) ==
  LET q == k.queue_table["actionable"]
  IN  IF garbage_collection_needed(k) THEN [k EXCEPT !.cur_pid = PID_GARBAGE]
      ELSE IF queue_empty(q) THEN panic(k)
      ELSE [k EXCEPT !.cur_pid = queue_top(q),
                     !.queue_table["actionable"] = queue_out(@)]

scheduler(k) ==
  IF k.fault THEN k ELSE switch(requeue_current(wake_sleepers(k)))

\* getprio: -1 for a pid that is invalid, free or a zombie.
getprio(k, pid) ==
  IF pid \in Pid /\ k.state[pid] \notin {"freepid", "zombie"}
  THEN k.prio[pid] ELSE -1

\* Every process is where its state says: in exactly one place of the queue of
\* its state, except those in R, which are in no queue.  (A pid start could
\* not find memory for is free and in no queue.)
Placed(m, R) ==
  /\ \A s \in list_type : IsInjective(m.queue_table[s])
  /\ \A s \in list_type : \A p \in Range(m.queue_table[s]) :
       m.state[p] = s /\ p \notin R
  /\ \A p \in Pid \ R :
       m.state[p] # "freepid" => p \in Range(m.queue_table[m.state[p]])

=============================================================================
