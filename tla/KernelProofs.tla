---------------------------- MODULE KernelProofs ----------------------------
(***************************************************************************)
(* exit, kill, the clock interrupt, the garbage collector and the start of *)
(* the system keep what module PlacementProofs shows of the other calls:   *)
(* the types of the kernel's memory and the agreement of the state queues  *)
(* with the process table are invariants.  Then what the scheduler, the    *)
(* garbage collector and the internal functions of process_handler.c do to *)
(* the bystanders of a call, and the invariant about sleepers and          *)
(* semaphores they leave alone.                                            *)
(***************************************************************************)
EXTENDS PlacementProofs, FiniteSetTheorems

-----------------------------------------------------------------------------
(***************************************************************************)
(* exit and kill.                                                          *)
(***************************************************************************)

\* The common part of exit and kill: the process becomes a zombie and the
\* garbage list holds user processes only.
LEMMA Die ==
  ASSUME NEW c, NEW R \in SUBSET Pid, NEW pid \in UserPid, pid \in Pid,
         NEW m \in Held(c, <<>>, R, {pid})
  PROVE  \E g \in Seq(Pid) :
           die(m, pid) \in Held(c, g, R, {}) /\ Range(g) \subseteq UserPid
<1> DEFINE at == [m.alarm_time EXCEPT ![pid] = ToInt(m.clock_ticks)]
           a == [m EXCEPT !.alarm_time = at]
           d == place(a, pid, "zombie", a.alarm_time)
           b == report_father(d, pid)
           e == check_zombies_children(b, pid)
           f == funeral(e, pid)
           r == add_garbage_collection(f, pid)
<1>1. die(m, pid) = r
  BY DEF die
<1>2. at \in [Pid -> Int]
  <2>1. m.clock_ticks \in 0..(CLOCK_MOD - 1)
    BY HeldBasic
  <2>2. m.alarm_time \in [Pid -> Int] /\ ToInt(m.clock_ticks) \in Int
    BY <2>1, HeldTable, ToIntType
  <2> QED
    BY <2>2
<1> HIDE DEF at
<1>3. a \in Held(c, <<>>, R, {pid}) /\ a.alarm_time = at
  BY <1>2, SetAlarm
<1> HIDE DEF a
<1>4. "zombie" \in list_type /\ pid # 0
  BY DEF list_type, UserPid
<1>5. d \in Held(c, <<>>, R, {})
  BY <1>2, <1>3, <1>4, Place
<1> HIDE DEF d
<1>6. b \in Held(c, <<>>, R, {})
  BY <1>5, ReportFather
<1> HIDE DEF b
<1>7. e \in Held(c, <<>>, R, {})
  BY <1>6, CheckZombiesChildren
<1> HIDE DEF e
<1>8. f \in Held(c, <<>>, R, {})
  BY <1>7, Funeral
<1> HIDE DEF f
<1>9. \/ r \in Held(c, <<>>, R, {})
      \/ \E g \in Seq(Pid) : r \in Held(c, g, R, {}) /\ Range(g) = Range(<<>>) \cup {pid}
  BY <1>8, AddGarbageCollection
<1> HIDE DEF r
<1>10. <<>> \in Seq(Pid) /\ Range(<<>>) = {}
  BY DEF Range
<1> QED
  BY Zenon, <1>1, <1>9, <1>10

\* exit leaves the kernel settled.
LEMMA ExitSettled ==
  ASSUME NEW c \in UserPid, c \in Pid, NEW m \in Entered(c), NEW retval \in Int
  PROVE  Settled(exit(m, retval))
<1> DEFINE rv == [m.retvalue EXCEPT ![c] = retval]
           a == [m EXCEPT !.retvalue = rv]
           r == die(a, c)
<1>1. m \in Held(c, <<>>, {c}, {}) /\ m.cur_pid = c
  BY HeldBasic DEF Entered
<1>2. exit(m, retval) = scheduler(r)
  BY <1>1 DEF exit
<1>3. rv \in [Pid -> Int]
  <2>1. m.retvalue \in [Pid -> Int]
    BY <1>1 DEF Held, Memory
  <2> QED
    BY <2>1
<1> HIDE DEF rv
<1>4. /\ a \in Memory /\ a.cur_pid = m.cur_pid /\ a.fault = m.fault
      /\ a.garbage_collection_list = m.garbage_collection_list
      /\ a.queue_table = m.queue_table /\ a.state = m.state
  BY Zenon, <1>1, <1>3 DEF Held, Memory
<1> HIDE DEF a
<1>5. a \in Held(c, <<>>, {}, {c})
  BY Zenon, <1>1, <1>4, Unmoved, Release
<1>6. PICK g \in Seq(Pid) : r \in Held(c, g, {}, {}) /\ Range(g) \subseteq UserPid
  BY <1>5, Die
<1> HIDE DEF r
<1> QED
  BY <1>2, <1>6, Scheduler

\* kill leaves the kernel settled, whatever the victim was doing.
LEMMA KillSettled ==
  ASSUME NEW c \in UserPid, c \in Pid, NEW m \in Entered(c), NEW pid \in Pid
  PROVE  Settled(kill(m, pid))
<1> DEFINE rv == [m.retvalue EXCEPT ![pid] = KILL_RETVAL]
           a == [m EXCEPT !.retvalue = rv]
           s == [a EXCEPT !.sem_blocked[pid] = -1]
           t == signal_death(s, m.sem_blocked[pid])
           b == IF m.state[pid] = "sem_blocked" THEN t ELSE a
           d == unchain_from(b, pid, m.state[pid])
           e == die(d, pid)
           r == garbage_collect(e)
<1>1. m \in Held(c, <<>>, {c}, {}) /\ m.cur_pid = c
  BY HeldBasic DEF Entered
<1>2. kill(m, pid) = IF pid \notin UserPid THEN m
                     ELSE IF pid = c THEN exit(m, KILL_RETVAL)
                     ELSE IF m.state[pid] \in {"zombie", "freepid"} THEN a
                     ELSE r
  BY <1>1 DEF kill
<1>3. KILL_RETVAL \in Int
  BY DEF KILL_RETVAL
<1>4. rv \in [Pid -> Int]
  <2>1. m.retvalue \in [Pid -> Int]
    BY <1>1 DEF Held, Memory
  <2> QED
    BY <1>3, <2>1
<1> HIDE DEF rv
<1>5. /\ a \in Memory /\ a.cur_pid = m.cur_pid /\ a.fault = m.fault
      /\ a.garbage_collection_list = m.garbage_collection_list
      /\ a.queue_table = m.queue_table /\ a.state = m.state
  BY Zenon, <1>1, <1>4 DEF Held, Memory
<1> HIDE DEF a
<1>6. a \in Held(c, <<>>, {c}, {})
  BY <1>1, <1>5, Unmoved
<1>7. /\ s \in Memory /\ s.cur_pid = a.cur_pid /\ s.fault = a.fault
      /\ s.garbage_collection_list = a.garbage_collection_list
      /\ s.queue_table = a.queue_table /\ s.state = a.state
  BY Zenon, <1>6 DEF Held, Memory
<1> HIDE DEF s
<1>8. s \in Held(c, <<>>, {c}, {})
  BY <1>6, <1>7, Unmoved
<1>9. t \in Held(c, <<>>, {c}, {})
  BY <1>8, SignalDeath
<1> HIDE DEF t
<1>10. b \in Held(c, <<>>, {c}, {})
  BY <1>6, <1>9
<1> HIDE DEF b
<1>11. m.state[pid] \in list_type
  BY <1>1, HeldQueues
<1>12. d \in Held(c, <<>>, {c}, {pid})
  BY <1>10, <1>11, UnchainFrom
<1> HIDE DEF d
<1>13. CASE pid \in UserPid
  <2>1. PICK g \in Seq(Pid) : e \in Held(c, g, {c}, {}) /\ Range(g) \subseteq UserPid
    BY Zenon, <1>12, <1>13, Die
  <2> HIDE DEF e
  <2>2. PICK g2 \in Seq(Pid) :
          r \in Held(c, g2, {c}, {}) /\ (~r.fault => queue_empty(g2))
    BY <2>1, GarbageCollect
  <2> HIDE DEF r
  <2>3. Settled(r)
    <3>1. CASE r.fault
      BY <2>2, <3>1, HeldDef DEF Settled
    <3>2. CASE ~r.fault
      BY <2>2, <3>2, Stay DEF Entered, queue_empty
    <3> QED
      BY <3>1, <3>2
  <2>4. Settled(m) /\ Settled(a) /\ Settled(exit(m, KILL_RETVAL))
    BY <1>3, <1>6, Stay, ExitSettled DEF Entered
  <2> QED
    BY <1>2, <2>3, <2>4
<1>14. CASE pid \notin UserPid
  BY <1>2, <1>14, Stay
<1> QED
  BY <1>13, <1>14

-----------------------------------------------------------------------------
(***************************************************************************)
(* The clock interrupt and the garbage collector.                          *)
(***************************************************************************)

\* The clock interrupt leaves the kernel settled.
LEMMA ClockSettled ==
  ASSUME NEW c \in Pid, NEW m \in Entered(c)
  PROVE  Settled(it32_clock_body(m))
<1> DEFINE ct == (m.clock_ticks + 1) % CLOCK_MOD
           st == (m.sched_ticks + 1) % SCHED_TICKS
           a == [m EXCEPT !.clock_ticks = ct, !.sched_ticks = st]
<1>1. it32_clock_body(m) \in {a, scheduler(a)}
  BY DEF it32_clock_body, Entered, Held, Memory
<1>2. ct \in 0..(CLOCK_MOD - 1) /\ st \in 0..(SCHED_TICKS - 1)
  <2>1. /\ m.clock_ticks \in 0..(CLOCK_MOD - 1)
        /\ m.sched_ticks \in 0..(SCHED_TICKS - 1)
    BY DEF Entered, Held, Memory
  <2> QED
    BY <2>1, SizeAssumption
<1> HIDE DEF ct, st
<1>3. /\ a \in Memory /\ a.cur_pid = m.cur_pid /\ a.fault = m.fault
      /\ a.garbage_collection_list = m.garbage_collection_list
      /\ a.queue_table = m.queue_table /\ a.state = m.state
  BY Zenon, <1>2 DEF Entered, Held, Memory
<1> HIDE DEF a
<1>4. a \in Entered(c)
  BY <1>3, Unmoved DEF Entered
<1> QED
  BY <1>1, <1>4, Stay, Yield

\* One turn of the garbage collector process leaves the kernel settled.
LEMMA CollectorSettled ==
  ASSUME NEW m, Settled(m), ~m.fault, m.cur_pid = PID_GARBAGE
  PROVE  Settled(scheduler(garbage_collect(m)))
<1> DEFINE g == m.garbage_collection_list
           r == garbage_collect(m)
<1>1. {PID_GARBAGE} \cap Pid = {}
  BY SizeAssumption DEF PID_GARBAGE, Pid
<1>2. m \in Held(PID_GARBAGE, g, {}, {}) /\ Range(g) \subseteq UserPid
  BY <1>1, HeldDef DEF Settled
<1>3. PICK g2 \in Seq(Pid) :
        r \in Held(PID_GARBAGE, g2, {}, {}) /\ Range(g2) \subseteq UserPid
  BY <1>2, GarbageCollect
<1> HIDE DEF r
<1>4. Settled(scheduler(r))
  BY <1>3, Scheduler
<1> QED
  BY <1>4 DEF r

-----------------------------------------------------------------------------
(***************************************************************************)
(* Boot, and the invariant.                                                *)
(***************************************************************************)

\* A process that runs, in a settled memory, may enter the kernel.
LEMMA Enter ==
  ASSUME NEW m, Settled(m), ~m.fault, m.cur_pid \in Pid
  PROVE  m \in Entered(m.cur_pid)
<1>1. m.cur_pid # PID_GARBAGE /\ {m.cur_pid} \cap Pid = {m.cur_pid}
  BY SizeAssumption DEF PID_GARBAGE, Pid
<1>2. m.garbage_collection_list = <<>>
  BY <1>1 DEF Settled, garbage_collection_needed, queue_empty
<1> QED
  <2>1. m \in Memory /\ Proper(m, {m.cur_pid}, {})
    BY <1>1 DEF Settled
  <2> QED
    BY <1>2, <2>1, HeldDef DEF Entered

\* The free list of the boot.
LEMMA FreeList ==
  LET m == init_free_list
  IN  /\ m \in Memory /\ Placed(m, {})
      /\ m.cur_pid = 0 /\ ~m.fault /\ m.garbage_collection_list = <<>>
      /\ ~queue_empty(m.queue_table["freepid"])
      /\ queue_bottom(m.queue_table["freepid"]) = 0
<1> DEFINE m == init_free_list
           q == [i \in 1..NB_PROCESS |-> i - 1]
           nl == [n \in Node |-> NULL]
<1>1. /\ NB_PROCESS \in Nat /\ NB_PROCESS > 1 /\ 0 \in Pid
      /\ 0 \in 0..MAXPRIO /\ 0 \in SHRT_MIN..SHRT_MAX /\ 0 \in 0..NB_PROCESS
      /\ 0 \in 0..(CLOCK_MOD - 1) /\ 0 \in 0..(SCHED_TICKS - 1)
  BY SizeAssumption DEF Pid, SHRT_MIN
<1>2. /\ q \in Seq(Pid) /\ IsInjective(q) /\ Range(q) = Pid
      /\ q # <<>> /\ q[1] = 0
  <2>1. \A i \in 1..NB_PROCESS : i - 1 \in Pid
    BY <1>1 DEF Pid
  <2>2. q \in Seq(Pid) /\ Len(q) = NB_PROCESS /\ DOMAIN q = 1..NB_PROCESS
    BY <1>1, <2>1
  <2>3. IsInjective(q)
    BY <1>1 DEF IsInjective
  <2>4. \A p \in Pid : p + 1 \in 1..NB_PROCESS /\ q[p + 1] = p
    BY <1>1 DEF Pid
  <2>5. Range(q) = Pid
    BY Zenon, <2>1, <2>2, <2>4 DEF Range
  <2>6. q # <<>> /\ q[1] = 0
    BY <1>1, <2>2
  <2> QED
    BY <2>2, <2>3, <2>5, <2>6
<1> HIDE DEF q
<1>3. /\ <<>> \in Seq(Pid) /\ Range(<<>>) = {} /\ IsInjective(<<>>)
      /\ "freepid" \in list_type
  BY DEF Range, IsInjective, list_type
<1>4. nl \in [Node -> Node \cup {NULL}]
  OBVIOUS
<1>5. /\ m.queue_table = [s \in list_type |-> IF s = "freepid" THEN q ELSE <<>>]
      /\ m.state = [p \in Pid |-> "freepid"]
      /\ m.cur_pid = 0 /\ ~m.fault /\ m.garbage_collection_list = <<>>
  BY DEF init_free_list, q
<1>6. m.queue_table \in [list_type -> Seq(Pid)]
  BY <1>2, <1>3, <1>5
<1>7. m \in Memory
  <2> DEFINE zero == [p \in Pid |-> 0]
             none == [p \in Pid |-> -1]
             free == [p \in Pid |-> "freepid"]
             stk  == [p \in Pid |-> "none"]
             cnt  == [p \in Pid |-> "user"]
             vals == [s \in Sem |-> 0]
             tbl  == [s \in list_type |-> IF s = "freepid" THEN q ELSE <<>>]
  <2>1. /\ zero \in [Pid -> 0..MAXPRIO] /\ zero \in [Pid -> Int]
        /\ zero \in [Pid -> Pid] /\ zero \in [Pid -> Pid \cup {-1}]
    BY <1>1
  <2>2. none \in [Pid -> {-1, 0, -3, -4}] /\ none \in [Pid -> Sem \cup {-1}]
    OBVIOUS
  <2>3. free \in [Pid -> list_type] /\ vals \in [Sem -> SHRT_MIN..SHRT_MAX]
    BY <1>1, <1>3
  <2>4. /\ stk \in [Pid -> {"none", "allocated", "freed"}]
        /\ cnt \in [Pid -> {"user", "waitpid", "cons_read", "shell_cons_read"}]
    OBVIOUS
  <2>5. tbl \in [list_type -> Seq(Pid)]
    BY <1>5, <1>6
  <2>6. m = [cur_pid |-> 0, clock_ticks |-> 0, sched_ticks |-> 0,
             fault |-> FALSE, state |-> free, prio |-> zero,
             alarm_time |-> zero, father |-> zero, child_waited |-> zero,
             retvalue |-> zero, awakener |-> none, sem_blocked |-> none,
             stacks |-> stk, cont |-> cnt,
             links |-> [next |-> nl, prev |-> nl], queue_table |-> tbl,
             garbage_collection_list |-> <<>>, sem_used |-> {},
             value |-> vals]
    BY Zenon DEF init_free_list, q
  <2> HIDE DEF zero, none, free, stk, cnt, vals, tbl, nl, m
  <2> QED
    BY Zenon, <1>1, <1>3, <1>4, <2>1, <2>2, <2>3, <2>4, <2>5, <2>6 DEF Memory
<1> HIDE DEF m
<1>8. \A s \in list_type : IsInjective(m.queue_table[s])
  BY <1>2, <1>3, <1>5
<1>9. \A s \in list_type : \A p \in Range(m.queue_table[s]) : m.state[p] = s
  BY <1>2, <1>3, <1>5
<1>10. Placed(m, {})
  BY <1>5, <1>8, <1>9 DEF Placed
<1> QED
  BY <1>2, <1>3, <1>5, <1>7, <1>10 DEF queue_empty, queue_bottom, m

\* init_scheduler takes idle out of its queue while idle is the running process.
LEMMA UnchainIdle ==
  ASSUME NEW g, NEW R \in SUBSET Pid, NEW p \in Pid, NEW m \in Held(p, g, R, {})
  PROVE  /\ unchain(m, p) \in Held(p, g, R, {p})
         /\ unchain(m, p).state = m.state
         /\ m.fault => unchain(m, p).fault
<1>1. unchain(m, p) \in Held(p, g, R, {p})
  BY Unchain, Zenon
<1>2. m \in Memory
  BY HeldDef
<1>3. unchain(m, p).state = m.state
  BY <1>2 DEF unchain, panic, Memory
<1>4. m.fault => unchain(m, p).fault
  BY <1>2 DEF unchain, panic, Memory
<1> QED
  BY <1>1, <1>3, <1>4

\* The kernel is settled when kernel_start reaches idle.
LEMMA InitSettled == Settled(kernel_start)
<1> DEFINE m == init_free_list
           new == queue_bottom(m.queue_table["freepid"])
           a == [m EXCEPT !.queue_table["freepid"] = queue_out_bot(@)]
           b == init_process(a, new, 1)
           d == add_child(place(b, new, "actionable", b.prio), new, 0)
           e == [d EXCEPT !.prio[0] = 0]
           f == unchain(e, 0)
<1>1. /\ m \in Memory /\ Placed(m, {})
      /\ m.cur_pid = 0 /\ ~m.fault /\ m.garbage_collection_list = <<>>
      /\ ~queue_empty(m.queue_table["freepid"]) /\ new = 0
  BY FreeList
<1>2. 1 \in 1..MAXPRIO /\ MAXPRIO \in 1..MAXPRIO /\ 0 \in 0..MAXPRIO /\ 0 \in Pid
  BY SizeAssumption, ZeroPid
<1> HIDE DEF m
<1>3. start(m, 1, TRUE) = d
  BY <1>1, <1>2 DEF start
<1>4. /\ a \in Memory /\ a.cur_pid = m.cur_pid /\ a.fault = m.fault
      /\ a.garbage_collection_list = m.garbage_collection_list
      /\ Placed(a, {} \cup {new})
  BY <1>1, TakeFree
<1> HIDE DEF a, new
<1>5. a \in Held(0, <<>>, {}, {new})
  BY <1>1, <1>4, HeldDef DEF Proper
<1>6. d \in Held(0, <<>>, {}, {})
  BY <1>1, <1>2, <1>5, StartBody
<1> HIDE DEF d
<1>7. /\ e \in Memory /\ e.cur_pid = d.cur_pid /\ e.fault = d.fault
      /\ e.garbage_collection_list = d.garbage_collection_list
      /\ e.queue_table = d.queue_table /\ e.state = d.state
  BY Zenon, <1>2, <1>6 DEF Held, Memory
<1> HIDE DEF e
<1>8. e \in Held(0, <<>>, {}, {})
  BY <1>6, <1>7, Unmoved
<1>9. /\ f \in Held(0, <<>>, {}, {0}) /\ f.state = e.state
      /\ e.fault => f.fault
  <2> DEFINE g == <<>>
             R == {}
             p == 0
  <2>1. R \in SUBSET Pid /\ p \in Pid /\ e \in Held(p, g, R, {})
    BY <1>2, <1>8
  <2> HIDE DEF g, R, p
  <2>2. /\ unchain(e, p) \in Held(p, g, R, {p})
        /\ unchain(e, p).state = e.state
        /\ e.fault => unchain(e, p).fault
    BY ONLY <2>1, UnchainIdle
  <2> QED
    BY <2>2 DEF g, R, p
<1>10. ~f.fault => f.state[0] = "actionable"
  BY <1>8, <1>9, ZeroActionable
<1> HIDE DEF f
<1>11. f \in Entered(0)
  <2>1. /\ f \in Memory /\ f.cur_pid = 0 /\ f.garbage_collection_list = <<>>
        /\ f.fault \/ Proper(f, {}, {0})
    BY <1>9, HeldDef
  <2>2. {} \cup {0} = {0} \cup {}
    OBVIOUS
  <2>3. f.fault \/ Proper(f, {0}, {})
    BY <1>10, <2>1, <2>2 DEF Proper
  <2> QED
    BY <2>1, <2>3, HeldDef DEF Entered
<1>12. kernel_start = start(f, MAXPRIO, TRUE)
  BY Zenon, <1>3 DEF kernel_start, init_scheduler, m, e, f
<1> QED
  BY Zenon, <1>2, <1>11, <1>12, StartSettled

\* A step runs to its end, or stops the machine in panic.
LEMMA RunSettled ==
  ASSUME Settled(k), NEW r, Settled(r), Run(r)
  PROVE  Settled(k')
<1>1. CASE r.fault
  <2>1. k' = panic(k)
    BY <1>1 DEF Run
  <2>2. panic(k) \in Memory /\ panic(k).fault
    BY Zenon DEF panic, Settled, Memory
  <2> QED
    BY <2>1, <2>2 DEF Settled
<1>2. CASE ~r.fault
  BY <1>2 DEF Run
<1> QED
  BY <1>1, <1>2

\* Settled is inductive: whichever system call, interrupt or collection comes
\* next, a settled kernel is settled after it, or has stopped on a fault.
LEMMA SettledStep ==
  Settled(k) /\ [Next]_k => Settled(k)'
<1> SUFFICES ASSUME Settled(k), [Next]_k PROVE Settled(k')
  OBVIOUS
<1>1. ASSUME NEW r, Settled(r), Run(r) PROVE Settled(k')
  BY <1>1, RunSettled
<1>2. ASSUME ~k.fault, k.cur_pid \in UserPid
      PROVE  /\ k.cur_pid \in Pid /\ k.cur_pid # 0
             /\ k \in Entered(k.cur_pid)
  <2>1. k.cur_pid \in Pid /\ k.cur_pid # 0
    BY <1>2, SizeAssumption DEF Pid, UserPid
  <2> QED
    BY <1>2, <2>1, Enter
<1>3. ASSUME NEW count \in Counts PROVE count \in SHRT_MIN..SHRT_MAX
  BY InputAssumption
<1>4. CASE Start
  <2>1. PICK prio \in Prios, alloc \in {TRUE, ~AllocFails} : Run(start(k, prio, alloc))
    BY Zenon, <1>4 DEF Start
  <2>2. alloc \in BOOLEAN
    BY Zenon, InputAssumption
  <2>3. Settled(start(k, prio, alloc))
    BY <1>2, <1>4, <2>2, StartSettled DEF Start, InUser
  <2> QED
    BY <1>1, <2>1, <2>3
<1>5. CASE Exit
  <2>1. PICK retval \in RetVals : Run(exit(k, retval))
    BY <1>5 DEF Exit
  <2>2. retval \in Int
    BY InputAssumption
  <2>3. Settled(exit(k, retval))
    BY <1>2, <1>5, <2>2, ExitSettled DEF Exit, InUser
  <2> QED
    BY <1>1, <2>1, <2>3
<1>6. CASE Kill
  <2>1. PICK pid \in Pid : Run(kill(k, pid))
    BY <1>6 DEF Kill
  <2>2. Settled(kill(k, pid))
    BY <1>2, <1>6, KillSettled DEF Kill, InUser
  <2> QED
    BY <1>1, <2>1, <2>2
<1>7. CASE Waitpid
  <2>1. PICK pid \in Pid \cup {-1} : Run(waitpid(k, pid))
    BY <1>7 DEF Waitpid
  <2>2. Settled(waitpid(k, pid))
    BY <1>2, <1>7, WaitpidSettled DEF Waitpid, InUser
  <2> QED
    BY <1>1, <2>1, <2>2
<1>8. CASE ResumeWaitpid
  <2>1. Settled(waitpid_end(k))
    BY <1>2, <1>8, WaitpidEndSettled DEF ResumeWaitpid
  <2> QED
    BY <1>1, <1>8, <2>1 DEF ResumeWaitpid
<1>9. CASE Chprio
  <2>1. PICK pid \in Pid, newprio \in Prios : Run(chprio(k, pid, newprio))
    BY <1>9 DEF Chprio
  <2>2. Settled(chprio(k, pid, newprio))
    BY <1>2, <1>9, ChprioSettled DEF Chprio, InUser
  <2> QED
    BY <1>1, <2>1, <2>2
<1>10. CASE WaitClock
  <2>1. PICK clock \in Alarms : Run(wait_clock(k, clock))
    BY <1>10 DEF WaitClock
  <2>2. clock \in 0..(CLOCK_MOD - 1)
    BY InputAssumption
  <2>3. Settled(wait_clock(k, clock))
    BY <1>2, <1>10, <2>2, WaitClockSettled DEF WaitClock, InUser
  <2> QED
    BY <1>1, <2>1, <2>3
<1>11. CASE Screate
  <2>1. PICK count \in Counts : Run(screate(k, count))
    BY <1>11 DEF Screate
  <2>2. Settled(screate(k, count))
    BY <1>2, <1>3, <1>11, ScreateSettled DEF Screate, InUser
  <2> QED
    BY <1>1, <2>1, <2>2
<1>12. CASE Sdelete
  <2>1. PICK id \in Sem : Run(sdelete(k, id))
    BY <1>12 DEF Sdelete
  <2>2. Settled(sdelete(k, id))
    BY <1>2, <1>12, SdeleteSettled DEF Sdelete, InUser
  <2> QED
    BY <1>1, <2>1, <2>2
<1>13. CASE Sreset
  <2>1. PICK id \in Sem, count \in Counts : Run(sreset(k, id, count))
    BY <1>13 DEF Sreset
  <2>2. Settled(sreset(k, id, count))
    BY <1>2, <1>3, <1>13, SresetSettled DEF Sreset, InUser
  <2> QED
    BY <1>1, <2>1, <2>2
<1>14. CASE Signal
  <2>1. PICK id \in Sem : Run(signal(k, id))
    BY <1>14 DEF Signal
  <2>2. Settled(signal(k, id))
    BY <1>2, <1>14, SignalSettled DEF Signal, InUser
  <2> QED
    BY <1>1, <2>1, <2>2
<1>15. CASE Signaln
  <2>1. PICK id \in Sem, count \in Counts : Run(signaln(k, id, count))
    BY <1>15 DEF Signaln
  <2>2. Settled(signaln(k, id, count))
    BY <1>2, <1>3, <1>15, SignalnSettled DEF Signaln, InUser
  <2> QED
    BY <1>1, <2>1, <2>2
<1>16. CASE Wait
  <2>1. PICK id \in Sem : Run(wait(k, id))
    BY <1>16 DEF Wait
  <2>2. Settled(wait(k, id))
    BY <1>2, <1>16, WaitSettled DEF Wait, InUser
  <2> QED
    BY <1>1, <2>1, <2>2
<1>17. CASE TryWait
  <2>1. PICK id \in Sem : Run(try_wait(k, id))
    BY <1>17 DEF TryWait
  <2>2. Settled(try_wait(k, id))
    BY <1>2, <1>17, WaitSettled DEF TryWait, InUser
  <2> QED
    BY <1>1, <2>1, <2>2
<1>18. CASE ClockInterrupt
  <2>1. ~k.fault /\ k.cur_pid \in Pid /\ Run(it32_clock_body(k))
    BY <1>18 DEF ClockInterrupt
  <2>2. Settled(it32_clock_body(k))
    BY <2>1, Enter, ClockSettled
  <2> QED
    BY <1>1, <2>1, <2>2
<1>19. CASE GarbageCollector
  <2>1. /\ ~k.fault /\ k.cur_pid = PID_GARBAGE
        /\ Run(scheduler(garbage_collect(k)))
    BY <1>19 DEF GarbageCollector
  <2>2. Settled(scheduler(garbage_collect(k)))
    BY <2>1, CollectorSettled
  <2> QED
    BY <1>1, <2>1, <2>2
<1>20. CASE UNCHANGED k
  BY <1>20
<1> QED
  BY <1>4, <1>5, <1>6, <1>7, <1>8, <1>9, <1>10, <1>11, <1>12, <1>13, <1>14,
     <1>15, <1>16, <1>17, <1>18, <1>19, <1>20 DEF Next, SemNext

\* The kernel memory keeps its type: whatever the processes do, a counter stays
\* in the range of a short, a pid field holds a pid, a queue holds pids.
THEOREM TypeCorrect == Spec => []TypeOK
<1>1. Init => Settled(k)
  BY InitSettled DEF Init
<1>2. Settled(k) => TypeOK
  BY DEF Settled, TypeOK
<1> QED
  BY <1>1, <1>2, SettledStep, PTL DEF Spec

\* In a settled memory each process is in the queue of its state, once.
LEMMA SettledQueues == Settled(k) => QueueInv
<1> SUFFICES ASSUME Settled(k), ~k.fault PROVE QueueInv
  BY DEF QueueInv
<1>1. CASE k.cur_pid \in Pid
  <2>1. {k.cur_pid} \cap Pid = {k.cur_pid} /\ k.cur_pid # PID_GARBAGE
    BY <1>1 DEF Pid, PID_GARBAGE
  <2> QED
    BY <1>1, <2>1 DEF Settled, Proper, QueueInv, garbage_collection_needed
<1>2. CASE k.cur_pid \notin Pid
  <2>1. {k.cur_pid} \cap Pid = {}
    BY <1>2
  <2> QED
    BY <1>2, <2>1 DEF Settled, Proper, QueueInv, garbage_collection_needed
<1> QED
  BY <1>1, <1>2

\* The state queues agree with the process table each time the kernel is left:
\* every step of every system call, of the clock interrupt and of the garbage
\* collector puts each process back in the queue of its state, once.
THEOREM QueuesAgree == Spec => []QueueInv
<1>1. Init => Settled(k)
  BY InitSettled DEF Init
<1>2. Settled(k) => QueueInv
  BY SettledQueues
<1> QED
  BY <1>1, <1>2, SettledStep, PTL DEF Spec

-----------------------------------------------------------------------------
(***************************************************************************)
(* What the internal functions of process_handler.c do to bystanders.      *)
(***************************************************************************)

SemQueue(m) == m.queue_table["sem_blocked"]

\* The fields only a system call's own code changes.
Rest(m, r) ==
  /\ r.clock_ticks = m.clock_ticks /\ r.sem_used = m.sem_used
  /\ r.value = m.value /\ r.cont = m.cont /\ r.prio = m.prio

Quiet(m, r) ==
  Rest(m, r) /\ r.sem_blocked = m.sem_blocked /\ r.alarm_time = m.alarm_time

\* What scheduler, report_father, check_zombies_children, funeral and
\* garbage_collect may do to process p: nothing, or wake a father or a sleeper
\* whose time has come, or free the pid of a dead process.
Drifts(m, r, p) ==
  \/ /\ r.state[p] = m.state[p] /\ r.sem_blocked[p] = m.sem_blocked[p]
     /\ r.alarm_time[p] = m.alarm_time[p]
  \/ /\ r.state[p] = "actionable" /\ r.sem_blocked[p] = m.sem_blocked[p]
     /\ \/ m.state[p] = "waiting_child"
        \/ m.state[p] = "asleep" /\ m.alarm_time[p] < ToInt(m.clock_ticks)
  \/ /\ m.state[p] \in {"zombie", "freepid"}
     /\ r.state[p] = "freepid" /\ r.sem_blocked[p] = -1

Drift(m, r) ==
  \/ r.fault
  \/ /\ ~m.fault /\ Rest(m, r) /\ SemQueue(r) = SemQueue(m)
     /\ \A p \in Pid : Drifts(m, r, p)

\* Doing nothing is a drift.
LEMMA DriftStay ==
  ASSUME NEW m
  PROVE  Drift(m, m)
BY DEF Drift, Drifts, Rest

\* Two drifts are one.
LEMMA DriftTrans ==
  ASSUME NEW m, NEW a, NEW r, Drift(m, a), Drift(a, r)
  PROVE  Drift(m, r)
<1>1. CASE r.fault
  BY <1>1 DEF Drift
<1>2. CASE ~r.fault
  <2>1. /\ Rest(a, r) /\ SemQueue(r) = SemQueue(a)
        /\ \A p \in Pid : Drifts(a, r, p)
        /\ ~m.fault /\ Rest(m, a) /\ SemQueue(a) = SemQueue(m)
        /\ \A p \in Pid : Drifts(m, a, p)
    BY <1>2 DEF Drift
  <2>2. ASSUME NEW p \in Pid PROVE Drifts(m, r, p)
    <3>1. Drifts(m, a, p) /\ Drifts(a, r, p) /\ a.clock_ticks = m.clock_ticks
      BY <2>1 DEF Rest
    <3> QED
      BY <3>1 DEF Drifts
  <2>3. Rest(m, r) /\ SemQueue(r) = SemQueue(m)
    BY <2>1 DEF Rest
  <2> QED
    BY <2>1, <2>2, <2>3 DEF Drift
<1> QED
  BY <1>1, <1>2

\* A failed assertion leaves nothing to say.
LEMMA DriftPanic ==
  ASSUME NEW m \in Memory, NEW a
  PROVE  Drift(a, panic(m))
BY DEF Drift, panic, Memory

\* The fields place, unchain and del_child change, unless they fail.
Placing(m, r, p, s, key) ==
  \/ r.fault
  \/ /\ ~chained(m, p) /\ ~m.fault /\ Quiet(m, r)
     /\ r.state = [m.state EXCEPT ![p] = s]
     /\ r.queue_table =
          [m.queue_table EXCEPT ![s] = queue_add(p, m.queue_table[s], key)]

Unchaining(m, r, p) ==
  \/ r.fault
  \/ /\ chained(m, p) /\ ~m.fault /\ Quiet(m, r) /\ r.state = m.state
     /\ r.queue_table = [s \in list_type |-> queue_del(p, m.queue_table[s])]

Relinking(m, r) ==
  \/ r.fault
  \/ /\ ~m.fault /\ Quiet(m, r)
     /\ r.state = m.state /\ r.queue_table = m.queue_table

\* place: queue_add and the assignment of the field state.
LEMMA PlaceFields ==
  ASSUME NEW m \in Memory, NEW p, NEW s, NEW key
  PROVE  Placing(m, place(m, p, s, key), p, s, key)
<1>1. CASE chained(m, p)
  BY <1>1 DEF place, panic, Memory, Placing
<1>2. CASE ~chained(m, p)
  <2> DEFINE q == queue_add(p, m.queue_table[s], key)
             r == [m EXCEPT !.queue_table[s] = q, !.state[p] = s]
  <2>1. place(m, p, s, key) = r
    BY <1>2 DEF place
  <2> HIDE DEF q
  <2>2. /\ r.fault = m.fault /\ r.state = [m.state EXCEPT ![p] = s]
        /\ r.queue_table = [m.queue_table EXCEPT ![s] = q]
        /\ m.fault \in BOOLEAN
    BY DEF Memory
  <2>3. Quiet(m, r)
    BY DEF Memory, Quiet, Rest
  <2> HIDE DEF r
  <2> QED
    BY <1>2, <2>1, <2>2, <2>3 DEF q, Placing
<1> QED
  BY <1>1, <1>2

\* unchain: queue_del on the field chaining.
LEMMA UnchainFields ==
  ASSUME NEW m \in Memory, NEW p
  PROVE  Unchaining(m, unchain(m, p), p)
<1>1. CASE ~chained(m, p)
  BY <1>1 DEF unchain, panic, Memory, Unchaining
<1>2. CASE chained(m, p)
  <2> DEFINE q == [s \in list_type |-> queue_del(p, m.queue_table[s])]
             r == [m EXCEPT !.queue_table = q]
  <2>1. unchain(m, p) = r
    BY <1>2 DEF unchain
  <2> HIDE DEF q
  <2>2. /\ r.fault = m.fault /\ r.state = m.state /\ r.queue_table = q
        /\ m.fault \in BOOLEAN
    BY DEF Memory
  <2>3. Quiet(m, r)
    BY DEF Memory, Quiet, Rest
  <2> HIDE DEF r
  <2> QED
    BY <1>2, <2>1, <2>2, <2>3 DEF q, Unchaining
<1> QED
  BY <1>1, <1>2

\* unchain_from does not touch the field state, whether it fails or not.
LEMMA UnchainFromState ==
  ASSUME NEW m \in Memory, NEW p, NEW s
  PROVE  unchain_from(m, p, s).state = m.state
BY DEF unchain_from, unchain, panic, Memory

\* del_child: queue_del on the field children_chaining.
LEMMA DelChildFields ==
  ASSUME NEW m \in Memory, NEW p
  PROVE  Relinking(m, del_child(m, p))
<1>1. CASE ~link_del_ok(m.links, p)
  BY <1>1 DEF del_child, panic, Memory, Relinking
<1>2. CASE link_del_ok(m.links, p)
  <2> DEFINE l == link_del(m.links, p)
             r == [m EXCEPT !.links = l]
  <2>1. del_child(m, p) = r
    BY <1>2 DEF del_child
  <2> HIDE DEF l
  <2>2. /\ r.fault = m.fault /\ m.fault \in BOOLEAN
        /\ r.state = m.state /\ r.queue_table = m.queue_table
    BY DEF Memory
  <2>3. Quiet(m, r)
    BY DEF Memory, Quiet, Rest
  <2> HIDE DEF r
  <2> QED
    BY <2>1, <2>2, <2>3 DEF Relinking
<1> QED
  BY <1>1, <1>2

\* Taking a process that is not blocked on a semaphore out of its queue leaves
\* the sem_blocked queue as it is.
LEMMA SemQueueApart ==
  ASSUME NEW c, NEW g, NEW R, NEW m \in Held(c, g, R, {}), NEW p \in Pid,
         m.state[p] # "sem_blocked", NEW r, Unchaining(m, r, p)
  PROVE  r.fault \/ SemQueue(r) = SemQueue(m)
<1> SUFFICES ASSUME ~r.fault PROVE SemQueue(r) = SemQueue(m)
  OBVIOUS
<1>1. m \in Memory /\ (m.fault \/ Proper(m, R, {}))
  BY HeldDef
<1>2. ~m.fault /\ r.queue_table = [s \in list_type |-> queue_del(p, m.queue_table[s])]
  BY DEF Unchaining
<1>3. "sem_blocked" \in list_type
  BY DEF list_type
<1>4. p \notin Range(SemQueue(m))
  BY <1>1, <1>2, <1>3 DEF Proper, Placed, SemQueue
<1>5. queue_del(p, SemQueue(m)) = SemQueue(m)
  <2>1. SemQueue(m) \in Seq(Pid)
    BY <1>3, HeldQueues DEF SemQueue
  <2>2. ~\E j \in 1..Len(SemQueue(m)) : SemQueue(m)[j] = p
    BY <1>4, <2>1 DEF Range
  <2> QED
    BY <2>2 DEF queue_del
<1> QED
  BY <1>2, <1>3, <1>5 DEF SemQueue

\* Entering a queue other than sem_blocked leaves that one as it is.
LEMMA SemQueueElse ==
  ASSUME NEW m \in Memory, NEW r, NEW p, NEW s \in list_type \ {"sem_blocked"},
         NEW key, Placing(m, r, p, s, key)
  PROVE  r.fault \/ SemQueue(r) = SemQueue(m)
<1>1. m.queue_table \in [list_type -> Seq(Pid)] /\ "sem_blocked" \in list_type
  BY DEF Memory, list_type
<1>2. \/ r.fault
      \/ r.queue_table = [m.queue_table EXCEPT ![s] = queue_add(p, m.queue_table[s], key)]
  BY DEF Placing
<1> QED
  BY <1>1, <1>2 DEF SemQueue

\* The fields free_pid changes.
Freeing(m, r, p) ==
  \/ r.fault
  \/ /\ ~m.fault /\ Rest(m, r) /\ SemQueue(r) = SemQueue(m)
     /\ r.alarm_time = m.alarm_time
     /\ r.sem_blocked = [m.sem_blocked EXCEPT ![p] = -1]
     /\ r.state = [m.state EXCEPT ![p] = "freepid"]

\* free_pid: the pid goes back to the free ones.
LEMMA FreePidFields ==
  ASSUME NEW m \in Memory, NEW p \in Pid
  PROVE  Freeing(m, free_pid(m, p), p)
<1> DEFINE a == [m EXCEPT !.awakener[p] = -1, !.sem_blocked[p] = -1]
           r == place(a, p, "freepid", pid_key)
<1>1. free_pid(m, p) = r
  BY DEF free_pid
<1>2. /\ a \in Memory /\ a.fault = m.fault
      /\ a.queue_table = m.queue_table /\ a.state = m.state
      /\ a.alarm_time = m.alarm_time
      /\ a.sem_blocked = [m.sem_blocked EXCEPT ![p] = -1]
  BY Zenon DEF Memory
<1>3. Rest(m, a)
  BY DEF Memory, Rest
<1> HIDE DEF a
<1>4. Placing(a, r, p, "freepid", pid_key)
  BY <1>2, PlaceFields
<1>5. r.fault \/ SemQueue(r) = SemQueue(a)
  <2>1. "freepid" \in list_type \ {"sem_blocked"}
    BY DEF list_type
  <2> HIDE DEF r
  <2> QED
    BY <1>2, <1>4, <2>1, SemQueueElse
<1>6. SemQueue(a) = SemQueue(m)
  BY <1>2 DEF SemQueue
<1> HIDE DEF r
<1>7. ~r.fault => Rest(m, r)
  BY <1>3, <1>4 DEF Placing, Quiet, Rest
<1> QED
  BY <1>1, <1>2, <1>4, <1>5, <1>6, <1>7 DEF Placing, Quiet, Freeing

-----------------------------------------------------------------------------
(***************************************************************************)
(* Each of those functions only drifts.                                    *)
(***************************************************************************)

\* A change of fields that say nothing about who is where drifts.
LEMMA QuietDrift ==
  ASSUME NEW m, NEW r, m.fault => r.fault, Quiet(m, r),
         r.state = m.state, SemQueue(r) = SemQueue(m)
  PROVE  Drift(m, r)
BY DEF Quiet, Drift, Drifts

\* del_child drifts.
LEMMA DelChildDrift ==
  ASSUME NEW m \in Memory, NEW p
  PROVE  Drift(m, del_child(m, p))
<1>1. Relinking(m, del_child(m, p))
  BY DelChildFields
<1> QED
  BY <1>1 DEF Relinking, Quiet, Drift, Drifts, SemQueue

\* unchain drifts, unless the process is blocked on a semaphore.
LEMMA UnchainDrift ==
  ASSUME NEW c, NEW g, NEW R, NEW m \in Held(c, g, R, {}), NEW p \in Pid,
         m.fault \/ m.state[p] # "sem_blocked"
  PROVE  Drift(m, unchain(m, p))
<1> DEFINE r == unchain(m, p)
<1>1. m \in Memory
  BY HeldDef
<1>2. Unchaining(m, r, p)
  BY <1>1, UnchainFields
<1> HIDE DEF r
<1>3. m.fault \/ r.fault \/ SemQueue(r) = SemQueue(m)
  BY <1>2, SemQueueApart
<1>4. Drift(m, r)
  BY <1>2, <1>3 DEF Unchaining, Quiet, Drift, Drifts
<1> QED
  BY <1>4 DEF r

\* unchain_from drifts, unless the queue is the one of the semaphores.
LEMMA UnchainFromDrift ==
  ASSUME NEW c, NEW g, NEW R \in SUBSET Pid, NEW m \in Held(c, g, R, {}),
         NEW p \in Pid, NEW s \in list_type \ {"sem_blocked"}
  PROVE  Drift(m, unchain_from(m, p, s))
<1>1. CASE p \notin Range(m.queue_table[s])
  BY <1>1, DriftPanic, HeldDef DEF unchain_from
<1>2. CASE p \in Range(m.queue_table[s])
  <2>1. unchain_from(m, p, s) = unchain(m, p)
    BY <1>2 DEF unchain_from
  <2>2. m.fault \/ m.state[p] = s
    BY <1>2, HeldDef DEF Proper, Placed
  <2> QED
    BY <2>1, <2>2, UnchainDrift
<1> QED
  BY <1>1, <1>2

\* place drifts when it wakes a father, or puts a process back where it was.
LEMMA PlaceDrift ==
  ASSUME NEW m \in Memory, NEW p \in Pid, NEW s \in list_type \ {"sem_blocked"},
         NEW key,
         \/ m.fault \/ m.state[p] = s
         \/ m.state[p] = "waiting_child" /\ s = "actionable"
  PROVE  Drift(m, place(m, p, s, key))
<1> DEFINE r == place(m, p, s, key)
<1>1. Placing(m, r, p, s, key)
  BY PlaceFields
<1> HIDE DEF r
<1>2. r.fault \/ SemQueue(r) = SemQueue(m)
  BY <1>1, SemQueueElse
<1>3. Drift(m, r)
  <2> SUFFICES ASSUME ~r.fault PROVE Drift(m, r)
    BY DEF Drift
  <2>1. /\ ~m.fault /\ Quiet(m, r) /\ SemQueue(r) = SemQueue(m)
        /\ r.state = [m.state EXCEPT ![p] = s]
        /\ m.state[p] = s \/ (m.state[p] = "waiting_child" /\ s = "actionable")
    BY <1>1, <1>2 DEF Placing
  <2>2. m.state \in [Pid -> list_type]
    BY DEF Memory
  <2>3. ASSUME NEW x \in Pid PROVE Drifts(m, r, x)
    <3>1. CASE x = p
      BY <2>1, <2>2, <3>1 DEF Drifts, Quiet
    <3>2. CASE x # p
      BY <2>1, <2>2, <3>2 DEF Drifts, Quiet
    <3> QED
      BY <3>1, <3>2
  <2> QED
    BY <2>1, <2>3 DEF Drift, Quiet
<1> QED
  BY <1>3 DEF r

\* free_pid of a dead process drifts.
LEMMA FreePidDrift ==
  ASSUME NEW m \in Memory, NEW p \in Pid,
         m.fault \/ m.state[p] \in {"zombie", "freepid"}
  PROVE  Drift(m, free_pid(m, p))
<1> DEFINE r == free_pid(m, p)
<1>1. Freeing(m, r, p)
  BY FreePidFields
<1> HIDE DEF r
<1>2. Drift(m, r)
  <2> SUFFICES ASSUME ~r.fault PROVE Drift(m, r)
    BY DEF Drift
  <2>1. /\ ~m.fault /\ Rest(m, r) /\ SemQueue(r) = SemQueue(m)
        /\ r.alarm_time = m.alarm_time
        /\ r.sem_blocked = [m.sem_blocked EXCEPT ![p] = -1]
        /\ r.state = [m.state EXCEPT ![p] = "freepid"]
        /\ m.state[p] \in {"zombie", "freepid"}
    BY <1>1 DEF Freeing
  <2>2. m.state \in [Pid -> list_type] /\ m.sem_blocked \in [Pid -> Sem \cup {-1}]
    BY DEF Memory
  <2>3. ASSUME NEW x \in Pid PROVE Drifts(m, r, x)
    <3>1. CASE x = p
      BY <2>1, <2>2, <3>1 DEF Drifts
    <3>2. CASE x # p
      BY <2>1, <2>2, <3>2 DEF Drifts
    <3> QED
      BY <3>1, <3>2
  <2> QED
    BY <2>1, <2>3 DEF Drift
<1> QED
  BY <1>2 DEF r

\* The garbage list holds dead processes.
Buried(m) ==
  ~m.fault => \A p \in Range(m.garbage_collection_list) :
                m.state[p] \in {"zombie", "freepid"}

\* Drifting does not bring a process back to life.
LEMMA DeadStay ==
  ASSUME NEW m, NEW r, Drift(m, r), NEW p \in Pid,
         ~m.fault => m.state[p] \in {"zombie", "freepid"}
  PROVE  ~r.fault => r.state[p] \in {"zombie", "freepid"}
BY DEF Drift, Drifts

\* One turn of garbage_collect drifts, and what it leaves in the list is dead.
LEMMA CollectOneDrift ==
  ASSUME NEW c, NEW g, NEW R \in SUBSET Pid, NEW m \in Held(c, g, R, {}),
         Range(g) \subseteq UserPid, ~queue_empty(g), Buried(m)
  PROVE  Drift(m, collect_one(m)) /\ Buried(collect_one(m))
<1> DEFINE p == queue_top(m.garbage_collection_list)
           g2 == queue_out(m.garbage_collection_list)
           a == [m EXCEPT !.garbage_collection_list = g2, !.stacks[p] = "freed"]
           b == IF m.stacks[p] = "allocated" THEN a ELSE panic(a)
           d == unchain(b, p)
           e == del_child(d, p)
           r == collect_one(m)
<1>1. m.garbage_collection_list = g /\ g \in Seq(Pid)
  BY HeldBasic
<1>2. r = IF m.father[p] # 0 THEN b ELSE free_pid(e, p)
  BY <1>1 DEF collect_one, garbage_collection_needed
<1>3. /\ p \in Pid /\ p \in Range(g) /\ g2 \in Seq(Pid) /\ g2 = queue_out(g)
      /\ Range(g2) \subseteq Range(g)
  BY <1>1, QueueOut
<1>4. ~m.fault => m.state[p] \in {"zombie", "freepid"}
  BY <1>1, <1>3 DEF Buried
<1> HIDE DEF p, g2
<1>5. /\ a \in Memory /\ a.cur_pid = m.cur_pid /\ a.fault = m.fault
      /\ a.garbage_collection_list = g2
      /\ a.queue_table = m.queue_table /\ a.state = m.state
  BY Zenon, <1>3 DEF Held, Memory
<1>6. Quiet(m, a)
  BY DEF Held, Memory, Quiet, Rest
<1> HIDE DEF a
<1>7. Drift(m, a)
  BY <1>5, <1>6, QuietDrift DEF SemQueue
<1>8. a \in Held(c, g2, R, {})
  BY <1>5, FrameGarbage
<1>9. b \in Held(c, g2, R, {})
  BY <1>8, Panic
<1>10. Drift(m, b)
  BY <1>5, <1>7, DriftPanic
<1>11. b.fault \/ b.state[p] \in {"zombie", "freepid"}
  BY <1>3, <1>4, <1>10, DeadStay
<1> HIDE DEF b
<1>12. Drift(b, d)
  BY <1>3, <1>9, <1>11, UnchainDrift
<1>13. d \in Held(c, g2, R, {p})
  BY <1>3, <1>9, Unchain
<1> HIDE DEF d
<1>14. Drift(d, e)
  BY <1>13, HeldDef, DelChildDrift
<1>15. e \in Held(c, g2, R, {p})
  BY <1>3, <1>13, DelChild
<1> HIDE DEF e
<1>16. Drift(b, e)
  BY <1>12, <1>14, DriftTrans
<1>17. Drift(e, free_pid(e, p))
  <2>1. e.fault \/ e.state[p] \in {"zombie", "freepid"}
    BY <1>3, <1>11, <1>16, DeadStay
  <2> QED
    BY <1>3, <1>15, <2>1, HeldDef, FreePidDrift
<1>18. Drift(b, free_pid(e, p))
  BY <1>16, <1>17, DriftTrans
<1>19. Drift(m, r)
  BY <1>2, <1>10, <1>18, DriftTrans
<1>20. r.garbage_collection_list = queue_out(g)
  <2>1. collect_one(m) \in Held(c, queue_out(g), R, {})
    BY CollectOne
  <2> QED
    BY <2>1, HeldBasic
<1> HIDE DEF r
<1>21. Buried(r)
  <2> SUFFICES ASSUME NEW x \in Range(r.garbage_collection_list), ~r.fault
               PROVE  r.state[x] \in {"zombie", "freepid"}
    BY DEF Buried
  <2>1. x \in Range(g) /\ x \in Pid
    <3>1. x \in Range(g)
      BY <1>3, <1>20
    <3> QED
      BY <1>1, <3>1 DEF Range
  <2>2. ~m.fault => m.state[x] \in {"zombie", "freepid"}
    BY <1>1, <2>1 DEF Buried
  <2> QED
    BY <1>19, <2>1, <2>2, DeadStay
<1> QED
  BY <1>19, <1>21 DEF r

\* garbage_collect drifts.
LEMMA GarbageCollectDrift ==
  ASSUME NEW c, NEW g, NEW R \in SUBSET Pid, NEW m \in Held(c, g, R, {}),
         Range(g) \subseteq UserPid, Buried(m)
  PROVE  Drift(m, garbage_collect(m)) /\ Buried(garbage_collect(m))
<1> DEFINE G == {x \in Seq(Pid) : Range(x) \subseteq UserPid}
           S == {x \in Memory : /\ Drift(m, x) /\ Buried(x)
                                /\ \E y \in G : x \in Held(c, y, R, {})}
           n == Len(m.garbage_collection_list)
<1>1. m.garbage_collection_list = g /\ g \in Seq(Pid) /\ n \in Nat
  <2>1. m.garbage_collection_list = g /\ g \in Seq(Pid)
    BY HeldBasic
  <2> QED
    BY <2>1
<1>2. ASSUME NEW x \in S PROVE collect_one(x) \in S
  <2>1. PICK y \in G : x \in Held(c, y, R, {})
    OBVIOUS
  <2>2. x.garbage_collection_list = y
    BY <2>1, HeldBasic
  <2>3. CASE queue_empty(y)
    BY <2>2, <2>3 DEF collect_one, garbage_collection_needed
  <2>4. CASE ~queue_empty(y)
    <3>1. collect_one(x) \in Held(c, queue_out(y), R, {})
      BY <2>1, <2>4, CollectOne
    <3>2. Drift(x, collect_one(x)) /\ Buried(collect_one(x))
      BY <2>1, <2>4, CollectOneDrift
    <3>3. queue_out(y) \in G
      BY <2>4, QueueOut
    <3>4. collect_one(x) \in Memory
      BY <3>1, HeldDef
    <3>5. Drift(m, collect_one(x))
      BY <3>2, DriftTrans
    <3> HIDE DEF G
    <3> QED
      BY <3>1, <3>2, <3>3, <3>4, <3>5
  <2> QED
    BY <2>3, <2>4
<1>3. m \in S
  BY <1>1, DriftStay, HeldDef
<1> HIDE DEF S
<1>4. PICK it :
        /\ it[n] = garbage_collect(m)
        /\ \A i \in 0..n : it[i] \in S
  BY <1>1, <1>2, <1>3, CollectLoop
<1>5. garbage_collect(m) \in S
  BY <1>1, <1>4
<1> QED
  BY <1>5 DEF S

\* One turn of the first loop of scheduler wakes a sleeper whose alarm is past.
LEMMA WakeOneDrift ==
  ASSUME NEW c, NEW g, NEW R \in SUBSET Pid, NEW m \in Held(c, g, R, {}),
         ~m.fault
  PROVE  Drift(m, wake_one(m))
<1> DEFINE q == m.queue_table["asleep"]
           p == queue_bottom(q)
           at == [m.alarm_time EXCEPT ![p] = 0]
           a == [m EXCEPT !.alarm_time = at]
           b == unchain(a, p)
           r == place(b, p, "actionable", m.prio)
<1>1. "asleep" \in list_type /\ "actionable" \in list_type \ {"sem_blocked"}
  BY DEF list_type
<1>2. CASE queue_empty(q) \/ ~(m.alarm_time[p] < ToInt(m.clock_ticks))
  BY <1>2, DriftStay DEF wake_one
<1>3. CASE ~(queue_empty(q) \/ ~(m.alarm_time[p] < ToInt(m.clock_ticks)))
  <2>1. wake_one(m) = r /\ m.alarm_time[p] < ToInt(m.clock_ticks)
    BY <1>3 DEF wake_one
  <2>2. q \in Seq(Pid) /\ ~queue_empty(q)
    BY <1>1, <1>3, HeldQueues
  <2>3. p \in Pid /\ p \in Range(q)
    <3> HIDE DEF q
    <3> QED
      BY <2>2 DEF queue_bottom, queue_empty, Range
  <2>4. m.state[p] = "asleep"
    BY <1>1, <2>3, HeldDef DEF Proper, Placed
  <2> HIDE DEF p
  <2>5. m.alarm_time \in [Pid -> Int] /\ at \in [Pid -> Int]
    <3>1. m.alarm_time \in [Pid -> Int]
      BY HeldTable
    <3> QED
      BY <2>3, <3>1
  <2>6. \A x \in Pid : x # p => at[x] = m.alarm_time[x]
    BY <2>3, <2>5
  <2> HIDE DEF at
  <2>7. a \in Held(c, g, R, {})
    BY <2>5, SetAlarm
  <2>8. /\ a.fault = m.fault /\ a.state = m.state /\ a.queue_table = m.queue_table
        /\ a.alarm_time = at /\ a.sem_blocked = m.sem_blocked
    BY DEF Held, Memory
  <2>9. Rest(m, a)
    BY DEF Held, Memory, Rest
  <2> HIDE DEF a
  <2>10. Unchaining(a, b, p)
    BY <2>7, HeldDef, UnchainFields
  <2>11. b \in Held(c, g, R, {p}) /\ b.state = a.state
    BY <2>3, <2>7, Unchain
  <2> HIDE DEF b
  <2>12. b \in Memory
    BY <2>11, HeldDef
  <2>13. Placing(b, r, p, "actionable", m.prio)
    BY <2>12, PlaceFields
  <2>14. r.fault \/ SemQueue(r) = SemQueue(b)
    BY <1>1, <2>12, <2>13, SemQueueElse
  <2> HIDE DEF r
  <2>15. Drift(m, r)
    <3> SUFFICES ASSUME ~r.fault PROVE Drift(m, r)
      BY DEF Drift
    <3>1. /\ ~b.fault /\ Quiet(b, r) /\ SemQueue(r) = SemQueue(b)
          /\ r.state = [b.state EXCEPT ![p] = "actionable"]
      BY <2>13, <2>14 DEF Placing
    <3>2. Rest(a, b) /\ SemQueue(b) = SemQueue(a)
      <4>1. a.state[p] # "sem_blocked"
        BY <2>4, <2>8
      <4>2. SemQueue(b) = SemQueue(a)
        BY <2>3, <2>7, <2>10, <3>1, <4>1, SemQueueApart
      <4> QED
        BY <2>10, <3>1, <4>2 DEF Unchaining, Quiet
    <3>3. Rest(m, r) /\ SemQueue(r) = SemQueue(m)
      BY <2>8, <2>9, <3>1, <3>2 DEF Rest, Quiet, SemQueue
    <3>4. m.state \in [Pid -> list_type]
      BY HeldQueues
    <3>5. ASSUME NEW x \in Pid PROVE Drifts(m, r, x)
      <4>1. b.sem_blocked = a.sem_blocked /\ b.alarm_time = a.alarm_time
        BY <2>10, <3>1 DEF Unchaining, Quiet
      <4>2. CASE x = p
        BY <2>1, <2>4, <2>8, <2>11, <3>1, <3>4, <4>1, <4>2 DEF Drifts, Quiet
      <4>3. CASE x # p
        BY <2>6, <2>8, <2>11, <3>1, <3>4, <4>1, <4>3 DEF Drifts, Quiet
      <4> QED
        BY <4>2, <4>3
    <3> QED
      BY <3>3, <3>5 DEF Drift
  <2> QED
    BY <2>1, <2>15
<1> QED
  BY <1>2, <1>3

\* The first loop of scheduler drifts.
LEMMA WakeSleepersDrift ==
  ASSUME NEW c, NEW g, NEW R \in SUBSET Pid, NEW m \in Held(c, g, R, {})
  PROVE  Drift(m, wake_sleepers(m))
<1> DEFINE S == {x \in Held(c, g, R, {}) : Drift(m, x)}
<1>1. ASSUME NEW x \in S PROVE x.fault \/ wake_one(x) \in S
  <2>1. wake_one(x) \in Held(c, g, R, {})
    BY WakeOne
  <2>2. x.fault \/ Drift(x, wake_one(x))
    BY WakeOneDrift
  <2> QED
    BY <2>1, <2>2, DriftTrans
<1>2. Len(m.queue_table["asleep"]) \in Nat
  BY QueueLen DEF list_type
<1>3. m \in S
  BY DriftStay
<1> HIDE DEF S
<1>4. wake_sleepers(m) \in S
  BY <1>1, <1>2, <1>3, WakeLoop
<1> QED
  BY <1>4 DEF S

\* The process that was running is put back where it was.
LEMMA RequeueCurrentDrift ==
  ASSUME NEW m \in Memory
  PROVE  Drift(m, requeue_current(m))
<1>1. CASE ~(m.cur_pid # PID_GARBAGE /\ m.state[m.cur_pid] = "actionable")
  BY <1>1, DriftStay DEF requeue_current
<1>2. CASE m.cur_pid # PID_GARBAGE /\ m.state[m.cur_pid] = "actionable"
  <2>1. requeue_current(m) = place(m, m.cur_pid, "actionable", m.prio)
    BY <1>2 DEF requeue_current
  <2>2. m.cur_pid \in Pid
    BY <1>2, SizeAssumption DEF Memory, Pid, PID_GARBAGE
  <2>3. "actionable" \in list_type \ {"sem_blocked"}
    BY DEF list_type
  <2> QED
    BY <1>2, <2>1, <2>2, <2>3, PlaceDrift
<1> QED
  BY <1>1, <1>2

\* The choice of the next process changes no state.
LEMMA SwitchDrift ==
  ASSUME NEW m \in Memory
  PROVE  Drift(m, switch(m))
<1> DEFINE q == m.queue_table["actionable"]
           a == [m EXCEPT !.cur_pid = PID_GARBAGE]
           b == [m EXCEPT !.cur_pid = queue_top(q),
                          !.queue_table["actionable"] = queue_out(q)]
<1>1. switch(m) \in {a, b, panic(m)}
  BY DEF switch
<1>2. /\ a.fault = m.fault /\ a.state = m.state /\ SemQueue(a) = SemQueue(m)
      /\ Quiet(m, a)
  BY DEF Memory, SemQueue, Quiet, Rest
<1>3. b.fault = m.fault /\ b.state = m.state /\ Quiet(m, b)
  BY DEF Memory, Quiet, Rest
<1>4. SemQueue(b) = SemQueue(m)
  <2>1. m.queue_table \in [list_type -> Seq(Pid)] /\ "sem_blocked" \in list_type
    BY DEF Memory, list_type
  <2>2. b.queue_table = [m.queue_table EXCEPT !["actionable"] = queue_out(q)]
    BY DEF Memory
  <2> HIDE DEF b
  <2> QED
    BY <2>1, <2>2 DEF SemQueue
<1> HIDE DEF a, b
<1>5. Drift(m, a) /\ Drift(m, b)
  BY <1>2, <1>3, <1>4, QuietDrift
<1> QED
  BY <1>1, <1>5, DriftPanic

\* scheduler wakes the sleepers whose alarm is past and changes no other state.
LEMMA SchedulerDrift ==
  ASSUME NEW c, NEW g, NEW R \in SUBSET ({c} \cap Pid), NEW m \in Held(c, g, R, {})
  PROVE  Drift(m, scheduler(m))
<1>1. CASE m.fault
  BY <1>1, DriftStay DEF scheduler
<1>2. CASE ~m.fault
  <2> DEFINE a == wake_sleepers(m)
             b == requeue_current(a)
  <2>1. scheduler(m) = switch(b)
    BY <1>2 DEF scheduler
  <2>2. R \in SUBSET Pid
    OBVIOUS
  <2>3. a \in Held(c, g, R, {}) /\ Drift(m, a)
    BY <2>2, WakeSleepers, WakeSleepersDrift
  <2> HIDE DEF a
  <2>4. b \in Held(c, g, {}, {})
    BY <2>3, RequeueCurrent
  <2>5. Drift(a, b)
    BY <2>3, HeldDef, RequeueCurrentDrift
  <2> HIDE DEF b
  <2>6. Drift(b, switch(b))
    BY <2>4, HeldDef, SwitchDrift
  <2>7. Drift(m, b)
    BY <2>3, <2>5, DriftTrans
  <2> QED
    BY <2>1, <2>6, <2>7, DriftTrans
<1> QED
  BY <1>1, <1>2

-----------------------------------------------------------------------------
(***************************************************************************)
(* The invariant, and what a call may do to the sleepers and to the        *)
(* processes blocked on a semaphore.                                       *)
(***************************************************************************)

Waits(m, s) == {p \in Pid : m.sem_blocked[p] = s}

\* The field sem_blocked says which processes are blocked, except the one in X,
\* which kill has begun to take out.
Marks(m, X) ==
  \A p \in Pid :
    m.sem_blocked[p] # -1 <=> (m.state[p] = "sem_blocked" /\ p \notin X)

Enough(m, s) ==
  Waits(m, s) # {} =>
    s \in m.sem_used /\ Cardinality(Waits(m, s)) <= -m.value[s]

Sound(m) ==
  /\ Marks(m, {}) /\ SortedBy(SemQueue(m), m.prio)
  /\ \A s \in Sem : Enough(m, s)

\* A sleeper goes on sleeping, or dies, or its alarm is past.
NotEarly(m, r) ==
  \A p \in Pid :
    m.state[p] = "asleep" =>
      \/ r.state[p] = "asleep" /\ r.alarm_time[p] = m.alarm_time[p]
      \/ r.state[p] \in {"zombie", "freepid"}
      \/ m.alarm_time[p] < ToInt(r.clock_ticks)

\* A process that leaves a semaphore alive was above those it leaves behind.
InOrder(m, r) ==
  \A p, q \in Pid :
    (/\ m.sem_blocked[p] # -1 /\ m.sem_blocked[q] = m.sem_blocked[p]
     /\ r.state[p] \notin {"sem_blocked", "zombie", "freepid"}
     /\ r.state[q] = "sem_blocked") => Above(SemQueue(m), p, q)

Fine(m, r) ==
  r.fault \/ (Sound(r) /\ Buried(r) /\ NotEarly(m, r) /\ InOrder(m, r))

\* Finitely many processes wait.
LEMMA WaitsFinite ==
  ASSUME NEW m, NEW s
  PROVE  IsFiniteSet(Waits(m, s)) /\ Cardinality(Waits(m, s)) \in Nat
<1>1. IsFiniteSet(Pid) /\ Waits(m, s) \in SUBSET Pid
  BY SizeAssumption, FS_Interval DEF Pid, Waits
<1>2. IsFiniteSet(Waits(m, s))
  BY <1>1, FS_Subset
<1> QED
  BY <1>2, FS_CardinalityType

\* Fewer processes that wait are still few enough.
LEMMA EnoughFewer ==
  ASSUME NEW m, NEW r, NEW s, Enough(m, s), Waits(r, s) \subseteq Waits(m, s),
         s \in r.sem_used <=> s \in m.sem_used, r.value[s] = m.value[s],
         m.value[s] \in Int
  PROVE  Enough(r, s)
<1>1. /\ Cardinality(Waits(m, s)) \in Nat /\ Cardinality(Waits(r, s)) \in Nat
      /\ Cardinality(Waits(r, s)) <= Cardinality(Waits(m, s))
  <2> HIDE DEF Waits
  <2> QED
    BY WaitsFinite, FS_Subset
<1> QED
  BY <1>1 DEF Enough

\* Semaphores are not numbered -1.
LEMMA SemNotNone == -1 \notin Sem
BY SizeAssumption DEF Sem

\* Drifting keeps the invariant.
LEMMA DriftSound ==
  ASSUME NEW m \in Memory, NEW r, Sound(m), Drift(m, r), ~r.fault
  PROVE  Sound(r)
<1>1. Rest(m, r) /\ SemQueue(r) = SemQueue(m) /\ \A p \in Pid : Drifts(m, r, p)
  BY DEF Drift
<1>2. Marks(r, {})
  BY <1>1 DEF Drifts, Marks, Sound
<1>3. SortedBy(SemQueue(r), r.prio)
  BY <1>1 DEF Sound, Rest
<1>4. ASSUME NEW s \in Sem PROVE Enough(r, s)
  <2>1. Waits(r, s) \subseteq Waits(m, s)
    BY <1>1, SemNotNone DEF Drifts, Waits
  <2>2. /\ Enough(m, s) /\ r.sem_used = m.sem_used /\ r.value = m.value
        /\ m.value[s] \in Int
    BY <1>1, SizeAssumption DEF Sound, Rest, Memory, SHRT_MIN
  <2> QED
    BY <2>1, <2>2, EnoughFewer
<1> QED
  BY <1>2, <1>3, <1>4 DEF Sound

\* What a call has done so far stays fine when the kernel drifts on.
LEMMA DriftFine ==
  ASSUME NEW m, NEW a \in Memory, NEW r, Fine(m, a), Drift(a, r), Buried(r)
  PROVE  Fine(m, r)
<1> SUFFICES ASSUME ~r.fault PROVE Fine(m, r)
  BY DEF Fine
<1>1. /\ ~a.fault /\ r.clock_ticks = a.clock_ticks
      /\ \A p \in Pid : Drifts(a, r, p)
  BY DEF Drift, Rest
<1>2. Sound(a) /\ NotEarly(m, a) /\ InOrder(m, a)
  BY <1>1 DEF Fine
<1>3. Sound(r)
  BY <1>2, DriftSound
<1>4. NotEarly(m, r)
  <2> SUFFICES ASSUME NEW p \in Pid, m.state[p] = "asleep",
                      ~(m.alarm_time[p] < ToInt(r.clock_ticks))
               PROVE  \/ r.state[p] = "asleep" /\ r.alarm_time[p] = m.alarm_time[p]
                      \/ r.state[p] \in {"zombie", "freepid"}
    BY DEF NotEarly
  <2>1. \/ a.state[p] = "asleep" /\ a.alarm_time[p] = m.alarm_time[p]
        \/ a.state[p] \in {"zombie", "freepid"}
    BY <1>1, <1>2 DEF NotEarly
  <2>2. Drifts(a, r, p)
    BY <1>1
  <2> QED
    BY <1>1, <2>1, <2>2 DEF Drifts
<1>5. InOrder(m, r)
  <2> SUFFICES ASSUME NEW p \in Pid, NEW q \in Pid,
                      m.sem_blocked[p] # -1, m.sem_blocked[q] = m.sem_blocked[p],
                      r.state[p] \notin {"sem_blocked", "zombie", "freepid"},
                      r.state[q] = "sem_blocked"
               PROVE  Above(SemQueue(m), p, q)
    BY DEF InOrder
  <2>1. Drifts(a, r, p) /\ Drifts(a, r, q)
    BY <1>1
  <2>2. /\ a.state[p] \notin {"sem_blocked", "zombie", "freepid"}
        /\ a.state[q] = "sem_blocked"
    BY <2>1 DEF Drifts
  <2> QED
    BY <1>2, <2>2 DEF InOrder
<1> QED
  BY <1>3, <1>4, <1>5 DEF Fine

\* scheduler does not touch the list of the garbage collector.
LEMMA SchedulerGarbage ==
  ASSUME NEW c, NEW g, NEW R \in SUBSET ({c} \cap Pid), NEW m \in Held(c, g, R, {})
  PROVE  scheduler(m).garbage_collection_list = g
<1>1. CASE m.fault
  BY <1>1, HeldBasic DEF scheduler
<1>2. CASE ~m.fault
  <2> DEFINE a == wake_sleepers(m)
             b == requeue_current(a)
  <2>1. scheduler(m) = switch(b)
    BY <1>2 DEF scheduler
  <2>2. R \in SUBSET Pid
    OBVIOUS
  <2>3. a \in Held(c, g, R, {})
    BY <2>2, WakeSleepers
  <2> HIDE DEF a
  <2>4. b \in Held(c, g, {}, {})
    BY <2>3, RequeueCurrent
  <2> HIDE DEF b
  <2>5. b \in Memory /\ b.garbage_collection_list = g
    BY <2>4, HeldDef
  <2> QED
    BY <2>1, <2>5 DEF switch, panic, Memory
<1> QED
  BY <1>1, <1>2

\* A call may end with scheduler().
LEMMA SchedulerFine ==
  ASSUME NEW c, NEW g, NEW R \in SUBSET ({c} \cap Pid), NEW a \in Held(c, g, R, {}),
         NEW m, Fine(m, a)
  PROVE  Fine(m, scheduler(a))
<1> DEFINE r == scheduler(a)
<1>1. Drift(a, r) /\ r.garbage_collection_list = g
  BY SchedulerDrift, SchedulerGarbage
<1>2. a \in Memory /\ a.garbage_collection_list = g /\ g \in Seq(Pid)
  BY HeldDef, HeldBasic
<1> HIDE DEF r
<1>3. Buried(r)
  <2> SUFFICES ASSUME NEW x \in Range(g), ~r.fault
               PROVE  r.state[x] \in {"zombie", "freepid"}
    BY <1>1 DEF Buried
  <2>1. x \in Pid
    BY <1>2 DEF Range
  <2>2. ~a.fault => a.state[x] \in {"zombie", "freepid"}
    BY <1>2 DEF Fine, Buried
  <2> QED
    BY <1>1, <2>1, <2>2, DeadStay
<1>4. Fine(m, r)
  BY <1>1, <1>2, <1>3, DriftFine
<1> QED
  BY <1>4 DEF r

\* What a call does to processes that are not blocked on a semaphore.
Apart(m, a) ==
  /\ SemQueue(a) = SemQueue(m) /\ a.sem_blocked = m.sem_blocked
  /\ \A p \in Pid :
       /\ m.state[p] = "sem_blocked" <=> a.state[p] = "sem_blocked"
       /\ m.state[p] = "sem_blocked" => a.prio[p] = m.prio[p]
       /\ m.state[p] = "asleep" =>
            \/ a.state[p] = "asleep" /\ a.alarm_time[p] = m.alarm_time[p]
            \/ a.state[p] \in {"zombie", "freepid"}

\* The sem_blocked queue holds processes in that state.
LEMMA SemQueueState ==
  ASSUME NEW c, NEW g, NEW R, NEW X, NEW m \in Held(c, g, R, X), ~m.fault
  PROVE  /\ SemQueue(m) \in Seq(Pid) /\ IsInjective(SemQueue(m))
         /\ \A p \in Range(SemQueue(m)) : p \in Pid /\ m.state[p] = "sem_blocked"
         /\ \A p \in Pid \ (R \cup X) :
              m.state[p] = "sem_blocked" => p \in Range(SemQueue(m))
<1>1. "sem_blocked" \in list_type /\ "sem_blocked" # "freepid"
  BY DEF list_type
<1>2. SemQueue(m) \in Seq(Pid)
  BY <1>1, HeldQueues DEF SemQueue
<1>3. Placed(m, R \cup X)
  BY HeldDef DEF Proper
<1>4. \A p \in Range(SemQueue(m)) : p \in Pid
  BY <1>2 DEF Range
<1> QED
  BY <1>1, <1>2, <1>3, <1>4 DEF Placed, SemQueue

\* Such a call is fine, if it lets the semaphores have enough credit.
LEMMA ApartFine ==
  ASSUME NEW c, NEW g, NEW R, NEW X, NEW m \in Held(c, g, R, X), ~m.fault,
         Sound(m), NEW a, Apart(m, a), Buried(a), \A s \in Sem : Enough(a, s)
  PROVE  Fine(m, a)
<1>1. Marks(a, {}) /\ Marks(m, {})
  BY DEF Apart, Marks, Sound
<1>2. SortedBy(SemQueue(a), a.prio)
  <2> DEFINE q == SemQueue(m)
  <2>1. q \in Seq(Pid) /\ \A p \in Range(q) : p \in Pid /\ m.state[p] = "sem_blocked"
    BY SemQueueState
  <2>2. SemQueue(a) = q /\ SortedBy(q, m.prio)
    BY Zenon DEF Apart, Sound
  <2> HIDE DEF q
  <2>3. \A i \in DOMAIN q : a.prio[q[i]] = m.prio[q[i]]
    BY <2>1 DEF Apart, Range
  <2> QED
    BY Zenon, <2>2, <2>3 DEF SortedBy
<1>3. NotEarly(m, a)
  BY DEF NotEarly, Apart
<1>4. InOrder(m, a)
  BY Zenon, <1>1 DEF InOrder, Apart, Marks
<1> QED
  BY <1>1, <1>2, <1>3, <1>4 DEF Fine, Sound

\* A call that only changes counters: the counter of id goes down, or nobody
\* waits for it.
LEMMA CounterFine ==
  ASSUME NEW c \in Pid, NEW m \in Entered(c), ~m.fault, Sound(m),
         NEW a, a.state = m.state, a.alarm_time = m.alarm_time,
         a.prio = m.prio, a.sem_blocked = m.sem_blocked,
         SemQueue(a) = SemQueue(m), a.garbage_collection_list = <<>>,
         NEW id \in Sem, NEW x \in Int, a.value = [m.value EXCEPT ![id] = x],
         \A s \in Sem : s # id => (s \in a.sem_used <=> s \in m.sem_used),
         \/ Waits(m, id) = {}
         \/ (id \in a.sem_used <=> id \in m.sem_used) /\ x <= m.value[id]
  PROVE  Fine(m, a)
<1>1. Apart(m, a)
  BY DEF Apart
<1>2. Buried(a)
  BY DEF Buried, Range
<1>3. m.value \in [Sem -> Int]
  BY SizeAssumption DEF Entered, Held, Memory, SHRT_MIN
<1>4. ASSUME NEW s \in Sem PROVE Enough(a, s)
  <2>1. Waits(a, s) = Waits(m, s) /\ Enough(m, s)
    BY DEF Waits, Sound
  <2>2. CASE s # id
    <3>1. a.value[s] = m.value[s] /\ m.value[s] \in Int
      BY <1>3, <2>2
    <3> QED
      BY Zenon, <2>1, <2>2, <3>1, EnoughFewer
  <2>3. CASE s = id
    <3>1. a.value[s] = x /\ m.value[s] \in Int
      BY <1>3, <2>3
    <3>2. Cardinality(Waits(m, s)) \in Nat
      BY WaitsFinite
    <3> QED
      BY <2>1, <2>3, <3>1, <3>2 DEF Enough
  <2> QED
    BY <2>2, <2>3
<1> QED
  BY <1>1, <1>2, <1>4, ApartFine DEF Entered

\* A call that changes no counter.
LEMMA NoCounterFine ==
  ASSUME NEW c \in Pid, NEW m \in Entered(c), ~m.fault, Sound(m),
         NEW a, Apart(m, a), a.value = m.value, a.sem_used = m.sem_used,
         a.garbage_collection_list = <<>>
  PROVE  Fine(m, a)
<1>1. Buried(a)
  BY DEF Buried, Range
<1>2. m.value \in [Sem -> Int]
  <2>1. m.value \in [Sem -> SHRT_MIN..SHRT_MAX]
    BY HeldSems DEF Entered
  <2>2. SHRT_MIN..SHRT_MAX \subseteq Int
    BY SizeAssumption DEF SHRT_MIN
  <2> QED
    BY <2>1, <2>2
<1>3. ASSUME NEW s \in Sem PROVE Enough(a, s)
  <2>1. Waits(a, s) = Waits(m, s) /\ Enough(m, s)
    BY Zenon DEF Waits, Sound, Apart
  <2> QED
    BY <1>2, <2>1, EnoughFewer
<1> QED
  BY <1>1, <1>3, ApartFine DEF Entered

\* A call that does nothing is fine.
LEMMA StayFine ==
  ASSUME NEW c \in Pid, NEW m \in Entered(c), ~m.fault, Sound(m)
  PROVE  Fine(m, m)
<1>1. m.garbage_collection_list = <<>>
  BY HeldBasic DEF Entered
<1>2. Apart(m, m)
  BY DEF Apart
<1> QED
  BY <1>1, <1>2, NoCounterFine

=============================================================================
