----------------------------- MODULE CallProofs -----------------------------
(***************************************************************************)
(* What a funeral does to the bystanders, and the calls that wake nobody   *)
(* who is blocked on a semaphore: clock, start, wait_clock, waitpid,       *)
(* chprio, the garbage collector, and the boot.                            *)
(***************************************************************************)
EXTENDS KernelProofs

-----------------------------------------------------------------------------
(***************************************************************************)
(* A funeral, and calls that change nothing the invariant looks at.        *)
(***************************************************************************)

\* report_father wakes at most the father, out of waitpid.
LEMMA ReportFatherDrift ==
  ASSUME NEW c, NEW g, NEW R \in SUBSET Pid, NEW m \in Held(c, g, R, {}),
         NEW p \in Pid
  PROVE  Drift(m, report_father(m, p))
<1> DEFINE f == m.father[p]
           a == [m EXCEPT !.child_waited[f] = p]
           b == unchain_from(a, f, "waiting_child")
           r == place(b, f, "actionable", pid_key)
<1>1. f \in Pid
  <2>1. m.father \in [Pid -> Pid]
    BY HeldTable
  <2> QED
    BY <2>1
<1>2. CASE m.child_waited[f] \notin {p, -1}
  BY <1>2, DriftStay DEF report_father
<1>3. CASE m.child_waited[f] \in {p, -1}
  <2>1. report_father(m, p) = r
    BY <1>3 DEF report_father
  <2> HIDE DEF f
  <2>2. /\ a \in Memory /\ a.cur_pid = m.cur_pid /\ a.fault = m.fault
        /\ a.garbage_collection_list = m.garbage_collection_list
        /\ a.queue_table = m.queue_table /\ a.state = m.state
    BY Zenon, <1>1 DEF Held, Memory
  <2>3. Quiet(m, a)
    BY DEF Held, Memory, Quiet, Rest
  <2> HIDE DEF a
  <2>4. a \in Held(c, g, R, {})
    BY <2>2, Unmoved
  <2>5. Drift(m, a)
    BY <2>2, <2>3, QuietDrift DEF SemQueue
  <2>6. /\ "waiting_child" \in list_type \ {"sem_blocked"}
        /\ "actionable" \in list_type \ {"sem_blocked"}
    BY DEF list_type
  <2>7. Drift(a, b)
    BY <1>1, <2>4, <2>6, UnchainFromDrift
  <2>8. /\ b \in Held(c, g, R, {f})
        /\ ~b.fault => ~a.fault /\ a.state[f] = "waiting_child"
        /\ b.state = a.state
    <3>1. "waiting_child" \in list_type
      BY <2>6
    <3>2. /\ b \in Held(c, g, R, {f})
          /\ ~b.fault => ~a.fault /\ a.state[f] = "waiting_child"
      BY <1>1, <2>4, <3>1, UnchainFrom
    <3>3. b.state = a.state
      BY <2>2, UnchainFromState
    <3> QED
      BY <3>2, <3>3
  <2> HIDE DEF b
  <2>9. Drift(b, r)
    <3>1. b \in Memory
      BY <2>8, HeldDef
    <3> QED
      BY <1>1, <2>6, <2>8, <3>1, PlaceDrift
  <2> HIDE DEF r
  <2>10. Drift(a, r)
    BY <2>7, <2>9, DriftTrans
  <2> QED
    BY <2>1, <2>5, <2>10, DriftTrans
<1> QED
  BY <1>2, <1>3

\* One turn of check_zombies_children frees a dead child.
LEMMA FreeZombieChildDrift ==
  ASSUME NEW c, NEW g, NEW R \in SUBSET Pid, NEW m \in Held(c, g, R, {}),
         NEW f
  PROVE  Drift(m, free_zombie_child(m, f))
<1> DEFINE w == children_met(m, f)
           I == {i \in 1..Len(w.met) : m.state[w.met[i]] = "zombie"}
           i == IF I # {} THEN Min(I) ELSE 0
           p == w.met[i]
           a == del_child(m, p)
           b == unchain_from(a, p, "zombie")
<1>1. free_zombie_child(m, f) =
        IF i # 0 THEN free_pid(b, p) ELSE IF w.closed THEN m ELSE panic(m)
  BY Zenon DEF free_zombie_child, FirstWhere
<1>0. m \in Memory
  BY HeldDef
<1>2. CASE i = 0
  <2>1. free_zombie_child(m, f) = IF w.closed THEN m ELSE panic(m)
    BY Zenon, <1>1, <1>2
  <2> HIDE DEF w
  <2> QED
    BY <1>0, <2>1, DriftPanic, DriftStay
<1>3. CASE i # 0
  <2>1. w.met \in Seq(Pid)
    BY WalkMet DEF children_met
  <2>2. I \in SUBSET Nat
    OBVIOUS
  <2>3. I # {} => Min(I) \in I
    <3> HIDE DEF I
    <3> QED
      BY <2>2, MinNat
  <2>4. i \in 1..Len(w.met)
    BY <1>3, <2>3
  <2> HIDE DEF i, w
  <2>5. p \in Pid
    BY <2>1, <2>4
  <2> HIDE DEF p
  <2>6. Drift(m, a)
    BY <1>0, DelChildDrift
  <2>7. a \in Held(c, g, R, {})
    BY <2>5, DelChild
  <2> HIDE DEF a
  <2>8. "zombie" \in list_type /\ "zombie" \in list_type \ {"sem_blocked"}
    BY DEF list_type
  <2>9. Drift(a, b)
    BY <2>5, <2>7, <2>8, UnchainFromDrift
  <2>10. /\ b \in Held(c, g, R, {p})
         /\ ~b.fault => ~a.fault /\ a.state[p] = "zombie"
         /\ b.state = a.state
    <3>1. a \in Held(c, g, R, {}) /\ "zombie" \in list_type
      BY <2>7, <2>8
    <3>2. /\ b \in Held(c, g, R, {p})
          /\ ~b.fault => ~a.fault /\ a.state[p] = "zombie"
      BY <2>5, <3>1, UnchainFrom
    <3>3. b.state = a.state
      BY <2>7, HeldDef, UnchainFromState
    <3> QED
      BY <3>2, <3>3
  <2> HIDE DEF b
  <2>11. Drift(b, free_pid(b, p))
    <3>1. b \in Memory
      BY <2>10, HeldDef
    <3> QED
      BY <2>5, <2>10, <3>1, FreePidDrift
  <2>12. Drift(a, free_pid(b, p))
    BY <2>9, <2>11, DriftTrans
  <2> QED
    BY <1>1, <1>3, <2>6, <2>12, DriftTrans
<1> QED
  BY <1>2, <1>3

\* check_zombies_children drifts.
LEMMA CheckZombiesChildrenDrift ==
  ASSUME NEW c, NEW g, NEW R \in SUBSET Pid, NEW f \in Pid,
         NEW m \in Held(c, g, R, {})
  PROVE  Drift(m, check_zombies_children(m, f))
<1> DEFINE S == {x \in Held(c, g, R, {}) : Drift(m, x)}
<1>1. ASSUME NEW x \in S PROVE free_zombie_child(x, f) \in S
  <2>1. free_zombie_child(x, f) \in Held(c, g, R, {})
    BY FreeZombieChild
  <2>2. Drift(m, x) /\ Drift(x, free_zombie_child(x, f))
    BY FreeZombieChildDrift
  <2> QED
    BY <2>1, <2>2, DriftTrans
<1>2. Len(m.queue_table["zombie"]) \in Nat
  BY QueueLen DEF list_type
<1>3. m \in S
  BY DriftStay
<1> HIDE DEF S
<1>4. check_zombies_children(m, f) \in S
  BY <1>1, <1>2, <1>3, ZombieLoop
<1> QED
  BY <1>4 DEF S

\* funeral drifts: it changes fathers only.
LEMMA FuneralDrift ==
  ASSUME NEW m \in Memory, NEW f
  PROVE  Drift(m, funeral(m, f))
<1> DEFINE w == children_met(m, f)
           fa == [p \in Pid |-> IF p \in Range(w.met) THEN 0 ELSE m.father[p]]
           r == [m EXCEPT !.father = fa]
<1>1. CASE m.fault \/ ~w.closed
  BY <1>1, DriftPanic, DriftStay DEF funeral
<1>2. CASE ~m.fault /\ w.closed
  <2>1. funeral(m, f) = r
    BY <1>2 DEF funeral
  <2> HIDE DEF fa
  <2>2. /\ r.fault = m.fault /\ r.state = m.state
        /\ SemQueue(r) = SemQueue(m)
    BY DEF Memory, SemQueue
  <2>3. Quiet(m, r)
    BY DEF Memory, Quiet, Rest
  <2> HIDE DEF r
  <2> QED
    BY <2>1, <2>2, <2>3, QuietDrift
<1> QED
  BY <1>1, <1>2

\* add_garbage_collection drifts.
LEMMA AddGarbageCollectionDrift ==
  ASSUME NEW m \in Memory, NEW p
  PROVE  Drift(m, add_garbage_collection(m, p))
<1> DEFINE g2 == queue_add(p, m.garbage_collection_list, pid_key)
           r == [m EXCEPT !.garbage_collection_list = g2]
<1>1. add_garbage_collection(m, p) \in {panic(m), r}
  BY DEF add_garbage_collection
<1> HIDE DEF g2
<1>2. /\ r.fault = m.fault /\ r.state = m.state
      /\ SemQueue(r) = SemQueue(m)
  BY DEF Memory, SemQueue
<1>3. Quiet(m, r)
  BY DEF Memory, Quiet, Rest
<1> HIDE DEF r
<1>4. Drift(m, r)
  BY <1>2, <1>3, QuietDrift
<1> QED
  BY <1>1, <1>4, DriftPanic

\* Two memories that agree on all the invariant and the two relations look at.
Same(a, r) ==
  /\ r.fault = a.fault /\ r.state = a.state /\ r.prio = a.prio
  /\ r.alarm_time = a.alarm_time /\ r.clock_ticks = a.clock_ticks
  /\ r.sem_blocked = a.sem_blocked /\ SemQueue(r) = SemQueue(a)
  /\ r.sem_used = a.sem_used /\ r.value = a.value
  /\ r.garbage_collection_list = a.garbage_collection_list

\* They are fine together.
LEMMA SameFine ==
  ASSUME NEW m, NEW a, NEW r, Same(a, r), Fine(m, a)
  PROVE  Fine(m, r)
<1> SUFFICES ASSUME ~r.fault PROVE Fine(m, r)
  BY DEF Fine
<1>1. /\ ~a.fault /\ Sound(a) /\ Buried(a) /\ NotEarly(m, a) /\ InOrder(m, a)
      /\ r.clock_ticks = a.clock_ticks /\ r.sem_used = a.sem_used
      /\ r.value = a.value /\ r.prio = a.prio /\ r.state = a.state
      /\ r.sem_blocked = a.sem_blocked /\ r.alarm_time = a.alarm_time
      /\ SemQueue(r) = SemQueue(a)
      /\ r.garbage_collection_list = a.garbage_collection_list
  BY DEF Fine, Same
<1>2. Sound(r)
  BY Zenon, <1>1 DEF Sound, Marks, Enough, Waits
<1>3. Buried(r)
  BY <1>1 DEF Buried
<1>4. NotEarly(m, r)
  BY <1>1 DEF NotEarly
<1>5. InOrder(m, r)
  BY <1>1 DEF InOrder
<1> QED
  BY <1>2, <1>3, <1>4, <1>5 DEF Fine

-----------------------------------------------------------------------------
(***************************************************************************)
(* The clock interrupt, start, wait_clock and waitpid.                     *)
(***************************************************************************)

\* it32_clock_body is fine: the clock only goes on.
LEMMA ClockFine ==
  ASSUME NEW c \in Pid, NEW m \in Entered(c), ~m.fault, Sound(m)
  PROVE  Fine(m, it32_clock_body(m))
<1> DEFINE ct == (m.clock_ticks + 1) % CLOCK_MOD
           st == (m.sched_ticks + 1) % SCHED_TICKS
           a == [m EXCEPT !.clock_ticks = ct, !.sched_ticks = st]
<1>1. it32_clock_body(m) \in {a, scheduler(a)}
  BY DEF it32_clock_body, Entered, Held, Memory
<1>2. ct \in 0..(CLOCK_MOD - 1) /\ st \in 0..(SCHED_TICKS - 1)
  <2>1. /\ m.clock_ticks \in 0..(CLOCK_MOD - 1)
        /\ m.sched_ticks \in 0..(SCHED_TICKS - 1)
    BY DEF Entered, Held, Memory
  <2> QED
    BY <2>1, SizeAssumption
<1> HIDE DEF ct, st
<1>3. /\ a \in Memory /\ a.cur_pid = m.cur_pid /\ a.fault = m.fault
      /\ a.garbage_collection_list = m.garbage_collection_list
      /\ a.queue_table = m.queue_table /\ a.state = m.state
  BY Zenon, <1>2 DEF Entered, Held, Memory
<1>4. /\ a.sem_blocked = m.sem_blocked /\ a.prio = m.prio
      /\ a.alarm_time = m.alarm_time /\ a.value = m.value
      /\ a.sem_used = m.sem_used
  BY DEF Entered, Held, Memory
<1> HIDE DEF a
<1>5. a \in Entered(c) /\ m.garbage_collection_list = <<>>
  BY <1>3, Unmoved, HeldBasic DEF Entered
<1>6. Apart(m, a)
  BY <1>3, <1>4 DEF Apart, SemQueue
<1>7. Fine(m, a)
  BY <1>3, <1>4, <1>5, <1>6, NoCounterFine
<1>8. Fine(m, scheduler(a))
  BY <1>5, <1>7, SchedulerFine DEF Entered
<1> QED
  BY <1>1, <1>7, <1>8

\* The fields add_child changes.
LEMMA AddChildFields ==
  ASSUME NEW m \in Memory, NEW p, NEW f
  PROVE  Relinking(m, add_child(m, p, f))
<1> DEFINE ok == link_add_ok(m.links, p, children(f), Pid, m.prio)
           l == link_add(m.links, p, children(f), Pid, m.prio)
           r == [m EXCEPT !.links = l]
<1>1. add_child(m, p, f) \in {panic(m), r}
  BY DEF add_child
<1> HIDE DEF l
<1>2. /\ r.fault = m.fault /\ m.fault \in BOOLEAN
      /\ r.state = m.state /\ r.queue_table = m.queue_table
  BY DEF Memory
<1>3. Quiet(m, r)
  BY DEF Memory, Quiet, Rest
<1> HIDE DEF r
<1>4. Relinking(m, r)
  BY <1>2, <1>3 DEF Relinking
<1>5. Relinking(m, panic(m))
  BY DEF Relinking, panic, Memory
<1> QED
  BY <1>1, <1>4, <1>5

\* The fields init_process changes, as far as they matter here.
LEMMA InitProcessFields ==
  ASSUME NEW m \in Memory, NEW p \in Pid, NEW prio
  PROVE  LET r == init_process(m, p, prio)
         IN  /\ r.fault = m.fault /\ r.state = m.state
             /\ r.queue_table = m.queue_table /\ r.sem_blocked = m.sem_blocked
             /\ r.value = m.value /\ r.sem_used = m.sem_used
             /\ \A x \in Pid : x # p => /\ r.prio[x] = m.prio[x]
                                        /\ r.alarm_time[x] = m.alarm_time[x]
<1> DEFINE h == init_head(init_link(m.links, p), children(p))
           st == [m.stacks EXCEPT ![p] = "allocated"]
           co == [m.cont EXCEPT ![p] = "user"]
           at == [m.alarm_time EXCEPT ![p] = 0]
           pr == [m.prio EXCEPT ![p] = prio]
           rv == [m.retvalue EXCEPT ![p] = 0]
           cw == [m.child_waited EXCEPT ![p] = 0]
           fa == [m.father EXCEPT ![p] = m.cur_pid]
           r == [m EXCEPT !.stacks = st, !.cont = co, !.alarm_time = at,
                          !.prio = pr, !.retvalue = rv, !.child_waited = cw,
                          !.father = fa, !.links = h]
<1>1. init_process(m, p, prio) = r
  BY DEF init_process, Memory
<1>2. \A x \in Pid : x # p => pr[x] = m.prio[x] /\ at[x] = m.alarm_time[x]
  BY DEF Memory
<1> HIDE DEF h, st, co, at, pr, rv, cw, fa
<1>3. /\ r.fault = m.fault /\ r.state = m.state
      /\ r.queue_table = m.queue_table /\ r.sem_blocked = m.sem_blocked
      /\ r.value = m.value /\ r.sem_used = m.sem_used
      /\ r.prio = pr /\ r.alarm_time = at
  BY DEF Memory
<1> HIDE DEF r
<1> QED
  BY <1>1, <1>2, <1>3

\* start is fine: the new process was free, so it was blocked on nothing.
LEMMA StartFine ==
  ASSUME NEW c \in Pid, NEW m \in Entered(c), ~m.fault, Sound(m), NEW prio,
         NEW alloc \in BOOLEAN
  PROVE  Fine(m, start(m, prio, alloc))
<1> DEFINE free == m.queue_table["freepid"]
           new  == queue_bottom(free)
           a    == [m EXCEPT !.queue_table["freepid"] = queue_out_bot(@)]
           b    == init_process(a, new, prio)
           e    == place(b, new, "actionable", b.prio)
           d    == add_child(e, new, c)
<1>1. /\ m.cur_pid = c /\ m.garbage_collection_list = <<>>
      /\ m \in Memory /\ Proper(m, {c}, {})
  BY HeldDef DEF Entered
<1>2. start(m, prio, alloc) =
        IF prio \notin 1..MAXPRIO \/ queue_empty(free) THEN m
        ELSE IF ~alloc THEN a
        ELSE IF c # 0 /\ m.prio[c] < prio THEN scheduler(d) ELSE d
  BY <1>1 DEF start
<1>3. CASE prio \notin 1..MAXPRIO \/ queue_empty(free)
  BY <1>2, <1>3, StayFine
<1>4. CASE prio \in 1..MAXPRIO /\ ~queue_empty(free)
  <2>1. /\ Placed(m, {c} \cup {}) /\ m.state[0] = "actionable"
        /\ m.state[c] = "actionable"
    BY <1>1, ZeroActionable DEF Proper, Entered
  <2>2. Placed(m, {c})
    BY <2>1 DEF Placed
  <2>3. /\ new \in Pid \ {c} /\ m.state[new] = "freepid"
        /\ a \in Memory /\ a.cur_pid = m.cur_pid /\ a.fault = m.fault
        /\ a.garbage_collection_list = m.garbage_collection_list
        /\ a.state = m.state /\ a.prio = m.prio
        /\ Placed(a, {c} \cup {new}) /\ Placed(a, {c})
    <3>1. /\ {c} \in SUBSET Pid /\ m \in Memory
          /\ ~queue_empty(m.queue_table["freepid"])
      BY <1>1, <1>4
    <3> QED
      BY <2>2, <3>1, TakeFree
  <2>4. Quiet(m, a)
    <3> DEFINE qt == [m.queue_table EXCEPT !["freepid"] = queue_out_bot(@)]
    <3>1. a = [m EXCEPT !.queue_table = qt]
      BY <1>1 DEF Memory
    <3> HIDE DEF qt
    <3> QED
      BY <1>1, <3>1 DEF Memory, Quiet, Rest
  <2>5. SemQueue(a) = SemQueue(m)
    <3>1. m.queue_table \in [list_type -> Seq(Pid)] /\ "sem_blocked" \in list_type
      BY <1>1 DEF Memory, list_type
    <3>2. a.queue_table = [m.queue_table EXCEPT !["freepid"] = queue_out_bot(@)]
      BY <1>1 DEF Memory
    <3> HIDE DEF a
    <3> QED
      BY <3>1, <3>2 DEF SemQueue
  <2> HIDE DEF a, new
  <2>6. Fine(m, a)
    <3>1. Fine(m, m) /\ Same(m, a)
      BY <2>3, <2>4, <2>5, StayFine DEF Same, Quiet, Rest
    <3> QED
      BY <3>1, SameFine
  <2>7. a \in Held(c, <<>>, {c}, {new})
    <3>1. Proper(a, {c}, {new})
      BY <2>1, <2>3 DEF Proper
    <3> QED
      BY <1>1, <2>3, <3>1, HeldDef
  <2>8. b \in Held(c, <<>>, {c}, {new})
    <3>1. prio \in 0..MAXPRIO
      BY <1>4, SizeAssumption
    <3> QED
      BY <2>3, <2>7, <3>1, InitProcess
  <2>9. d \in Held(c, <<>>, {c}, {})
    <3>1. {c} \in SUBSET Pid
      OBVIOUS
    <3> QED
      BY <1>4, <2>3, <2>7, <3>1, StartBody
  <2>10. /\ b.fault = a.fault /\ b.state = a.state
         /\ b.queue_table = a.queue_table /\ b.sem_blocked = a.sem_blocked
         /\ b.value = a.value /\ b.sem_used = a.sem_used
         /\ \A x \in Pid : x # new => /\ b.prio[x] = a.prio[x]
                                      /\ b.alarm_time[x] = a.alarm_time[x]
    BY <2>3, InitProcessFields
  <2> HIDE DEF b
  <2>11. b \in Memory
    BY <2>8, HeldDef
  <2>12. Placing(b, e, new, "actionable", b.prio)
    BY <2>11, PlaceFields
  <2>13. e \in Memory
    <3>1. b.prio \in [Pid -> Int] /\ "actionable" \in list_type
      BY <2>8, HeldKeys DEF list_type
    <3>2. e \in Held(c, <<>>, {c}, {})
      BY <2>3, <2>8, <3>1, Place
    <3> QED
      BY <3>2, HeldDef
  <2>14. e.fault \/ SemQueue(e) = SemQueue(b)
    <3>1. "actionable" \in list_type \ {"sem_blocked"}
      BY DEF list_type
    <3> QED
      BY <2>11, <2>12, <3>1, SemQueueElse
  <2> HIDE DEF e
  <2>15. Relinking(e, d)
    BY <2>13, AddChildFields
  <2> HIDE DEF d
  <2>16. Fine(m, d)
    <3> SUFFICES ASSUME ~d.fault PROVE Fine(m, d)
      BY DEF Fine
    <3>1. /\ Quiet(e, d) /\ d.state = e.state /\ d.queue_table = e.queue_table
          /\ ~e.fault
      BY <2>15 DEF Relinking
    <3>2. /\ Quiet(b, e) /\ e.state = [b.state EXCEPT ![new] = "actionable"]
          /\ SemQueue(e) = SemQueue(b)
      BY <2>12, <2>14, <3>1 DEF Placing
    <3>3. /\ SemQueue(d) = SemQueue(m) /\ d.sem_blocked = m.sem_blocked
          /\ d.value = m.value /\ d.sem_used = m.sem_used
          /\ d.state = [m.state EXCEPT ![new] = "actionable"]
      BY <2>3, <2>4, <2>5, <2>10, <3>1, <3>2 DEF SemQueue, Quiet, Rest
    <3>4. \A x \in Pid : x # new => /\ d.prio[x] = m.prio[x]
                                    /\ d.alarm_time[x] = m.alarm_time[x]
      BY <2>4, <2>10, <3>1, <3>2 DEF Quiet, Rest
    <3>5. m.state \in [Pid -> list_type]
      BY <1>1 DEF Memory
    <3>6. Apart(m, d)
      BY <2>3, <3>3, <3>4, <3>5 DEF Apart
    <3>7. d.garbage_collection_list = <<>>
      BY <2>9, HeldBasic
    <3> QED
      BY <3>3, <3>6, <3>7, NoCounterFine
  <2>17. Fine(m, scheduler(d))
    BY <2>9, <2>16, SchedulerFine
  <2> QED
    BY <1>2, <1>4, <2>6, <2>16, <2>17
<1> QED
  BY <1>3, <1>4

\* The caller leaves the processor for a queue other than sem_blocked.
LEMMA BlockFine ==
  ASSUME NEW c \in Pid, NEW m \in Entered(c), ~m.fault, Sound(m), c # 0,
         NEW a \in Entered(c), a.fault = m.fault, a.state = m.state,
         a.prio = m.prio, a.sem_blocked = m.sem_blocked,
         a.value = m.value, a.sem_used = m.sem_used,
         SemQueue(a) = SemQueue(m),
         \A x \in Pid : x # c => a.alarm_time[x] = m.alarm_time[x],
         NEW s \in list_type \ {"sem_blocked"}, NEW key \in [Pid -> Int]
  PROVE  Fine(m, scheduler(place(a, c, s, key)))
<1> DEFINE b == place(a, c, s, key)
<1>1. a \in Held(c, <<>>, {}, {c}) /\ a \in Memory /\ s \in list_type
  BY Zenon, Release, HeldDef DEF Entered
<1>2. b \in Held(c, <<>>, {}, {})
  BY <1>1, Place
<1>3. Placing(a, b, c, s, key)
  BY <1>1, PlaceFields
<1> HIDE DEF b
<1>4. b.fault \/ SemQueue(b) = SemQueue(a)
  BY <1>1, <1>3, SemQueueElse
<1>5. Fine(m, b)
  <2> SUFFICES ASSUME ~b.fault PROVE Fine(m, b)
    BY DEF Fine
  <2>1. /\ Quiet(a, b) /\ b.state = [m.state EXCEPT ![c] = s]
        /\ SemQueue(b) = SemQueue(m)
    BY <1>3, <1>4 DEF Placing
  <2>2. m.state[c] = "actionable" /\ m.state \in [Pid -> list_type]
    <3>1. m.state \in [Pid -> list_type]
      BY HeldQueues DEF Entered
    <3>2. Proper(m, {c}, {})
      BY HeldDef DEF Entered
    <3> QED
      BY <3>1, <3>2 DEF Proper
  <2>3. Apart(m, b)
    BY <2>1, <2>2 DEF Apart, Quiet, Rest
  <2>4. b.garbage_collection_list = <<>>
    BY <1>2, HeldBasic
  <2> QED
    BY <2>1, <2>3, <2>4, NoCounterFine DEF Quiet, Rest
<1>6. Fine(m, scheduler(b))
  BY <1>2, <1>5, SchedulerFine
<1> QED
  BY <1>6 DEF b

\* wait_clock is fine.
LEMMA WaitClockFine ==
  ASSUME NEW c \in Pid, NEW m \in Entered(c), ~m.fault, Sound(m), c # 0,
         NEW clock \in 0..(CLOCK_MOD - 1)
  PROVE  Fine(m, wait_clock(m, clock))
<1> DEFINE at == [m.alarm_time EXCEPT ![c] = ToInt(clock)]
           a == [m EXCEPT !.alarm_time = at]
<1>1. m \in Held(c, <<>>, {c}, {}) /\ m.cur_pid = c
  BY HeldBasic DEF Entered
<1>2. wait_clock(m, clock) =
        IF clock > m.clock_ticks
        THEN scheduler(place(a, c, "asleep", a.alarm_time)) ELSE m
  BY <1>1 DEF wait_clock
<1>3. at \in [Pid -> Int] /\ \A x \in Pid : x # c => at[x] = m.alarm_time[x]
  <2>1. m.alarm_time \in [Pid -> Int] /\ ToInt(clock) \in Int
    BY <1>1, HeldTable, ToIntType
  <2> QED
    BY <2>1
<1> HIDE DEF at
<1>4. a \in Entered(c) /\ a.alarm_time = at
  BY <1>1, <1>3, SetAlarm DEF Entered
<1>5. /\ a.fault = m.fault /\ a.state = m.state
      /\ a.queue_table = m.queue_table /\ a.prio = m.prio
      /\ a.sem_blocked = m.sem_blocked
      /\ a.value = m.value /\ a.sem_used = m.sem_used
  BY <1>1 DEF Held, Memory
<1> HIDE DEF a
<1>6. "asleep" \in list_type \ {"sem_blocked"} /\ SemQueue(a) = SemQueue(m)
  BY <1>5 DEF list_type, SemQueue
<1>7. Fine(m, scheduler(place(a, c, "asleep", a.alarm_time)))
  BY <1>3, <1>4, <1>5, <1>6, BlockFine
<1> QED
  BY <1>2, <1>7, StayFine

\* A father that has to wait for a child disturbs nobody.
LEMMA WaitpidBlockFine ==
  ASSUME NEW c \in Pid, NEW m \in Entered(c), ~m.fault, Sound(m), c # 0,
         NEW b \in Entered(c), Same(m, b)
  PROVE  Fine(m, waitpid_block(b))
<1> DEFINE a == [b EXCEPT !.cont[c] = "waitpid"]
<1>1. b \in Held(c, <<>>, {c}, {}) /\ b.cur_pid = c
  BY HeldBasic DEF Entered
<1>2. waitpid_block(b) = scheduler(place(a, c, "waiting_child", pid_key))
  BY <1>1 DEF waitpid_block
<1>3. /\ a \in Memory /\ a.cur_pid = b.cur_pid /\ a.fault = b.fault
      /\ a.garbage_collection_list = b.garbage_collection_list
      /\ a.queue_table = b.queue_table /\ a.state = b.state
  BY Zenon, <1>1 DEF Held, Memory
<1>4. /\ a.prio = b.prio /\ a.sem_blocked = b.sem_blocked
      /\ a.value = b.value /\ a.sem_used = b.sem_used
      /\ a.alarm_time = b.alarm_time
  BY <1>1 DEF Held, Memory
<1> HIDE DEF a
<1>5. a \in Entered(c)
  BY <1>1, <1>3, Unmoved DEF Entered
<1>6. /\ "waiting_child" \in list_type \ {"sem_blocked"}
      /\ pid_key \in [Pid -> Int]
  BY <1>1, HeldKeys DEF list_type
<1>7. /\ a.fault = m.fault /\ a.state = m.state
      /\ a.prio = m.prio /\ a.sem_blocked = m.sem_blocked
      /\ a.value = m.value /\ a.sem_used = m.sem_used
      /\ SemQueue(a) = SemQueue(m) /\ a.alarm_time = m.alarm_time
  BY <1>3, <1>4 DEF Same, SemQueue
<1>8. Fine(m, scheduler(place(a, c, "waiting_child", pid_key)))
  BY <1>5, <1>6, <1>7, BlockFine
<1> QED
  BY <1>2, <1>8

\* The end of waitpid frees the pid of a zombie.
LEMMA WaitpidEndFine ==
  ASSUME NEW c \in Pid, NEW b \in Entered(c), ~b.fault, NEW m, Fine(m, b)
  PROVE  Fine(m, waitpid_end(b))
<1> DEFINE ch == b.child_waited[c]
           d == unchain(b, ch)
           e == del_child(d, ch)
           a == free_pid(e, ch)
           r == [a EXCEPT !.child_waited[c] = 0, !.cont[c] = "user"]
<1>1. b \in Held(c, <<>>, {c}, {}) /\ b.cur_pid = c /\ b \in Memory
  BY HeldBasic, HeldDef DEF Entered
<1>2. waitpid_end(b) = IF ch \notin Range(b.queue_table["zombie"]) THEN panic(b) ELSE r
  BY <1>1 DEF waitpid_end
<1>3. CASE ch \notin Range(b.queue_table["zombie"])
  <2>1. panic(b).fault
    BY <1>1 DEF panic, Memory
  <2> QED
    BY <1>2, <1>3, <2>1 DEF Fine
<1>4. CASE ch \in Range(b.queue_table["zombie"])
  <2>1. "zombie" \in list_type
    BY DEF list_type
  <2>2. b.queue_table["zombie"] \in Seq(Pid)
    BY <1>1, <2>1, HeldQueues
  <2>3. ch \in Pid
    BY <1>4, <2>2 DEF Range
  <2>4. b.state[ch] = "zombie"
    BY <1>1, <1>4, <2>1, HeldDef DEF Proper, Placed
  <2>5. ch # 0
    <3>1. b.state[0] = "actionable"
      BY <1>1, ZeroActionable
    <3> QED
      BY <2>4, <3>1
  <2> HIDE DEF ch
  <2>6. d \in Held(c, <<>>, {c}, {ch}) /\ Drift(b, d)
    BY <1>1, <2>3, <2>4, Unchain, UnchainDrift
  <2> HIDE DEF d
  <2>7. e \in Held(c, <<>>, {c}, {ch}) /\ Drift(d, e)
    BY <2>3, <2>6, DelChild, DelChildDrift, HeldDef
  <2> HIDE DEF e
  <2>8. Drift(b, e)
    BY <2>6, <2>7, DriftTrans
  <2>9. e.fault \/ e.state[ch] \in {"zombie", "freepid"}
    BY <2>3, <2>4, <2>8, DeadStay
  <2>10. a \in Held(c, <<>>, {c}, {})
    BY <2>3, <2>5, <2>7, FreePid
  <2>11. Drift(e, a)
    BY <2>3, <2>7, <2>9, HeldDef, FreePidDrift
  <2> HIDE DEF a
  <2>12. Drift(b, a)
    BY <2>8, <2>11, DriftTrans
  <2>13. Fine(m, a)
    <3>1. Buried(a)
      BY <2>10, HeldBasic DEF Buried, Range
    <3> QED
      BY <1>1, <2>12, <3>1, DriftFine
  <2>14. Same(a, r)
    BY <2>10 DEF Held, Memory, Same, SemQueue
  <2> HIDE DEF r
  <2> QED
    BY <1>2, <1>4, <2>13, <2>14, SameFine
<1> QED
  BY <1>3, <1>4

\* waitpid is fine in each of its cases.
LEMMA WaitpidFine ==
  ASSUME NEW c \in Pid, NEW m \in Entered(c), ~m.fault, Sound(m), c # 0, NEW pid
  PROVE  Fine(m, waitpid(m, pid))
<1> DEFINE head == children(c)
           bwd  == Walk(m.links.prev, head, Pid)
           I    == {j \in 1..Len(bwd.met) : m.state[bwd.met[j]] = "zombie"}
           i    == IF I # {} THEN Min(I) ELSE 0
           x    == IF pid = -1 /\ i # 0 THEN bwd.met[i] ELSE pid
           a    == [m EXCEPT !.child_waited[c] = x]
<1>1. m \in Held(c, <<>>, {c}, {}) /\ m.cur_pid = c /\ m \in Memory
  BY HeldBasic, HeldDef DEF Entered
<1>2. \/ waitpid(m, pid) \in {m, panic(m)}
      \/ /\ pid \in UserPid \cup {-1}
         /\ waitpid(m, pid) \in {waitpid_block(a), waitpid_end(a)}
  BY Zenon, <1>1 DEF waitpid, FirstWhere
<1>3. CASE waitpid(m, pid) \in {m, panic(m)}
  <2>1. panic(m).fault
    BY <1>1 DEF panic, Memory
  <2> QED
    BY <1>3, <2>1, StayFine DEF Fine
<1>4. CASE /\ pid \in UserPid \cup {-1}
           /\ waitpid(m, pid) \in {waitpid_block(a), waitpid_end(a)}
  <2>1. x \in Pid \cup {-1}
    <3>1. bwd.met \in Seq(Pid)
      BY WalkMet
    <3>2. I \in SUBSET Nat
      OBVIOUS
    <3>3. I # {} => Min(I) \in I
      <4> HIDE DEF I
      <4> QED
        BY <3>2, MinNat
    <3>4. i # 0 => i \in 1..Len(bwd.met)
      BY Zenon, <3>3
    <3> HIDE DEF i, bwd
    <3>5. i # 0 => bwd.met[i] \in Pid
      BY <3>1, <3>4
    <3>6. UserPid \subseteq Pid
      BY SizeAssumption DEF UserPid, Pid
    <3> QED
      BY <1>4, <3>5, <3>6
  <2> HIDE DEF x
  <2>2. /\ a \in Memory /\ a.cur_pid = m.cur_pid /\ a.fault = m.fault
        /\ a.garbage_collection_list = m.garbage_collection_list
        /\ a.queue_table = m.queue_table /\ a.state = m.state
    BY Zenon, <1>1, <2>1 DEF Held, Memory
  <2>3. Same(m, a)
    BY <1>1 DEF Memory, Same, SemQueue
  <2> HIDE DEF a
  <2>4. a \in Entered(c) /\ ~a.fault
    BY <1>1, <2>2, Unmoved DEF Entered
  <2>5. Fine(m, a)
    BY <2>3, StayFine, SameFine
  <2> QED
    BY <1>4, <2>3, <2>4, <2>5, WaitpidBlockFine, WaitpidEndFine
<1> QED
  BY Zenon, <1>2, <1>3, <1>4

-----------------------------------------------------------------------------
(***************************************************************************)
(* chprio.                                                                 *)
(***************************************************************************)

\* A process blocked on a semaphore goes to the place its new priority gives it.
LEMMA ChprioSorted ==
  ASSUME NEW q \in Seq(Pid), IsInjective(q), NEW pid \in Pid,
         NEW old \in [Pid -> Int], NEW new \in [Pid -> Int],
         \A x \in Pid : x # pid => new[x] = old[x], SortedBy(q, old)
  PROVE  SortedBy(queue_add(pid, queue_del(pid, q), new), new)
<1> DEFINE r == queue_del(pid, q)
<1>1. r \in Seq(Pid) /\ Range(r) = Range(q) \ {pid} /\ SortedBy(r, old)
  BY QueueDel, QueueDelSorted
<1> HIDE DEF r
<1>2. \A i \in DOMAIN r : r[i] \in Pid /\ r[i] # pid
  <2>1. \A i \in DOMAIN r : r[i] \in Range(r)
    BY DEF Range
  <2>2. \A i \in DOMAIN r : r[i] \in Pid
    BY <1>1
  <2> QED
    BY <1>1, <2>1, <2>2
<1>3. SortedBy(r, new)
  BY <1>1, <1>2 DEF SortedBy
<1>4. SortedBy(queue_add(pid, r, new), new)
  BY <1>1, <1>3, QueueAddSorted
<1> QED
  BY <1>4 DEF r

\* The new place of a process other than the caller.
LEMMA ChprioOther ==
  ASSUME NEW c \in Pid, NEW m \in Entered(c), ~m.fault, Sound(m),
         NEW a \in Entered(c), a.fault = m.fault, a.state = m.state,
         a.sem_blocked = m.sem_blocked, a.alarm_time = m.alarm_time,
         a.value = m.value, a.sem_used = m.sem_used,
         a.queue_table = m.queue_table, NEW pid \in Pid,
         \A x \in Pid : x # pid => a.prio[x] = m.prio[x]
  PROVE  Fine(m, place(unchain(a, pid), pid, m.state[pid], a.prio))
<1> DEFINE d == unchain(a, pid)
           s == m.state[pid]
           e == place(d, pid, s, a.prio)
<1>1. /\ a \in Held(c, <<>>, {c}, {}) /\ a \in Memory
      /\ m \in Held(c, <<>>, {c}, {}) /\ m \in Memory
  BY HeldDef DEF Entered
<1>2. Unchaining(a, d, pid)
  BY <1>1, UnchainFields
<1>3. d \in Held(c, <<>>, {c}, {pid}) /\ {c} \in SUBSET Pid
  BY <1>1, Unchain
<1> HIDE DEF d
<1> d \in Memory
  BY <1>3, HeldDef
<1>4. Placing(d, e, pid, s, a.prio)
  BY <1>3, PlaceFields
<1>5. /\ a.prio \in [Pid -> Int] /\ m.prio \in [Pid -> Int]
      /\ s \in list_type /\ m.state \in [Pid -> list_type]
      /\ "sem_blocked" \in list_type
  BY <1>1, HeldKeys, HeldQueues DEF list_type
<1>6. e \in Held(c, <<>>, {c}, {})
  <2>1. m.state[0] = "actionable"
    BY <1>1, ZeroActionable
  <2> QED
    BY Zenon, <1>3, <1>5, <2>1, Place
<1>7. e.garbage_collection_list = <<>>
  BY <1>6, HeldBasic
<1>8. SUFFICES ASSUME ~e.fault PROVE Fine(m, e)
  BY Zenon DEF Fine, d
<1> HIDE DEF s, e
<1>9. /\ Quiet(d, e) /\ e.state = [d.state EXCEPT ![pid] = s] /\ ~d.fault
      /\ e.queue_table =
           [d.queue_table EXCEPT ![s] = queue_add(pid, d.queue_table[s], a.prio)]
  BY Zenon, <1>4, <1>8 DEF Placing
<1>10. /\ Quiet(a, d) /\ d.state = a.state
       /\ d.queue_table = [t \in list_type |-> queue_del(pid, a.queue_table[t])]
  BY <1>2, <1>9 DEF Unchaining
<1>11. /\ e.state = m.state /\ e.sem_blocked = m.sem_blocked
       /\ e.alarm_time = m.alarm_time /\ e.value = m.value
       /\ e.sem_used = m.sem_used /\ e.prio = a.prio
  BY <1>5, <1>9, <1>10 DEF Quiet, Rest, s
<1>12. CASE s # "sem_blocked"
  <2>1. SemQueue(e) = SemQueue(d)
    BY <1>3, <1>4, <1>5, <1>8, <1>12, SemQueueElse
  <2>2. SemQueue(d) = SemQueue(a)
    BY <1>1, <1>2, <1>9, <1>12, SemQueueApart DEF s
  <2>3. Apart(m, e)
    BY <1>11, <1>12, <2>1, <2>2 DEF Apart, SemQueue, s
  <2> QED
    BY <1>7, <1>11, <2>3, NoCounterFine
<1>13. CASE s = "sem_blocked"
  <2> DEFINE q == SemQueue(m)
  <2>1. SemQueue(e) = queue_add(pid, queue_del(pid, q), a.prio)
    <3>1. SemQueue(d) = queue_del(pid, q)
      BY <1>5, <1>10 DEF SemQueue
    <3>2. d.queue_table \in [list_type -> Seq(Pid)]
      BY <1>3 DEF Memory
    <3> QED
      BY <1>5, <1>9, <1>13, <3>1, <3>2 DEF SemQueue
  <2>2. q \in Seq(Pid) /\ IsInjective(q) /\ SortedBy(q, m.prio)
    BY <1>1, SemQueueState DEF Sound
  <2> HIDE DEF q
  <2>3. SortedBy(SemQueue(e), e.prio)
    <3> DEFINE old == m.prio
               new == a.prio
    <3>1. /\ old \in [Pid -> Int] /\ new \in [Pid -> Int]
          /\ \A x \in Pid : x # pid => new[x] = old[x]
          /\ SortedBy(q, old) /\ pid \in Pid /\ q \in Seq(Pid) /\ IsInjective(q)
      BY <1>5, <2>2
    <3> HIDE DEF old, new
    <3>2. SortedBy(queue_add(pid, queue_del(pid, q), new), new)
      BY ONLY Zenon, <3>1, ChprioSorted
    <3> QED
      BY <1>11, <2>1, <3>2 DEF new
  <2>4. Marks(e, {})
    BY <1>11 DEF Marks, Sound
  <2>5. \A t \in Sem : Enough(e, t)
    BY <1>11 DEF Enough, Waits, Sound
  <2>6. NotEarly(m, e)
    BY <1>11 DEF NotEarly
  <2>7. InOrder(m, e)
    BY <1>11 DEF InOrder, Marks, Sound
  <2>8. Buried(e)
    BY <1>7 DEF Buried, Range
  <2> QED
    BY <2>3, <2>4, <2>5, <2>6, <2>7, <2>8 DEF Fine, Sound
<1> QED
  BY <1>12, <1>13

\* chprio is fine: the queue of the semaphores is sorted by the new priorities.
LEMMA ChprioFine ==
  ASSUME NEW c \in Pid, NEW m \in Entered(c), ~m.fault, Sound(m),
         NEW pid \in Pid, NEW newprio
  PROVE  Fine(m, chprio(m, pid, newprio))
<1> DEFINE a == [m EXCEPT !.prio[pid] = newprio]
           e == place(unchain(a, pid), pid, m.state[pid], a.prio)
           b == IF pid = c THEN a ELSE e
<1>1. m \in Held(c, <<>>, {c}, {}) /\ m.cur_pid = c /\ m \in Memory
  BY HeldBasic, HeldDef DEF Entered
<1>2. \/ chprio(m, pid, newprio) = m
      \/ newprio \in 1..MAXPRIO /\ chprio(m, pid, newprio) \in {b, scheduler(b)}
  BY <1>1 DEF chprio
<1>3. CASE chprio(m, pid, newprio) = m
  BY <1>3, StayFine
<1>4. CASE newprio \in 1..MAXPRIO /\ chprio(m, pid, newprio) \in {b, scheduler(b)}
  <2>1. newprio \in 0..MAXPRIO
    BY <1>4, SizeAssumption
  <2>2. /\ a \in Memory /\ a.cur_pid = m.cur_pid /\ a.fault = m.fault
        /\ a.garbage_collection_list = m.garbage_collection_list
        /\ a.queue_table = m.queue_table /\ a.state = m.state
        /\ a.prio = [m.prio EXCEPT ![pid] = newprio]
    BY Zenon, <1>1, <2>1 DEF Held, Memory
  <2>3. /\ a.sem_blocked = m.sem_blocked /\ a.alarm_time = m.alarm_time
        /\ a.value = m.value /\ a.sem_used = m.sem_used
    BY <1>1 DEF Memory
  <2> HIDE DEF a
  <2>4. a \in Entered(c)
    BY <1>1, <2>2, Unmoved DEF Entered
  <2>5. \A x \in Pid : x # pid => a.prio[x] = m.prio[x]
    BY <1>1, <2>2 DEF Memory
  <2>6. e \in Entered(c)
    <3>1. a.prio \in [Pid -> Int] /\ m.state[pid] \in list_type
      BY <1>1, <2>4, HeldKeys, HeldQueues DEF Entered
    <3>2. unchain(a, pid) \in Held(c, <<>>, {c}, {pid})
      BY <2>4, Unchain DEF Entered
    <3> QED
      BY <3>1, <3>2, Place DEF Entered
  <2>7. Fine(m, e)
    BY Zenon, <2>2, <2>3, <2>4, <2>5, ChprioOther
  <2>8. ASSUME pid = c PROVE Fine(m, a)
    <3>1. m.state[c] = "actionable"
      <4>1. Proper(m, {c}, {})
        BY <1>1, HeldDef
      <4> QED
        BY <4>1 DEF Proper
    <3>2. Apart(m, a)
      BY <2>2, <2>3, <2>5, <2>8, <3>1 DEF Apart, SemQueue
    <3>3. a.garbage_collection_list = <<>>
      BY <2>4, HeldBasic DEF Entered
    <3> QED
      BY <2>3, <3>2, <3>3, NoCounterFine
  <2> HIDE DEF e
  <2>9. b \in Entered(c) /\ Fine(m, b)
    BY <2>4, <2>6, <2>7, <2>8
  <2> HIDE DEF b
  <2>10. Fine(m, scheduler(b))
    BY <2>9, SchedulerFine DEF Entered
  <2> QED
    BY <1>4, <2>9, <2>10
<1> QED
  BY <1>2, <1>3, <1>4

-----------------------------------------------------------------------------
(***************************************************************************)
(* The garbage collector, and the boot.                                    *)
(***************************************************************************)

\* The dead stay dead until their pid is taken.
LEMMA CollectorFine ==
  ASSUME NEW m, Settled(m), ~m.fault, m.cur_pid = PID_GARBAGE, Sound(m), Buried(m)
  PROVE  Fine(m, scheduler(garbage_collect(m)))
<1> DEFINE g == m.garbage_collection_list
           r == garbage_collect(m)
           c == PID_GARBAGE
           R == {}
<1>1. {c} \cap Pid = {} /\ R \in SUBSET Pid /\ R \in SUBSET ({c} \cap Pid)
  BY SizeAssumption DEF PID_GARBAGE, Pid
<1>2. m \in Held(c, g, R, {}) /\ Range(g) \subseteq UserPid /\ m \in Memory
  BY <1>1, HeldDef DEF Settled
<1> HIDE DEF c, R, g
<1>3. PICK g2 \in Seq(Pid) : r \in Held(c, g2, R, {}) /\ Range(g2) \subseteq UserPid
  BY <1>1, <1>2, GarbageCollect
<1>4. Drift(m, r) /\ Buried(r)
  BY <1>1, <1>2, GarbageCollectDrift
<1> HIDE DEF r
<1>5. Fine(m, m)
  BY DEF Fine, NotEarly, InOrder, Sound, Marks
<1>6. Fine(m, r)
  BY <1>2, <1>4, <1>5, DriftFine
<1>7. Fine(m, scheduler(r))
  BY <1>1, <1>3, <1>6, SchedulerFine
<1> QED
  BY <1>7 DEF r

\* Nobody is blocked on a semaphore yet.
Nobody(m) ==
  ~m.fault => /\ SemQueue(m) = <<>>
              /\ \A p \in Pid : m.sem_blocked[p] = -1 /\ m.state[p] # "sem_blocked"

\* A memory in which nobody is blocked is sound.
LEMMA NobodySound ==
  ASSUME NEW m, Nobody(m), ~m.fault
  PROVE  Sound(m)
<1>1. Marks(m, {})
  BY DEF Marks, Nobody
<1>2. SortedBy(SemQueue(m), m.prio)
  BY DEF SortedBy, Nobody
<1>3. \A s \in Sem : Waits(m, s) = {}
  BY SemNotNone DEF Waits, Nobody
<1> QED
  BY <1>1, <1>2, <1>3 DEF Sound, Enough

\* The end of start adds a process that runs.
LEMMA StartBodyNobody ==
  ASSUME NEW c \in Pid, NEW g, NEW R \in SUBSET Pid, NEW new \in Pid,
         NEW a \in Held(c, g, R, {new}), NEW prio \in 1..MAXPRIO, Nobody(a)
  PROVE  LET b == init_process(a, new, prio)
             d == add_child(place(b, new, "actionable", b.prio), new, c)
         IN  Nobody(d) /\ (a.fault => d.fault)
<1> DEFINE b == init_process(a, new, prio)
           e == place(b, new, "actionable", b.prio)
           d == add_child(e, new, c)
<1>1. b \in Held(c, g, R, {new}) /\ a \in Memory
  <2>1. prio \in 0..MAXPRIO
    BY SizeAssumption
  <2> QED
    BY <2>1, InitProcess, HeldDef
<1>2. /\ b.fault = a.fault /\ b.state = a.state
      /\ b.queue_table = a.queue_table /\ b.sem_blocked = a.sem_blocked
  BY <1>1, InitProcessFields
<1> HIDE DEF b
<1>3. b \in Memory
  BY <1>1, HeldDef
<1>4. Placing(b, e, new, "actionable", b.prio)
  BY <1>3, PlaceFields
<1>5. e \in Memory
  <2>1. b.prio \in [Pid -> Int] /\ "actionable" \in list_type
    BY <1>1, HeldKeys DEF list_type
  <2>2. e \in Held(c, g, R, {})
    BY <1>1, <2>1, Place
  <2> QED
    BY <2>2, HeldDef
<1>6. e.fault \/ SemQueue(e) = SemQueue(b)
  <2>1. "actionable" \in list_type \ {"sem_blocked"}
    BY DEF list_type
  <2> QED
    BY <1>3, <1>4, <2>1, SemQueueElse
<1> HIDE DEF e
<1>7. Relinking(e, d)
  BY <1>5, AddChildFields
<1> HIDE DEF d
<1>8. ASSUME ~d.fault PROVE ~a.fault /\ Nobody(d)
  <2>1. ~e.fault /\ Quiet(e, d) /\ d.state = e.state /\ d.queue_table = e.queue_table
    BY <1>7, <1>8 DEF Relinking
  <2>2. /\ ~b.fault /\ Quiet(b, e) /\ e.state = [b.state EXCEPT ![new] = "actionable"]
        /\ SemQueue(e) = SemQueue(b)
    BY <1>4, <1>6, <2>1 DEF Placing
  <2>3. SemQueue(d) = SemQueue(a) /\ d.sem_blocked = a.sem_blocked
    BY <1>2, <2>1, <2>2 DEF SemQueue, Quiet
  <2>4. \A p \in Pid : d.state[p] \in {a.state[p], "actionable"}
    <3>1. DOMAIN a.state = Pid
      BY <1>1 DEF Memory
    <3> QED
      BY <1>2, <2>1, <2>2, <3>1
  <2> QED
    BY <1>2, <2>2, <2>3, <2>4 DEF Nobody
<1>9. Nobody(d) /\ (a.fault => d.fault)
  BY <1>8 DEF Nobody
<1> QED
  BY <1>9 DEF d, e, b

\* obtain_pid leaves the queue of the blocked processes alone.
LEMMA TakeFreeNobody ==
  ASSUME NEW m \in Memory, Nobody(m)
  PROVE  Nobody([m EXCEPT !.queue_table["freepid"] = queue_out_bot(@)])
<1> DEFINE qt == [m.queue_table EXCEPT !["freepid"] = queue_out_bot(@)]
           a == [m EXCEPT !.queue_table = qt]
<1>1. qt["sem_blocked"] = m.queue_table["sem_blocked"]
  BY DEF Memory, list_type
<1> HIDE DEF qt
<1>2. /\ a.fault = m.fault /\ a.state = m.state /\ a.queue_table = qt
      /\ a.sem_blocked = m.sem_blocked
  BY DEF Memory
<1> HIDE DEF a
<1>3. Nobody(a)
  BY <1>1, <1>2 DEF Nobody, SemQueue
<1> QED
  BY <1>3 DEF a, qt

\* idle leaves its queue.
LEMMA UnchainNobody ==
  ASSUME NEW m \in Memory, Nobody(m), NEW p
  PROVE  Nobody(unchain(m, p))
<1> DEFINE r == unchain(m, p)
<1>1. Unchaining(m, r, p)
  BY UnchainFields
<1> HIDE DEF r
<1>2. ASSUME ~r.fault PROVE Nobody(r)
  <2>1. /\ ~m.fault /\ Quiet(m, r) /\ r.state = m.state
        /\ r.queue_table = [s \in list_type |-> queue_del(p, m.queue_table[s])]
    BY <1>1, <1>2 DEF Unchaining
  <2>2. m.queue_table["sem_blocked"] = <<>> /\ <<>> \in Seq(Pid)
    BY <2>1 DEF Nobody, SemQueue
  <2>3. queue_del(p, <<>>) = <<>>
    BY DEF queue_del
  <2>4. SemQueue(r) = <<>>
    BY <2>1, <2>2, <2>3 DEF SemQueue, list_type
  <2> QED
    BY <2>1, <2>4 DEF Nobody, Quiet
<1>3. Nobody(r)
  BY <1>2 DEF Nobody
<1> QED
  BY <1>3 DEF r

\* At boot nobody waits.
LEMMA InitFine == ~kernel_start.fault => Sound(kernel_start) /\ Buried(kernel_start)
<1> DEFINE m == init_free_list
           new == queue_bottom(m.queue_table["freepid"])
           a == [m EXCEPT !.queue_table["freepid"] = queue_out_bot(@)]
           b == init_process(a, new, 1)
           d == add_child(place(b, new, "actionable", b.prio), new, 0)
           e == [d EXCEPT !.prio[0] = 0]
           f == unchain(e, 0)
<1>1. /\ m \in Memory /\ Placed(m, {})
      /\ m.cur_pid = 0 /\ ~m.fault /\ m.garbage_collection_list = <<>>
      /\ ~queue_empty(m.queue_table["freepid"]) /\ new = 0
  BY FreeList
<1>2. 1 \in 1..MAXPRIO /\ MAXPRIO \in 1..MAXPRIO /\ 0 \in 0..MAXPRIO /\ 0 \in Pid
  BY SizeAssumption, ZeroPid
<1>3. Nobody(m)
  <2>1. m.queue_table["sem_blocked"] = <<>>
    BY DEF init_free_list, list_type
  <2>2. \A p \in Pid : m.sem_blocked[p] = -1 /\ m.state[p] # "sem_blocked"
    BY DEF init_free_list
  <2> QED
    BY <2>1, <2>2 DEF Nobody, SemQueue
<1> HIDE DEF m
<1>4. start(m, 1, TRUE) = d
  BY <1>1, <1>2 DEF start
<1>5. /\ a \in Memory /\ a.cur_pid = m.cur_pid /\ a.fault = m.fault
      /\ a.garbage_collection_list = m.garbage_collection_list
      /\ Placed(a, {} \cup {new})
  BY <1>1, TakeFree
<1>6. Nobody(a)
  BY <1>1, <1>3, TakeFreeNobody
<1> HIDE DEF a, new
<1>7. a \in Held(0, <<>>, {}, {new})
  BY <1>1, <1>5, HeldDef DEF Proper
<1>8. d \in Held(0, <<>>, {}, {}) /\ Nobody(d)
  <2>1. d \in Held(0, <<>>, {}, {})
    BY <1>1, <1>2, <1>7, StartBody
  <2>2. Nobody(d)
    BY <1>1, <1>2, <1>6, <1>7, StartBodyNobody
  <2> QED
    BY <2>1, <2>2
<1> HIDE DEF d
<1>9. /\ e \in Memory /\ e.cur_pid = d.cur_pid /\ e.fault = d.fault
      /\ e.garbage_collection_list = d.garbage_collection_list
      /\ e.queue_table = d.queue_table /\ e.state = d.state
      /\ e.sem_blocked = d.sem_blocked
  BY Zenon, <1>2, <1>8 DEF Held, Memory
<1> HIDE DEF e
<1>10. e \in Held(0, <<>>, {}, {}) /\ Nobody(e)
  <2>1. e \in Held(0, <<>>, {}, {})
    BY <1>8, <1>9, Unmoved
  <2>2. Nobody(e)
    BY <1>8, <1>9 DEF Nobody, SemQueue
  <2> QED
    BY <2>1, <2>2
<1>11. /\ f \in Held(0, <<>>, {}, {0}) /\ f.state = e.state
       /\ e.fault => f.fault
  <2> DEFINE g == <<>>
             R == {}
             p == 0
  <2>1. R \in SUBSET Pid /\ p \in Pid /\ e \in Held(p, g, R, {})
    BY <1>2, <1>10
  <2> HIDE DEF g, R, p
  <2>2. /\ unchain(e, p) \in Held(p, g, R, {p})
        /\ unchain(e, p).state = e.state
        /\ e.fault => unchain(e, p).fault
    BY ONLY <2>1, UnchainIdle
  <2> QED
    BY <2>2 DEF g, R, p
<1>12. Nobody(f)
  BY <1>9, <1>10, UnchainNobody
<1>13. ~f.fault => f.state[0] = "actionable"
  BY <1>10, <1>11, ZeroActionable
<1> HIDE DEF f
<1>14. f \in Entered(0)
  <2>1. /\ f \in Memory /\ f.cur_pid = 0 /\ f.garbage_collection_list = <<>>
        /\ f.fault \/ Proper(f, {}, {0})
    BY <1>11, HeldDef
  <2>2. {} \cup {0} = {0} \cup {}
    OBVIOUS
  <2>3. f.fault \/ Proper(f, {0}, {})
    BY <1>13, <2>1, <2>2 DEF Proper
  <2> QED
    BY <2>1, <2>3, HeldDef DEF Entered
<1>15. kernel_start = start(f, MAXPRIO, TRUE)
  BY Zenon, <1>4 DEF kernel_start, init_scheduler, m, e, f
<1>16. CASE ~f.fault
  <2>1. Fine(f, kernel_start)
    BY Zenon, <1>2, <1>12, <1>14, <1>15, <1>16, NobodySound, StartFine
  <2> QED
    BY <2>1 DEF Fine
<1>17. CASE f.fault
  <2> DEFINE free == f.queue_table["freepid"]
             fn == queue_bottom(free)
             fa == [f EXCEPT !.queue_table["freepid"] = queue_out_bot(@)]
             fb == init_process(fa, fn, MAXPRIO)
             fd == add_child(place(fb, fn, "actionable", fb.prio), fn, 0)
  <2>1. f \in Memory /\ f.cur_pid = 0 /\ f.garbage_collection_list = <<>>
    BY <1>11, HeldDef
  <2>2. kernel_start = IF queue_empty(free) THEN f ELSE fd
    BY <1>2, <1>15, <2>1 DEF start
  <2>3. CASE queue_empty(free)
    BY <1>17, <2>2, <2>3
  <2>4. CASE ~queue_empty(free)
    <3>1. /\ fn \in Pid /\ fa \in Memory /\ fa.cur_pid = f.cur_pid /\ fa.fault = f.fault
          /\ fa.garbage_collection_list = f.garbage_collection_list
      BY <2>1, <2>4, TakeFreeType
    <3> HIDE DEF fa, fn
    <3>2. fa \in Held(0, <<>>, {}, {fn})
      BY Zenon, <1>17, <2>1, <3>1, HeldDef
    <3>3. Nobody(fa) /\ fa.fault
      BY <1>17, <3>1 DEF Nobody
    <3>4. fa.fault => fd.fault
      BY <1>2, <3>1, <3>2, <3>3, StartBodyNobody
    <3> QED
      BY <2>2, <2>4, <3>3, <3>4
  <2> QED
    BY <2>3, <2>4
<1> QED
  BY <1>16, <1>17

=============================================================================
