----------------------------- MODULE WakeProofs -----------------------------
(***************************************************************************)
(* No system call, interrupt or collection loses the wake-up of a process  *)
(* blocked on a semaphore, wakes the wrong one or wakes a sleeper early.   *)
(***************************************************************************)
EXTENDS CallProofs, SignalProofs

-----------------------------------------------------------------------------
(***************************************************************************)
(* exit and kill.                                                          *)
(***************************************************************************)

\* The call has been fine to all but pid, which is about to die.
Doomed(m, b, pid) ==
  \/ b.fault
  \/ /\ Marks(b, {pid}) /\ SortedBy(SemQueue(b), b.prio)
     /\ \A s \in Sem : Enough(b, s)
     /\ \A p \in Pid \ {pid} : m.state[p] = "asleep" =>
          b.state[p] = "asleep" /\ b.alarm_time[p] = m.alarm_time[p]
     /\ \A p, q \in Pid \ {pid} :
          (/\ m.sem_blocked[p] # -1 /\ m.sem_blocked[q] = m.sem_blocked[p]
           /\ b.state[p] # "sem_blocked" /\ b.state[q] = "sem_blocked")
            => Above(SemQueue(m), p, q)

\* Memory a is b with a new alarm_time for the process that is to die.
Burial(c, R, m, b, pid, a, at) ==
  /\ R \in SUBSET Pid /\ pid \in Pid /\ pid # 0
  /\ b \in Held(c, <<>>, R, {pid}) /\ Doomed(m, b, pid)
  /\ a \in Held(c, <<>>, R, {pid})
  /\ at \in [Pid -> Int] /\ \A p \in Pid : p # pid => at[p] = b.alarm_time[p]
  /\ a.fault = b.fault /\ a.state = b.state /\ a.sem_blocked = b.sem_blocked
  /\ a.queue_table = b.queue_table /\ a.prio = b.prio
  /\ a.sem_used = b.sem_used /\ a.value = b.value /\ a.alarm_time = at

\* It becomes a zombie.
LEMMA ZombieFine ==
  ASSUME NEW c, NEW R, NEW m, NEW b, NEW pid, NEW a, NEW at,
         Burial(c, R, m, b, pid, a, at)
  PROVE  LET d == place(a, pid, "zombie", at)
         IN  /\ d \in Held(c, <<>>, R, {}) /\ Fine(m, d)
             /\ ~d.fault => d.state[pid] = "zombie"
<1> DEFINE d == place(a, pid, "zombie", at)
<1>1. /\ a \in Held(c, <<>>, R, {pid}) /\ a.alarm_time = at /\ at \in [Pid -> Int]
      /\ \A p \in Pid : p # pid => at[p] = b.alarm_time[p]
      /\ R \in SUBSET Pid /\ pid \in Pid /\ pid # 0
      /\ b \in Held(c, <<>>, R, {pid}) /\ Doomed(m, b, pid)
  BY DEF Burial
<1>2. /\ a.fault = b.fault /\ a.state = b.state /\ a.sem_blocked = b.sem_blocked
      /\ a.queue_table = b.queue_table /\ a.prio = b.prio
      /\ a.sem_used = b.sem_used /\ a.value = b.value
  BY Zenon DEF Burial
<1>3. /\ "zombie" \in list_type \ {"sem_blocked"}
      /\ "zombie" \in list_type /\ "zombie" # "sem_blocked"
  BY DEF list_type
<1>4. d \in Held(c, <<>>, R, {})
  BY Zenon, <1>1, <1>3, Place
<1>5. Placing(a, d, pid, "zombie", at) /\ a \in Memory
  BY Zenon, <1>1, HeldDef, PlaceFields
<1> HIDE DEF d
<1>6. d.fault \/ SemQueue(d) = SemQueue(a)
  BY <1>3, <1>5, SemQueueElse
<1>7. CASE d.fault
  BY Zenon, <1>4, <1>7 DEF Fine, d
<1>8. CASE ~d.fault
  <2>1. /\ ~b.fault /\ d.state = [b.state EXCEPT ![pid] = "zombie"]
        /\ d.sem_blocked = b.sem_blocked /\ d.prio = b.prio
        /\ d.sem_used = b.sem_used /\ d.value = b.value
        /\ d.alarm_time = at /\ SemQueue(d) = SemQueue(b)
    BY Zenon, <1>1, <1>2, <1>5, <1>6, <1>8 DEF Placing, Quiet, Rest, SemQueue
  <2>2. d.state[pid] = "zombie" /\ \A p \in Pid : p # pid => d.state[p] = b.state[p]
    <3>1. b.state \in [Pid -> list_type]
      BY Zenon, <1>1, HeldQueues
    <3> QED
      BY Zenon, <1>1, <2>1, <3>1
  <2>3. /\ Marks(b, {pid}) /\ SortedBy(SemQueue(b), b.prio)
        /\ \A s \in Sem : Enough(b, s)
        /\ \A p \in Pid \ {pid} : m.state[p] = "asleep" =>
             b.state[p] = "asleep" /\ b.alarm_time[p] = m.alarm_time[p]
        /\ \A p, q \in Pid \ {pid} :
             (/\ m.sem_blocked[p] # -1 /\ m.sem_blocked[q] = m.sem_blocked[p]
              /\ b.state[p] # "sem_blocked" /\ b.state[q] = "sem_blocked")
               => Above(SemQueue(m), p, q)
    BY Zenon, <1>1, <2>1 DEF Doomed
  <2>4. Marks(d, {})
    BY Zenon, <1>1, <2>1, <2>2, <2>3 DEF Marks
  <2>5. \A s \in Sem : Enough(d, s)
    <3> SUFFICES ASSUME NEW s \in Sem PROVE Enough(d, s)
      OBVIOUS
    <3>1. Waits(d, s) = Waits(b, s) /\ Enough(b, s)
      BY Zenon, <2>1, <2>3 DEF Waits
    <3> QED
      BY Zenon, <2>1, <3>1 DEF Enough
  <2>6. Buried(d)
    <3>1. d.garbage_collection_list = <<>>
      BY <1>4, HeldBasic
    <3> QED
      BY <3>1 DEF Buried, Range
  <2>7. NotEarly(m, d)
    BY Zenon, <1>1, <2>1, <2>2, <2>3 DEF NotEarly
  <2>8. InOrder(m, d)
    BY Zenon, <1>1, <2>2, <2>3 DEF InOrder
  <2>9. Fine(m, d)
    BY Zenon, <2>1, <2>3, <2>4, <2>5, <2>6, <2>7, <2>8 DEF Fine, Sound
  <2> QED
    BY Zenon, <1>4, <2>2, <2>9 DEF d
<1> QED
  BY Zenon, <1>7, <1>8

\* die is fine: what follows the death of the process drifts.
LEMMA DieFine ==
  ASSUME NEW c, NEW R \in SUBSET Pid, NEW pid \in UserPid, pid \in Pid,
         NEW b \in Held(c, <<>>, R, {pid}), NEW m, Doomed(m, b, pid)
  PROVE  Fine(m, die(b, pid))
<1> DEFINE at == [b.alarm_time EXCEPT ![pid] = ToInt(b.clock_ticks)]
           a == [b EXCEPT !.alarm_time = at]
           d == place(a, pid, "zombie", a.alarm_time)
           e == report_father(d, pid)
           f == check_zombies_children(e, pid)
           h == funeral(f, pid)
           r == add_garbage_collection(h, pid)
<1>1. die(b, pid) = r
  BY DEF die
<1>2. at \in [Pid -> Int] /\ \A p \in Pid : p # pid => at[p] = b.alarm_time[p]
  <2>1. b.clock_ticks \in 0..(CLOCK_MOD - 1)
    BY HeldBasic
  <2>2. b.alarm_time \in [Pid -> Int] /\ ToInt(b.clock_ticks) \in Int
    BY <2>1, HeldTable, ToIntType
  <2> QED
    BY <2>2
<1> HIDE DEF at
<1>3. pid # 0
  BY DEF UserPid
<1>4. /\ d \in Held(c, <<>>, R, {}) /\ Fine(m, d)
      /\ ~d.fault => d.state[pid] = "zombie"
  <2>1. a \in Held(c, <<>>, R, {pid})
    BY <1>2, SetAlarm
  <2>2. /\ a.fault = b.fault /\ a.state = b.state
        /\ a.sem_blocked = b.sem_blocked /\ a.queue_table = b.queue_table
        /\ a.prio = b.prio /\ a.sem_used = b.sem_used /\ a.value = b.value
        /\ a.alarm_time = at
    BY DEF Held, Memory
  <2> HIDE DEF a
  <2>3. Burial(c, R, m, b, pid, a, at)
    BY Zenon, <1>2, <1>3, <2>1, <2>2 DEF Burial
  <2>4. d = place(a, pid, "zombie", at)
    BY Zenon, <2>2
  <2> HIDE DEF d
  <2> QED
    BY Zenon, <2>3, <2>4, ZombieFine
<1> HIDE DEF d
<1>5. e \in Held(c, <<>>, R, {}) /\ Drift(d, e)
  BY Zenon, <1>3, <1>4, ReportFather, ReportFatherDrift
<1> HIDE DEF e
<1>6. f \in Held(c, <<>>, R, {}) /\ Drift(e, f)
  BY <1>5, CheckZombiesChildren, CheckZombiesChildrenDrift
<1> HIDE DEF f
<1>7. h \in Held(c, <<>>, R, {}) /\ Drift(f, h)
  BY Zenon, <1>6, Funeral, FuneralDrift, HeldDef
<1> HIDE DEF h
<1>8. Drift(h, r)
  BY <1>7, AddGarbageCollectionDrift, HeldDef
<1>9. \/ r.fault
      \/ \E g \in Seq(Pid) : r \in Held(c, g, R, {}) /\ Range(g) = Range(<<>>) \cup {pid}
  BY <1>7, AddGarbageCollection
<1> HIDE DEF r
<1>10. Drift(d, r)
  <2>1. Drift(d, f)
    BY <1>5, <1>6, DriftTrans
  <2>2. Drift(d, h)
    BY <1>7, <2>1, DriftTrans
  <2> QED
    BY <1>8, <2>2, DriftTrans
<1>11. Buried(r)
  <2>1. ~r.fault => r.state[pid] \in {"zombie", "freepid"}
    BY Zenon, <1>4, <1>10, DeadStay
  <2>2. ~r.fault => Range(r.garbage_collection_list) = {pid}
    <3>1. ASSUME NEW g \in Seq(Pid), r \in Held(c, g, R, {})
          PROVE  r.garbage_collection_list = g
      BY <3>1, HeldBasic
    <3>2. Range(<<>>) = {}
      BY DEF Range
    <3> QED
      BY <1>9, <3>1, <3>2
  <2> QED
    BY <2>1, <2>2 DEF Buried
<1>12. d \in Memory
  BY <1>4, HeldDef
<1> QED
  BY Zenon, <1>1, <1>4, <1>10, <1>11, <1>12, DriftFine

\* Taking the victim out of its queue.
LEMMA UnchainDoomed ==
  ASSUME NEW c, NEW g, NEW R, NEW b \in Held(c, g, R, {}), NEW pid \in Pid,
         NEW s \in list_type, NEW m, Doomed(m, b, pid)
  PROVE  Doomed(m, unchain_from(b, pid, s), pid)
<1> DEFINE r == unchain_from(b, pid, s)
<1>1. b \in Memory
  BY HeldDef
<1>2. CASE r.fault
  BY Zenon, <1>2 DEF Doomed
<1>3. CASE ~r.fault
  <2>1. r = unchain(b, pid)
    <3>1. panic(b).fault
      BY <1>1 DEF panic, Memory
    <3> QED
      BY <1>3, <3>1 DEF unchain_from
  <2>2. Unchaining(b, r, pid)
    BY <1>1, <2>1, UnchainFields
  <2> HIDE DEF r
  <2>3. /\ ~b.fault /\ Quiet(b, r) /\ r.state = b.state
        /\ r.queue_table = [x \in list_type |-> queue_del(pid, b.queue_table[x])]
    BY Zenon, <1>3, <2>2 DEF Unchaining
  <2>4. SemQueue(r) = queue_del(pid, SemQueue(b))
    BY <2>3 DEF SemQueue, list_type
  <2>5. /\ Marks(b, {pid}) /\ SortedBy(SemQueue(b), b.prio)
        /\ \A x \in Sem : Enough(b, x)
    BY Zenon, <2>3 DEF Doomed
  <2>6. SortedBy(SemQueue(r), r.prio)
    <3>1. SemQueue(b) \in Seq(Pid)
      BY Zenon, <2>3, SemQueueState
    <3>2. SortedBy(queue_del(pid, SemQueue(b)), b.prio)
      BY <2>5, <3>1, QueueDelSorted
    <3> QED
      BY Zenon, <2>3, <2>4, <3>2 DEF Quiet, Rest
  <2>7. \A x \in Sem : Enough(r, x)
    BY Zenon, <2>3, <2>5 DEF Enough, Waits, Quiet, Rest
  <2>8. Marks(r, {pid})
    BY Zenon, <2>3, <2>5 DEF Marks, Quiet
  <2> QED
    BY Zenon, <2>3, <2>6, <2>7, <2>8 DEF Doomed, Quiet, r
<1> QED
  BY <1>2, <1>3

\* A process that waits for no semaphore may die.
LEMMA OtherDoomed ==
  ASSUME NEW m, Sound(m), NEW b, NEW pid \in Pid, m.state[pid] # "sem_blocked",
         b.state = m.state, b.sem_blocked = m.sem_blocked, b.prio = m.prio,
         SemQueue(b) = SemQueue(m), b.sem_used = m.sem_used, b.value = m.value,
         b.alarm_time = m.alarm_time
  PROVE  Doomed(m, b, pid)
<1>1. Marks(b, {pid})
  BY Zenon DEF Marks, Sound
<1>2. SortedBy(SemQueue(b), b.prio)
  BY DEF Sound
<1>3. \A s \in Sem : Enough(b, s)
  BY Zenon DEF Sound, Enough, Waits
<1>4. \A p \in Pid : m.sem_blocked[p] # -1 => b.state[p] = "sem_blocked"
  BY DEF Sound, Marks
<1> QED
  BY Zenon, <1>1, <1>2, <1>3, <1>4 DEF Doomed

\* exit is fine.
LEMMA ExitFine ==
  ASSUME NEW c \in UserPid, c \in Pid, NEW m \in Entered(c), ~m.fault, Sound(m),
         NEW retval \in Int
  PROVE  Fine(m, exit(m, retval))
<1> DEFINE rv == [m.retvalue EXCEPT ![c] = retval]
           a == [m EXCEPT !.retvalue = rv]
           r == die(a, c)
<1>1. m \in Held(c, <<>>, {c}, {}) /\ m.cur_pid = c
  BY HeldBasic DEF Entered
<1>2. exit(m, retval) = scheduler(r)
  BY <1>1 DEF exit
<1>3. rv \in [Pid -> Int]
  <2>1. m.retvalue \in [Pid -> Int]
    BY <1>1 DEF Held, Memory
  <2> QED
    BY <2>1
<1> HIDE DEF rv
<1>4. /\ a \in Memory /\ a.cur_pid = m.cur_pid /\ a.fault = m.fault
      /\ a.garbage_collection_list = m.garbage_collection_list
      /\ a.queue_table = m.queue_table /\ a.state = m.state
  BY Zenon, <1>1, <1>3 DEF Held, Memory
<1>5. /\ a.sem_blocked = m.sem_blocked /\ a.prio = m.prio
      /\ a.alarm_time = m.alarm_time /\ a.sem_used = m.sem_used
      /\ a.value = m.value
  BY <1>1 DEF Held, Memory
<1> HIDE DEF a
<1>6. a \in Held(c, <<>>, {}, {c})
  BY Zenon, <1>1, <1>4, Unmoved, Release
<1>7. Doomed(m, a, c)
  <2>1. Proper(m, {c}, {})
    BY <1>1, HeldDef
  <2>2. m.state[c] # "sem_blocked" /\ SemQueue(a) = SemQueue(m)
    BY <1>4, <2>1 DEF Proper, SemQueue
  <2> QED
    BY <1>4, <1>5, <2>2, OtherDoomed
<1>8. PICK g \in Seq(Pid) : r \in Held(c, g, {}, {}) /\ Range(g) \subseteq UserPid
  BY <1>6, Die
<1>9. Fine(m, r)
  BY <1>6, <1>7, DieFine
<1> HIDE DEF r
<1> QED
  BY <1>2, <1>8, <1>9, SchedulerFine

\* kill takes the mark of a blocked victim away and does a V for it.
LEMMA VictimDoomed ==
  ASSUME NEW c \in Pid, NEW m, Sound(m), NEW pid \in Pid, NEW id,
         NEW s \in Entered(c), s.fault = m.fault, s.state = m.state,
         s.sem_blocked = [m.sem_blocked EXCEPT ![pid] = -1], s.prio = m.prio,
         SemQueue(s) = SemQueue(m), s.sem_used = m.sem_used, s.value = m.value,
         s.alarm_time = m.alarm_time, m \in Memory, ~m.fault
  PROVE  Doomed(m, signal_death(s, id), pid)
<1> DEFINE t == signal_death(s, id)
<1>1. {c} \in SUBSET Pid /\ s \in Held(c, <<>>, {c}, {}) /\ s \in Memory
  BY HeldDef DEF Entered
<1>2. s.sem_blocked[pid] = -1 /\ \A p \in Pid : p # pid => s.sem_blocked[p] = m.sem_blocked[p]
  <2>1. DOMAIN m.sem_blocked = Pid
    BY Zenon DEF Memory
  <2> QED
    BY <2>1
<1>3. Marks(s, {pid})
  BY Zenon, <1>2 DEF Marks, Sound
<1>4. \A x \in Sem : Enough(s, x)
  <2> SUFFICES ASSUME NEW x \in Sem PROVE Enough(s, x)
    OBVIOUS
  <2>1. Waits(s, x) \subseteq Waits(m, x)
    BY <1>2, SemNotNone DEF Waits
  <2>2. Enough(m, x) /\ m.value[x] \in Int
    BY SizeAssumption DEF Sound, Memory, SHRT_MIN
  <2> QED
    BY Zenon, <2>1, <2>2, EnoughFewer
<1>5. SortedBy(SemQueue(s), s.prio)
  BY DEF Sound
<1>6. Signalled(s, t, id)
  BY Zenon, <1>1, <1>3, <1>4, SignalDeathLeaves
<1>7. t \in Held(c, <<>>, {c}, {})
  BY Zenon, <1>1, SignalDeath
<1>8. \A p \in Pid : m.sem_blocked[p] # -1 => m.state[p] = "sem_blocked"
  BY DEF Sound, Marks
<1> HIDE DEF t
<1>9. CASE t.fault
  BY Zenon, <1>9 DEF Doomed, t
<1>10. CASE t = s
  <2>1. \A p \in Pid \ {pid} : m.state[p] = "asleep" =>
          t.state[p] = "asleep" /\ t.alarm_time[p] = m.alarm_time[p]
    BY Zenon, <1>10
  <2>2. \A p, q \in Pid \ {pid} :
          (/\ m.sem_blocked[p] # -1 /\ m.sem_blocked[q] = m.sem_blocked[p]
           /\ t.state[p] # "sem_blocked" /\ t.state[q] = "sem_blocked")
            => Above(SemQueue(m), p, q)
    BY <1>8, <1>10
  <2> QED
    BY Zenon, <1>3, <1>4, <1>5, <1>10, <2>1, <2>2 DEF Doomed, t
<1>11. ASSUME id \in Sem, NEW a, Recount(s, a, id), Leaves(a, t, id),
              Rest(a, t), Enough(t, id), ~t.fault
       PROVE  Doomed(m, t, pid)
  <2>1. Marks(t, {pid})
    <3>1. Marks(a, {pid})
      BY Zenon, <1>3, <1>11 DEF Marks, Recount
    <3> QED
      BY Zenon, <1>11, <3>1, LeavesMarks
  <2>2. SortedBy(SemQueue(t), t.prio)
    <3>1. SortedBy(SemQueue(a), a.prio)
      BY Zenon, <1>5, <1>11 DEF Recount
    <3>2. SemQueue(t) \in Seq(Pid)
      BY Zenon, <1>7, <1>11, SemQueueState
    <3> QED
      BY Zenon, <1>11, <3>1, <3>2, LeavesSorted
  <2>3. \A x \in Sem : Enough(t, x)
    BY Zenon, <1>1, <1>4, <1>11, EnoughOthers
  <2>4. /\ t.alarm_time = m.alarm_time
        /\ \A p \in Pid :
             \/ t.state[p] = m.state[p] /\ t.sem_blocked[p] = s.sem_blocked[p]
             \/ /\ m.state[p] = "sem_blocked" /\ s.sem_blocked[p] = id
                /\ t.state[p] = "actionable" /\ t.sem_blocked[p] = -1
    BY <1>11 DEF Leaves, Recount
  <2>5. \A p \in Pid \ {pid} : m.state[p] = "asleep" =>
          t.state[p] = "asleep" /\ t.alarm_time[p] = m.alarm_time[p]
    BY <2>4
  <2>6. ASSUME NEW p \in Pid \ {pid}, NEW q \in Pid \ {pid},
               m.sem_blocked[p] # -1, m.sem_blocked[q] = m.sem_blocked[p],
               t.state[p] # "sem_blocked", t.state[q] = "sem_blocked"
        PROVE  Above(SemQueue(m), p, q)
    <3>1. m.state[p] = "sem_blocked"
      BY <1>8, <2>6
    <3>2. s.sem_blocked[p] = id /\ t.sem_blocked[p] = -1
      BY <2>4, <2>6, <3>1
    <3>3. t.sem_blocked[q] = id
      BY <1>2, <2>4, <2>6, <3>2
    <3>4. \A v, w \in Pid :
            (/\ s.sem_blocked[v] = id /\ t.sem_blocked[v] = -1
             /\ t.sem_blocked[w] = id) => Above(SemQueue(m), v, w)
      BY <1>11 DEF Leaves, Recount
    <3> QED
      BY <3>2, <3>3, <3>4
  <2> QED
    BY Zenon, <2>1, <2>2, <2>3, <2>5, <2>6 DEF Doomed
<1> QED
  BY Zenon, <1>6, <1>9, <1>10, <1>11 DEF Signalled, t

\* kill is fine: the death of a process that waits costs the others nothing.
LEMMA KillFine ==
  ASSUME NEW c \in UserPid, c \in Pid, NEW m \in Entered(c), ~m.fault, Sound(m),
         NEW pid \in Pid
  PROVE  Fine(m, kill(m, pid))
<1> DEFINE rv == [m.retvalue EXCEPT ![pid] = KILL_RETVAL]
           a == [m EXCEPT !.retvalue = rv]
           sb == [a.sem_blocked EXCEPT ![pid] = -1]
           s == [a EXCEPT !.sem_blocked = sb]
           t == signal_death(s, m.sem_blocked[pid])
           b == IF m.state[pid] = "sem_blocked" THEN t ELSE a
           d == unchain_from(b, pid, m.state[pid])
           e == die(d, pid)
           r == garbage_collect(e)
<1>1. /\ m \in Held(c, <<>>, {c}, {}) /\ m.cur_pid = c /\ m \in Memory
      /\ m.garbage_collection_list = <<>>
  BY HeldBasic, HeldDef DEF Entered
<1>2. kill(m, pid) = IF pid \notin UserPid THEN m
                     ELSE IF pid = c THEN exit(m, KILL_RETVAL)
                     ELSE IF m.state[pid] \in {"zombie", "freepid"} THEN a
                     ELSE r
  BY <1>1 DEF kill
<1>3. KILL_RETVAL \in Int
  BY DEF KILL_RETVAL
<1>4. rv \in [Pid -> Int]
  <2>1. m.retvalue \in [Pid -> Int]
    BY <1>1 DEF Memory
  <2> QED
    BY <1>3, <2>1
<1> HIDE DEF rv
<1>5. /\ a \in Memory /\ a.cur_pid = m.cur_pid /\ a.fault = m.fault
      /\ a.garbage_collection_list = m.garbage_collection_list
      /\ a.queue_table = m.queue_table /\ a.state = m.state
  BY Zenon, <1>1, <1>4 DEF Memory
<1>6. /\ a.sem_blocked = m.sem_blocked /\ a.prio = m.prio
      /\ a.alarm_time = m.alarm_time /\ a.sem_used = m.sem_used
      /\ a.value = m.value
  BY <1>1 DEF Memory
<1> HIDE DEF a
<1>7. a \in Held(c, <<>>, {c}, {})
  BY <1>1, <1>5, Unmoved
<1>8. sb = [m.sem_blocked EXCEPT ![pid] = -1] /\ sb \in [Pid -> Sem \cup {-1}]
  BY <1>1, <1>6 DEF Memory
<1> HIDE DEF sb
<1>9. /\ s \in Memory /\ s.cur_pid = a.cur_pid /\ s.fault = a.fault
      /\ s.garbage_collection_list = a.garbage_collection_list
      /\ s.queue_table = a.queue_table /\ s.state = a.state
  BY Zenon, <1>5, <1>8 DEF Memory
<1>10. /\ s.sem_blocked = sb /\ s.prio = a.prio
       /\ s.alarm_time = a.alarm_time /\ s.sem_used = a.sem_used
       /\ s.value = a.value
  BY <1>5 DEF Memory
<1> HIDE DEF s
<1>11. s \in Entered(c) /\ SemQueue(s) = SemQueue(m) /\ SemQueue(a) = SemQueue(m)
  BY <1>5, <1>7, <1>9, Unmoved DEF Entered, SemQueue
<1>12. t \in Held(c, <<>>, {c}, {})
  BY <1>11, SignalDeath DEF Entered
<1>13. Doomed(m, t, pid)
  BY <1>1, <1>5, <1>6, <1>8, <1>9, <1>10, <1>11, VictimDoomed
<1> HIDE DEF t
<1>14. b \in Held(c, <<>>, {c}, {}) /\ Doomed(m, b, pid)
  <2>1. m.state[pid] # "sem_blocked" => Doomed(m, a, pid)
    BY <1>5, <1>6, <1>11, OtherDoomed
  <2> QED
    BY <1>7, <1>12, <1>13, <2>1
<1> HIDE DEF b
<1>15. m.state[pid] \in list_type
  BY <1>1, HeldQueues
<1>16. d \in Held(c, <<>>, {c}, {pid}) /\ Doomed(m, d, pid)
  BY <1>14, <1>15, UnchainFrom, UnchainDoomed
<1> HIDE DEF d
<1>17. ASSUME pid \in UserPid PROVE Fine(m, r)
  <2>1. PICK g \in Seq(Pid) : e \in Held(c, g, {c}, {}) /\ Range(g) \subseteq UserPid
    BY Zenon, <1>16, <1>17, Die
  <2>2. Fine(m, e)
    BY <1>16, <1>17, DieFine
  <2> HIDE DEF e
  <2>3. Buried(e) /\ e \in Memory
    BY <2>1, <2>2, HeldDef DEF Fine, Buried
  <2>4. Drift(e, r) /\ Buried(r)
    BY <2>1, <2>3, GarbageCollectDrift
  <2> HIDE DEF r
  <2> QED
    BY <2>2, <2>3, <2>4, DriftFine
<1>18. Fine(m, a)
  <2>1. Apart(m, a)
    BY <1>5, <1>6, <1>11 DEF Apart
  <2> QED
    BY <1>1, <1>5, <1>6, <2>1, NoCounterFine
<1>19. Fine(m, m) /\ Fine(m, exit(m, KILL_RETVAL))
  BY <1>3, StayFine, ExitFine
<1> HIDE DEF r
<1> QED
  BY <1>2, <1>17, <1>18, <1>19

-----------------------------------------------------------------------------
(***************************************************************************)
(* The invariant is inductive, and every step is fine.                     *)
(***************************************************************************)

WakeInv(m) == Settled(m) /\ (~m.fault => Sound(m) /\ Buried(m))

\* What one step does: nothing to the processes, or what is fine.
FineStep(m, r) == r.state = m.state \/ (NotEarly(m, r) /\ InOrder(m, r))

\* Whichever system call, interrupt or collection comes next, it is fine.
LEMMA WakeStep ==
  ASSUME WakeInv(k), [Next]_k
  PROVE  WakeInv(k') /\ FineStep(k, k')
<1>1. Settled(k) /\ Settled(k')
  BY SettledStep DEF WakeInv
<1>2. ASSUME NEW r, Fine(k, r), Run(r) PROVE WakeInv(k') /\ FineStep(k, k')
  <2>1. CASE r.fault
    <3>1. k' = panic(k)
      BY <1>2, <2>1 DEF Run
    <3>2. panic(k).fault /\ panic(k).state = k.state
      BY <1>1 DEF panic, Settled, Memory
    <3> QED
      BY <1>1, <3>1, <3>2 DEF WakeInv, FineStep
  <2>2. CASE ~r.fault
    <3>1. k' = r
      BY <1>2, <2>2 DEF Run
    <3> QED
      BY <1>1, <1>2, <2>2, <3>1 DEF WakeInv, FineStep, Fine
  <2> QED
    BY <2>1, <2>2
<1>3. ASSUME ~k.fault, k.cur_pid \in UserPid
      PROVE  /\ k.cur_pid \in Pid /\ k.cur_pid # 0
             /\ k \in Entered(k.cur_pid) /\ Sound(k)
  <2>1. k.cur_pid \in Pid /\ k.cur_pid # 0
    BY <1>3, SizeAssumption DEF Pid, UserPid
  <2> QED
    BY <1>1, <1>3, <2>1, Enter DEF WakeInv
<1>4. ASSUME NEW count \in Counts PROVE count \in SHRT_MIN..SHRT_MAX
  BY InputAssumption
<1>5. CASE Start
  <2>1. PICK prio \in Prios, alloc \in {TRUE, ~AllocFails} : Run(start(k, prio, alloc))
    BY Zenon, <1>5 DEF Start
  <2>2. alloc \in BOOLEAN
    BY Zenon, InputAssumption
  <2>3. Fine(k, start(k, prio, alloc))
    BY <1>3, <1>5, <2>2, StartFine DEF Start, InUser
  <2> QED
    BY <1>2, <2>1, <2>3
<1>6. CASE Exit
  <2>1. PICK retval \in RetVals : Run(exit(k, retval))
    BY <1>6 DEF Exit
  <2>2. retval \in Int
    BY InputAssumption
  <2>3. Fine(k, exit(k, retval))
    BY <1>3, <1>6, <2>2, ExitFine DEF Exit, InUser
  <2> QED
    BY <1>2, <2>1, <2>3
<1>7. CASE Kill
  <2>1. PICK pid \in Pid : Run(kill(k, pid))
    BY <1>7 DEF Kill
  <2>2. Fine(k, kill(k, pid))
    BY <1>3, <1>7, KillFine DEF Kill, InUser
  <2> QED
    BY <1>2, <2>1, <2>2
<1>8. CASE Waitpid
  <2>1. PICK pid \in Pid \cup {-1} : Run(waitpid(k, pid))
    BY <1>8 DEF Waitpid
  <2>2. Fine(k, waitpid(k, pid))
    BY <1>3, <1>8, WaitpidFine DEF Waitpid, InUser
  <2> QED
    BY <1>2, <2>1, <2>2
<1>9. CASE ResumeWaitpid
  <2>1. Fine(k, waitpid_end(k))
    <3>1. k \in Entered(k.cur_pid) /\ k.cur_pid \in Pid /\ ~k.fault /\ Sound(k)
      BY <1>3, <1>9 DEF ResumeWaitpid
    <3>2. Fine(k, k)
      BY <3>1, StayFine
    <3> QED
      BY <3>1, <3>2, WaitpidEndFine
  <2> QED
    BY <1>2, <1>9, <2>1 DEF ResumeWaitpid
<1>10. CASE Chprio
  <2>1. PICK pid \in Pid, newprio \in Prios : Run(chprio(k, pid, newprio))
    BY <1>10 DEF Chprio
  <2>2. Fine(k, chprio(k, pid, newprio))
    BY <1>3, <1>10, ChprioFine DEF Chprio, InUser
  <2> QED
    BY <1>2, <2>1, <2>2
<1>11. CASE WaitClock
  <2>1. PICK clock \in Alarms : Run(wait_clock(k, clock))
    BY <1>11 DEF WaitClock
  <2>2. clock \in 0..(CLOCK_MOD - 1)
    BY InputAssumption
  <2>3. Fine(k, wait_clock(k, clock))
    BY <1>3, <1>11, <2>2, WaitClockFine DEF WaitClock, InUser
  <2> QED
    BY <1>2, <2>1, <2>3
<1>12. CASE Screate
  <2>1. PICK count \in Counts : Run(screate(k, count))
    BY <1>12 DEF Screate
  <2>2. Fine(k, screate(k, count))
    BY <1>3, <1>4, <1>12, ScreateFine DEF Screate, InUser
  <2> QED
    BY <1>2, <2>1, <2>2
<1>13. CASE Sdelete
  <2>1. PICK id \in Sem : Run(sdelete(k, id))
    BY <1>13 DEF Sdelete
  <2>2. Fine(k, sdelete(k, id))
    BY <1>3, <1>13, SdeleteFine DEF Sdelete, InUser
  <2> QED
    BY <1>2, <2>1, <2>2
<1>14. CASE Sreset
  <2>1. PICK id \in Sem, count \in Counts : Run(sreset(k, id, count))
    BY <1>14 DEF Sreset
  <2>2. Fine(k, sreset(k, id, count))
    BY <1>3, <1>4, <1>14, SresetFine DEF Sreset, InUser
  <2> QED
    BY <1>2, <2>1, <2>2
<1>15. CASE Signal
  <2>1. PICK id \in Sem : Run(signal(k, id))
    BY <1>15 DEF Signal
  <2>2. Fine(k, signal(k, id))
    BY <1>3, <1>15, SignalFine DEF Signal, InUser
  <2> QED
    BY <1>2, <2>1, <2>2
<1>16. CASE Signaln
  <2>1. PICK id \in Sem, count \in Counts : Run(signaln(k, id, count))
    BY <1>16 DEF Signaln
  <2>2. Fine(k, signaln(k, id, count))
    BY <1>3, <1>4, <1>16, SignalnFine DEF Signaln, InUser
  <2> QED
    BY <1>2, <2>1, <2>2
<1>17. CASE Wait
  <2>1. PICK id \in Sem : Run(wait(k, id))
    BY <1>17 DEF Wait
  <2>2. Fine(k, wait(k, id))
    BY <1>3, <1>17, WaitFine DEF Wait, InUser
  <2> QED
    BY <1>2, <2>1, <2>2
<1>18. CASE TryWait
  <2>1. PICK id \in Sem : Run(try_wait(k, id))
    BY <1>18 DEF TryWait
  <2>2. Fine(k, try_wait(k, id))
    BY <1>3, <1>18, WaitFine DEF TryWait, InUser
  <2> QED
    BY <1>2, <2>1, <2>2
<1>19. CASE ClockInterrupt
  <2>1. ~k.fault /\ k.cur_pid \in Pid /\ Run(it32_clock_body(k))
    BY <1>19 DEF ClockInterrupt
  <2>2. Fine(k, it32_clock_body(k))
    BY <1>1, <2>1, Enter, ClockFine DEF WakeInv
  <2> QED
    BY <1>2, <2>1, <2>2
<1>20. CASE GarbageCollector
  <2>1. /\ ~k.fault /\ k.cur_pid = PID_GARBAGE
        /\ Run(scheduler(garbage_collect(k)))
    BY <1>20 DEF GarbageCollector
  <2>2. Fine(k, scheduler(garbage_collect(k)))
    BY <1>1, <2>1, CollectorFine DEF WakeInv
  <2> QED
    BY <1>2, <2>1, <2>2
<1>21. CASE UNCHANGED k
  BY <1>21 DEF FineStep
<1> QED
  BY <1>5, <1>6, <1>7, <1>8, <1>9, <1>10, <1>11, <1>12, <1>13,
     <1>14, <1>15, <1>16, <1>17, <1>18, <1>19, <1>20, <1>21 DEF Next, SemNext

\* WakeInv holds from the boot on.
LEMMA WakeInit == Init => WakeInv(k)
BY InitSettled, InitFine DEF Init, WakeInv

\* No wake-up of a semaphore is lost: after every system call, interrupt and
\* collection at most -value processes are blocked on a semaphore, none on one
\* that does not exist, and the field sem_blocked says which.
THEOREM WakeupsKept == Spec => []NoLostWakeup
<1>1. WakeInv(k) => NoLostWakeup
  <2> SUFFICES ASSUME WakeInv(k), ~k.fault
               PROVE  /\ \A p \in Pid : k.state[p] = "sem_blocked" <=> k.sem_blocked[p] # -1
                      /\ \A s \in Sem : Blocked(s) # {} =>
                           s \in k.sem_used /\ Cardinality(Blocked(s)) <= -k.value[s]
    BY DEF NoLostWakeup
  <2>1. Sound(k)
    BY DEF WakeInv
  <2>2. \A p \in Pid : k.state[p] = "sem_blocked" <=> k.sem_blocked[p] # -1
    BY <2>1 DEF Sound, Marks
  <2>3. ASSUME NEW s \in Sem PROVE Blocked(s) = Waits(k, s)
    BY <2>2, SemNotNone DEF Blocked, Waits
  <2>4. ASSUME NEW s \in Sem, Blocked(s) # {}
        PROVE  s \in k.sem_used /\ Cardinality(Blocked(s)) <= -k.value[s]
    <3>1. Blocked(s) = Waits(k, s) /\ Enough(k, s)
      BY <2>1, <2>3 DEF Sound
    <3> QED
      BY <2>4, <3>1 DEF Enough
  <2> QED
    BY <2>2, <2>4
<1>2. WakeInv(k) /\ [Next]_k => WakeInv(k)'
  BY WakeStep
<1> QED
  BY <1>1, <1>2, WakeInit, PTL DEF Spec

\* A sleeper that becomes actionable does so after its alarm: wait_clock sorts
\* it into the queue of the sleepers, and no call but the scheduler's loop over
\* that queue takes it out alive.
THEOREM SleepersNotEarly == Spec => NoEarlyWake
<1> DEFINE A == \A p \in UserPid :
                  k.state[p] = "asleep" /\ k'.state[p] = "actionable" =>
                    k.alarm_time[p] < ToInt(k'.clock_ticks)
<1>1. WakeInv(k) /\ [Next]_k => WakeInv(k)' /\ A
  <2> SUFFICES ASSUME WakeInv(k), [Next]_k PROVE WakeInv(k') /\ A
    OBVIOUS
  <2>1. WakeInv(k') /\ FineStep(k, k')
    BY WakeStep
  <2>2. UserPid \subseteq Pid
    BY SizeAssumption DEF UserPid, Pid
  <2> QED
    BY <2>1, <2>2 DEF FineStep, NotEarly
<1>2. A => [A]_k
  OBVIOUS
<1> QED
  BY <1>1, <1>2, WakeInit, PTL DEF Spec, NoEarlyWake

\* Processes leave a semaphore in the order of their priorities, those of one
\* priority in the order they came: signal, signaln, sreset, sdelete and kill
\* take the one nearest to the top, and chprio keeps the queue sorted.
THEOREM WokenInOrder == Spec => WakeInOrder
<1> DEFINE B == \A s \in Sem : \A p, q \in Blocked(s) :
                  k'.state[p] = "actionable" /\ k'.state[q] = "sem_blocked" =>
                    LET w == k.queue_table["sem_blocked"]
                    IN  /\ k.prio[p] >= k.prio[q]
                        /\ \E i, j \in DOMAIN w : w[i] = q /\ w[j] = p /\ i < j
<1>1. WakeInv(k) /\ [Next]_k => WakeInv(k)' /\ B
  <2> SUFFICES ASSUME WakeInv(k), [Next]_k PROVE WakeInv(k') /\ B
    OBVIOUS
  <2>1. WakeInv(k') /\ FineStep(k, k')
    BY WakeStep
  <2>2. ASSUME NEW s \in Sem, NEW p \in Blocked(s), NEW q \in Blocked(s),
               k'.state[p] = "actionable", k'.state[q] = "sem_blocked"
        PROVE  /\ k.prio[p] >= k.prio[q]
               /\ \E i, j \in DOMAIN SemQueue(k) :
                    SemQueue(k)[i] = q /\ SemQueue(k)[j] = p /\ i < j
    <3>1. /\ p \in Pid /\ q \in Pid /\ k.sem_blocked[p] = s /\ k.sem_blocked[q] = s
          /\ k.state[p] = "sem_blocked" /\ s # -1
      BY <2>2, SemNotNone DEF Blocked
    <3>2. Above(SemQueue(k), p, q)
      BY <2>1, <2>2, <3>1 DEF FineStep, InOrder
    <3>3. ~k.fault
      <4>1. k.fault => k' = k
        BY Zenon DEF Next, SemNext, Start, Exit, Kill, Waitpid, ResumeWaitpid, Chprio,
               WaitClock, Screate, Sdelete, Sreset, Signal, Signaln, Wait, TryWait,
               ClockInterrupt, GarbageCollector, InUser
      <4> QED
        BY <2>2, <3>1, <4>1
    <3>4. SortedBy(SemQueue(k), k.prio)
      BY <3>3 DEF WakeInv, Sound
    <3>5. PICK i \in DOMAIN SemQueue(k), j \in DOMAIN SemQueue(k) :
            SemQueue(k)[i] = q /\ SemQueue(k)[j] = p /\ i < j
      BY <3>2 DEF Above
    <3>6. k.prio[q] <= k.prio[p]
      BY <3>4, <3>5 DEF SortedBy
    <3>7. k.prio[p] \in Int /\ k.prio[q] \in Int
      <4>1. k \in Memory
        BY DEF WakeInv, Settled
      <4> QED
        BY <3>1, <4>1, SizeAssumption DEF Memory
    <3> QED
      BY <3>5, <3>6, <3>7
  <2> QED
    BY <2>1, <2>2 DEF SemQueue
<1>2. B => [B]_k
  OBVIOUS
<1> QED
  BY <1>1, <1>2, WakeInit, PTL DEF Spec, WakeInOrder

=============================================================================
