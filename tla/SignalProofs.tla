---------------------------- MODULE SignalProofs ----------------------------
(***************************************************************************)
(* The semaphore calls: who is unblocked, in which order, and how many.    *)
(***************************************************************************)
EXTENDS KernelProofs

-----------------------------------------------------------------------------
(***************************************************************************)
(* Unblocking.                                                             *)
(***************************************************************************)

\* Processes may leave semaphore sem, each above those that stay.
Leaves(m, x, sem) ==
  \/ x.fault
  \/ /\ ~m.fault /\ x.clock_ticks = m.clock_ticks /\ x.prio = m.prio
     /\ x.alarm_time = m.alarm_time
     /\ \A p \in Pid :
          \/ x.state[p] = m.state[p] /\ x.sem_blocked[p] = m.sem_blocked[p]
          \/ /\ m.state[p] = "sem_blocked" /\ m.sem_blocked[p] = sem
             /\ x.state[p] = "actionable" /\ x.sem_blocked[p] = -1
     /\ \A p, q \in Pid :
          (/\ m.sem_blocked[p] = sem /\ x.sem_blocked[p] = -1
           /\ x.sem_blocked[q] = sem) => Above(SemQueue(m), p, q)
     /\ \A p, q \in Pid : Above(SemQueue(x), p, q) => Above(SemQueue(m), p, q)

\* One of those that wait for sem goes, or there is none.
Fewer(m, x, sem) ==
  \/ Waits(m, sem) = {} /\ Waits(x, sem) = {}
  \/ \E p \in Waits(m, sem) : Waits(x, sem) = Waits(m, sem) \ {p}

\* Nobody needs to leave.
LEMMA LeavesStay ==
  ASSUME NEW m, NEW sem \in Sem
  PROVE  Leaves(m, m, sem)
BY SemNotNone DEF Leaves

\* Leaving twice.
LEMMA LeavesTrans ==
  ASSUME NEW m, NEW a, NEW x, NEW sem \in Sem, Leaves(m, a, sem), Leaves(a, x, sem)
  PROVE  Leaves(m, x, sem)
<1> SUFFICES ASSUME ~x.fault PROVE Leaves(m, x, sem)
  BY Zenon DEF Leaves
<1>1. ~a.fault /\ ~m.fault
  BY Zenon DEF Leaves
<1>2. ASSUME NEW p \in Pid
      PROVE  \/ x.state[p] = m.state[p] /\ x.sem_blocked[p] = m.sem_blocked[p]
             \/ /\ m.state[p] = "sem_blocked" /\ m.sem_blocked[p] = sem
                /\ x.state[p] = "actionable" /\ x.sem_blocked[p] = -1
  <2>1. /\ \/ x.state[p] = a.state[p] /\ x.sem_blocked[p] = a.sem_blocked[p]
           \/ /\ a.state[p] = "sem_blocked" /\ a.sem_blocked[p] = sem
              /\ x.state[p] = "actionable" /\ x.sem_blocked[p] = -1
        /\ \/ a.state[p] = m.state[p] /\ a.sem_blocked[p] = m.sem_blocked[p]
           \/ /\ m.state[p] = "sem_blocked" /\ m.sem_blocked[p] = sem
              /\ a.state[p] = "actionable" /\ a.sem_blocked[p] = -1
    BY Zenon, <1>1 DEF Leaves
  <2> QED
    BY <2>1
<1>3. ASSUME NEW p \in Pid, NEW q \in Pid, m.sem_blocked[p] = sem,
             x.sem_blocked[p] = -1, x.sem_blocked[q] = sem
      PROVE  Above(SemQueue(m), p, q)
  <2>1. a.sem_blocked[q] = sem
    BY <1>1, <1>3, SemNotNone DEF Leaves
  <2>2. CASE a.sem_blocked[p] = -1
    BY Zenon, <1>1, <1>3, <2>1, <2>2 DEF Leaves
  <2>3. CASE a.sem_blocked[p] # -1
    <3>1. a.sem_blocked[p] = sem
      BY Zenon, <1>1, <1>3, <2>3 DEF Leaves
    <3>2. Above(SemQueue(a), p, q)
      BY Zenon, <1>1, <1>3, <3>1 DEF Leaves
    <3> QED
      BY Zenon, <1>1, <3>2 DEF Leaves
  <2> QED
    BY <2>2, <2>3
<1>4. \A p, q \in Pid : Above(SemQueue(x), p, q) => Above(SemQueue(m), p, q)
  BY Zenon, <1>1 DEF Leaves
<1>5. /\ x.clock_ticks = m.clock_ticks /\ x.prio = m.prio
      /\ x.alarm_time = m.alarm_time
  BY Zenon, <1>1 DEF Leaves
<1> QED
  BY Zenon, <1>1, <1>2, <1>3, <1>4, <1>5 DEF Leaves

\* A process that leaves loses its mark.
LEMMA LeavesMarks ==
  ASSUME NEW m, NEW x, NEW sem, NEW X, Leaves(m, x, sem), Marks(m, X), ~x.fault
  PROVE  Marks(x, X)
<1> SUFFICES ASSUME NEW p \in Pid
             PROVE  x.sem_blocked[p] # -1 <=>
                      (x.state[p] = "sem_blocked" /\ p \notin X)
  BY DEF Marks
<1>1. \/ x.state[p] = m.state[p] /\ x.sem_blocked[p] = m.sem_blocked[p]
      \/ x.state[p] = "actionable" /\ x.sem_blocked[p] = -1
  BY DEF Leaves
<1> QED
  BY <1>1 DEF Marks

\* find_by_sem returns the process nearest to the top that has the mark.
LEMMA FindBySemTop ==
  ASSUME NEW c, NEW g, NEW R, NEW X, NEW m \in Held(c, g, R, X), NEW sem
  PROVE  LET q == SemQueue(m)
             p == find_by_sem(m, sem)
         IN  \/ p = NULL /\ \A j \in 1..Len(q) : m.sem_blocked[q[j]] # sem
             \/ \E i \in 1..Len(q) :
                  /\ p = q[i] /\ m.sem_blocked[q[i]] = sem
                  /\ \A j \in 1..Len(q) : m.sem_blocked[q[j]] = sem => j <= i
<1> DEFINE q == SemQueue(m)
           I == {i \in 1..Len(q) : m.sem_blocked[q[i]] = sem}
<1>1. q \in Seq(Pid)
  BY HeldQueues DEF list_type, SemQueue
<1>2. find_by_sem(m, sem) =
        IF I # {} THEN (IF Max(I) = 0 THEN NULL ELSE q[Max(I)]) ELSE NULL
  BY Zenon DEF find_by_sem, LastWhere, SemQueue
<1> HIDE DEF q
<1>3. Len(q) \in Nat /\ I \in SUBSET (0..Len(q))
  BY <1>1
<1>4. I # {} => Max(I) \in I /\ \A j \in I : j <= Max(I)
  <2> HIDE DEF I
  <2> QED
    BY Zenon, <1>3, MaxNat
<1>5. CASE I = {}
  BY <1>2, <1>5 DEF q
<1>6. CASE I # {}
  <2> DEFINE i == Max(I)
  <2>1. /\ i \in 1..Len(q) /\ m.sem_blocked[q[i]] = sem
        /\ \A j \in 1..Len(q) : m.sem_blocked[q[j]] = sem => j <= i
    BY <1>4, <1>6
  <2>2. find_by_sem(m, sem) = IF i = 0 THEN NULL ELSE q[i]
    BY <1>2, <1>6
  <2> HIDE DEF i
  <2>3. find_by_sem(m, sem) = q[i]
    BY <1>3, <2>1, <2>2
  <2> QED
    BY <2>1, <2>3 DEF q
<1> QED
  BY Zenon, <1>5, <1>6

\* A process with a mark is in the queue.
LEMMA MarkQueued ==
  ASSUME NEW c, NEW g, NEW R, NEW m \in Held(c, g, R, {}), ~m.fault, NEW X,
         Marks(m, X), NEW p \in Pid, m.sem_blocked[p] # -1
  PROVE  m.state[p] = "sem_blocked" /\ \E i \in 1..Len(SemQueue(m)) : SemQueue(m)[i] = p
<1>1. m.state[p] = "sem_blocked"
  BY DEF Marks
<1>2. p \notin R
  <2>1. Proper(m, R, {})
    BY HeldDef
  <2> QED
    BY <1>1, <2>1 DEF Proper
<1>3. p \in Range(SemQueue(m)) /\ SemQueue(m) \in Seq(Pid)
  BY <1>1, <1>2, SemQueueState
<1> QED
  BY <1>1, <1>3 DEF Range

\* The fields unblock_one changes when it finds process p.
Unblocking(m, r, p) ==
  \/ r.fault
  \/ /\ Rest(m, r) /\ r.alarm_time = m.alarm_time
     /\ r.state = [m.state EXCEPT ![p] = "actionable"]
     /\ r.sem_blocked = [m.sem_blocked EXCEPT ![p] = -1]
     /\ SemQueue(r) = queue_del(p, SemQueue(m))

\* unblock_one makes that process actionable.
LEMMA UnblockFields ==
  ASSUME NEW c, NEW g, NEW R \in SUBSET Pid, NEW m \in Held(c, g, R, {}),
         NEW sem, NEW wake \in {0, -3, -4}, NEW p \in Pid, p = find_by_sem(m, sem), p # NULL
  PROVE  Unblocking(m, unblock_one(m, sem, wake), p)
<1> DEFINE a == [m EXCEPT !.awakener[p] = wake, !.sem_blocked[p] = -1]
           b == unchain(a, p)
           r == place(b, p, "actionable", m.prio)
<1>1. unblock_one(m, sem, wake) = r
  BY DEF unblock_one
<1>2. m \in Memory
  BY HeldDef
<1>3. /\ a \in Memory /\ a.cur_pid = m.cur_pid /\ a.fault = m.fault
      /\ a.garbage_collection_list = m.garbage_collection_list
      /\ a.queue_table = m.queue_table /\ a.state = m.state
  BY Zenon, <1>2 DEF Memory
<1>4. /\ a.alarm_time = m.alarm_time /\ Rest(m, a)
      /\ a.sem_blocked = [m.sem_blocked EXCEPT ![p] = -1]
  BY <1>2 DEF Memory, Rest
<1> HIDE DEF a
<1>5. a \in Held(c, g, R, {})
  BY <1>3, Unmoved
<1>6. Unchaining(a, b, p)
  BY Zenon, <1>3, UnchainFields
<1>7. b \in Held(c, g, R, {p})
  BY <1>5, Unchain
<1> HIDE DEF b
<1>8. b \in Memory
  BY <1>7, HeldDef
<1>9. Placing(b, r, p, "actionable", m.prio)
  BY <1>8, PlaceFields
<1>10. "actionable" \in list_type \ {"sem_blocked"} /\ "sem_blocked" \in list_type
  BY DEF list_type
<1>11. r.fault \/ SemQueue(r) = SemQueue(b)
  BY <1>8, <1>9, <1>10, SemQueueElse
<1> HIDE DEF r
<1>12. Unblocking(m, r, p)
  <2> SUFFICES ASSUME ~r.fault PROVE Unblocking(m, r, p)
    BY DEF Unblocking
  <2>1. /\ ~b.fault /\ Quiet(b, r)
        /\ r.state = [b.state EXCEPT ![p] = "actionable"]
    BY Zenon, <1>9 DEF Placing
  <2>2. /\ Quiet(a, b) /\ b.state = a.state
        /\ b.queue_table = [s \in list_type |-> queue_del(p, a.queue_table[s])]
    BY Zenon, <1>6, <2>1 DEF Unchaining
  <2>3. SemQueue(b) = queue_del(p, SemQueue(m))
    BY <1>3, <1>10, <2>2 DEF SemQueue
  <2> QED
    BY <1>3, <1>4, <1>11, <2>1, <2>2, <2>3 DEF Unblocking, Quiet, Rest
<1> QED
  BY <1>1, <1>12

\* One turn of the unblocking loops lets the process nearest to the top go.
LEMMA UnblockOneLeaves ==
  ASSUME NEW c, NEW g, NEW R \in SUBSET Pid, NEW m \in Held(c, g, R, {}),
         ~m.fault, NEW X, Marks(m, X), NEW sem \in Sem,
         NEW wake \in {0, -3, -4}
  PROVE  LET r == unblock_one(m, sem, wake)
         IN  Leaves(m, r, sem) /\ (r.fault \/ (Rest(m, r) /\ Fewer(m, r, sem)))
<1> DEFINE r == unblock_one(m, sem, wake)
           p == find_by_sem(m, sem)
           q == SemQueue(m)
<1>1. sem # -1 /\ q \in Seq(Pid)
  BY SemNotNone, SemQueueState
<1>2. \A w \in Waits(m, sem) :
        m.state[w] = "sem_blocked" /\ \E i \in 1..Len(q) : q[i] = w
  BY <1>1, MarkQueued DEF Waits
<1>3. \/ p = NULL /\ \A j \in 1..Len(q) : m.sem_blocked[q[j]] # sem
      \/ \E i \in 1..Len(q) :
           /\ p = q[i] /\ m.sem_blocked[q[i]] = sem
           /\ \A j \in 1..Len(q) : m.sem_blocked[q[j]] = sem => j <= i
  BY FindBySemTop
<1>4. CASE p = NULL /\ \A j \in 1..Len(q) : m.sem_blocked[q[j]] # sem
  <2>1. r = m
    BY <1>4 DEF unblock_one
  <2>2. Waits(m, sem) = {}
    <3> SUFFICES ASSUME NEW w \in Waits(m, sem) PROVE FALSE
      OBVIOUS
    <3>1. m.sem_blocked[w] = sem
      BY DEF Waits
    <3> QED
      BY <1>2, <1>4, <3>1
  <2> HIDE DEF r, p, q
  <2> QED
    BY <2>1, <2>2, LeavesStay DEF Fewer, Rest, r
<1>5. CASE \E i \in 1..Len(q) :
             /\ p = q[i] /\ m.sem_blocked[q[i]] = sem
             /\ \A j \in 1..Len(q) : m.sem_blocked[q[j]] = sem => j <= i
  <2>1. PICK i \in 1..Len(q) :
             /\ p = q[i] /\ m.sem_blocked[q[i]] = sem
             /\ \A j \in 1..Len(q) : m.sem_blocked[q[j]] = sem => j <= i
    BY <1>5
  <2>2. p \in Pid /\ p # NULL /\ p \in Waits(m, sem) /\ m.sem_blocked[p] = sem
    <3>1. p \in Pid
      BY <1>1, <2>1
    <3> QED
      BY <2>1, <3>1 DEF Waits, Pid, NULL
  <2>3. Unblocking(m, r, p)
    BY Zenon, <2>2, UnblockFields
  <2> HIDE DEF r, p
  <2>4. m.state[p] = "sem_blocked"
    BY Zenon, <1>2, <2>2
  <2>5. SUFFICES ASSUME ~r.fault
                 PROVE  Leaves(m, r, sem) /\ Rest(m, r) /\ Fewer(m, r, sem)
    BY Zenon DEF Leaves, r
  <2>6. /\ Rest(m, r) /\ r.alarm_time = m.alarm_time
        /\ r.state = [m.state EXCEPT ![p] = "actionable"]
        /\ r.sem_blocked = [m.sem_blocked EXCEPT ![p] = -1]
        /\ SemQueue(r) = queue_del(p, q)
    BY Zenon, <2>3, <2>5 DEF Unblocking
  <2>7. /\ m.state \in [Pid -> list_type]
        /\ m.sem_blocked \in [Pid -> Sem \cup {-1}]
    BY DEF Held, Memory
  <2>8. \A w \in Pid :
          \/ r.state[w] = m.state[w] /\ r.sem_blocked[w] = m.sem_blocked[w]
          \/ /\ m.state[w] = "sem_blocked" /\ m.sem_blocked[w] = sem
             /\ r.state[w] = "actionable" /\ r.sem_blocked[w] = -1
    BY Zenon, <2>2, <2>4, <2>6, <2>7
  <2>9. Waits(r, sem) = Waits(m, sem) \ {p}
    BY Zenon, <1>1, <2>2, <2>6, <2>7 DEF Waits
  <2>10. ASSUME NEW v \in Pid, NEW w \in Pid, m.sem_blocked[v] = sem,
                r.sem_blocked[v] = -1, r.sem_blocked[w] = sem
         PROVE  Above(q, v, w)
    <3>1. v = p /\ w # p /\ m.sem_blocked[w] = sem
      BY Zenon, <1>1, <2>2, <2>6, <2>7, <2>10
    <3>2. PICK j \in 1..Len(q) : q[j] = w
      BY <1>2, <3>1 DEF Waits
    <3>3. j <= i /\ j # i
      BY <2>1, <3>1, <3>2
    <3>4. DOMAIN q = 1..Len(q) /\ j < i
      BY <1>1, <3>3
    <3> QED
      BY <2>1, <3>1, <3>2, <3>4 DEF Above
  <2>11. \A v, w \in Pid : Above(SemQueue(r), v, w) => Above(q, v, w)
    BY <1>1, <2>6, QueueDelOrder
  <2>12. Leaves(m, r, sem)
    BY Zenon, <2>6, <2>8, <2>10, <2>11 DEF Leaves, Rest
  <2> QED
    BY Zenon, <2>2, <2>6, <2>9, <2>12 DEF Fewer
<1> QED
  BY Zenon, <1>3, <1>4, <1>5

\* What is known after i turns: the processes that are gone were the ones above,
\* and they are i in number or nobody is left.
Turned(m, X, sem, i) ==
  {x \in Memory :
     \/ x.fault
     \/ /\ Rest(m, x) /\ Marks(x, X) /\ Leaves(m, x, sem)
        /\ \/ Waits(x, sem) = {}
           \/ Cardinality(Waits(x, sem)) + i <= Cardinality(Waits(m, sem))}

\* A turn is a turn.
LEMMA TurnedStep ==
  ASSUME NEW c, NEW g, NEW R \in SUBSET Pid, NEW X, NEW sem \in Sem,
         NEW wake \in {0, -3, -4}, NEW m, NEW i \in Nat,
         NEW x \in Held(c, g, R, {}), x \in Turned(m, X, sem, i), ~x.fault
  PROVE  unblock_one(x, sem, wake) \in Turned(m, X, sem, i + 1)
<1> DEFINE r == unblock_one(x, sem, wake)
<1>1. /\ Rest(m, x) /\ Marks(x, X) /\ Leaves(m, x, sem)
      /\ \/ Waits(x, sem) = {}
         \/ Cardinality(Waits(x, sem)) + i <= Cardinality(Waits(m, sem))
  BY DEF Turned
<1>2. Leaves(x, r, sem) /\ (r.fault \/ (Rest(x, r) /\ Fewer(x, r, sem)))
  BY <1>1, UnblockOneLeaves
<1>3. r \in Memory
  <2>1. r \in Held(c, g, R, {})
    BY UnblockOne
  <2> QED
    BY <2>1, HeldDef
<1> HIDE DEF r
<1>4. CASE r.fault
  BY <1>3, <1>4 DEF Turned, r
<1>5. CASE ~r.fault
  <2>1. Rest(m, r)
    BY <1>1, <1>2, <1>5 DEF Rest
  <2>2. Marks(r, X)
    BY <1>1, <1>2, <1>5, LeavesMarks
  <2>3. Leaves(m, r, sem)
    BY <1>1, <1>2, LeavesTrans
  <2>4. \/ Waits(r, sem) = {}
        \/ Cardinality(Waits(r, sem)) + (i + 1) <= Cardinality(Waits(m, sem))
    <3>1. /\ Cardinality(Waits(x, sem)) \in Nat /\ IsFiniteSet(Waits(x, sem))
          /\ Cardinality(Waits(m, sem)) \in Nat
      BY WaitsFinite
    <3>2. CASE Waits(x, sem) = {} /\ Waits(r, sem) = {}
      BY <3>2
    <3>3. ASSUME NEW p \in Waits(x, sem), Waits(r, sem) = Waits(x, sem) \ {p}
          PROVE  Cardinality(Waits(r, sem)) + (i + 1) <= Cardinality(Waits(m, sem))
      <4> DEFINE W == Waits(x, sem)
      <4>1. p \in W /\ IsFiniteSet(W)
        BY <3>1, <3>3
      <4> HIDE DEF W
      <4>2. Cardinality(W \ {p}) = Cardinality(W) - 1
        BY Zenon, <4>1, FS_RemoveElement
      <4>3. W # {}
        BY <4>1
      <4> QED
        BY <1>1, <3>1, <3>3, <4>2, <4>3 DEF W
    <3> QED
      BY <1>2, <1>5, <3>2, <3>3 DEF Fewer
  <2> QED
    BY <1>3, <2>1, <2>2, <2>3, <2>4 DEF Turned, r
<1> QED
  BY <1>4, <1>5

\* n turns.
LEMMA UnblockTimesTurned ==
  ASSUME NEW c, NEW g, NEW R \in SUBSET Pid, NEW m \in Held(c, g, R, {}),
         ~m.fault, NEW X, Marks(m, X), NEW sem \in Sem,
         NEW wake \in {0, -3, -4}, NEW n \in Nat
  PROVE  unblock_times(m, sem, wake, n) \in Turned(m, X, sem, n)
<1> DEFINE S == Held(c, g, R, {})
           Q == [i \in 0..n |-> Turned(m, X, sem, i)]
<1>1. \A x \in S : x.fault \/ unblock_one(x, sem, wake) \in S
  BY UnblockOne
<1>2. m \in S /\ m \in Turned(m, X, sem, 0)
  <2>1. m \in Memory /\ Leaves(m, m, sem)
    BY HeldDef, LeavesStay
  <2>2. Cardinality(Waits(m, sem)) \in Nat
    BY WaitsFinite
  <2> QED
    BY <2>1, <2>2 DEF Turned, Rest
<1>3. ASSUME NEW i \in 1..n, NEW x \in S \cap Q[i - 1]
      PROVE  (IF x.fault THEN x ELSE unblock_one(x, sem, wake)) \in Q[i]
  <2>1. i - 1 \in Nat /\ (i - 1) + 1 = i /\ i - 1 \in 0..n /\ i \in 0..n
    OBVIOUS
  <2>2. x \in Turned(m, X, sem, i - 1) /\ x \in Held(c, g, R, {})
    BY <1>3, <2>1
  <2>3. CASE x.fault
    <3>1. x \in Memory
      BY <2>2, HeldDef
    <3> QED
      BY <2>1, <2>3, <3>1 DEF Turned
  <2>4. CASE ~x.fault
    <3>1. unblock_one(x, sem, wake) \in Turned(m, X, sem, (i - 1) + 1)
      BY <2>1, <2>2, <2>4, TurnedStep
    <3> QED
      BY <2>1, <2>4, <3>1
  <2> QED
    BY <2>3, <2>4
<1>4. m \in Q[0] /\ Q[n] = Turned(m, X, sem, n)
  BY <1>2
<1> HIDE DEF S, Q
<1>5. unblock_times(m, sem, wake, n) \in S \cap Q[n]
  BY Zenon, <1>1, <1>2, <1>3, <1>4, UnblockLoop
<1> QED
  BY Zenon, <1>4, <1>5

\* The queue is long enough for all that wait.
LEMMA WaitsLen ==
  ASSUME NEW c, NEW g, NEW R, NEW m \in Held(c, g, R, {}), ~m.fault,
         Marks(m, {}), NEW sem \in Sem
  PROVE  /\ Len(SemQueue(m)) \in Nat
         /\ Cardinality(Waits(m, sem)) <= Len(SemQueue(m))
<1> DEFINE q == SemQueue(m)
           W == Waits(m, sem)
<1>1. q \in Seq(Pid) /\ Len(q) \in Nat
  <2>1. q \in Seq(Pid)
    BY SemQueueState
  <2> QED
    BY <2>1
<1>2. \A w \in W : \E i \in 1..Len(q) : q[i] = w
  BY MarkQueued, SemNotNone DEF Waits
<1>3. IsFiniteSet(W) /\ Cardinality(W) \in Nat
  BY WaitsFinite
<1> HIDE DEF q, W
<1>4. ExistsSurjection(1..Len(q), Range(q))
  <2>1. q \in [1..Len(q) -> Range(q)] /\ \A t \in Range(q) : \E i \in 1..Len(q) : q[i] = t
    BY <1>1 DEF Range
  <2> QED
    BY <2>1 DEF ExistsSurjection, Surjection
<1>5. IsFiniteSet(Range(q)) /\ Cardinality(Range(q)) <= Len(q)
  BY <1>1, <1>4, FS_SurjCardinalityBound, FS_NatSurjection
<1>6. W \in SUBSET Range(q)
  BY <1>1, <1>2 DEF Range
<1>7. Cardinality(W) <= Cardinality(Range(q)) /\ Cardinality(Range(q)) \in Nat
  BY <1>5, <1>6, FS_Subset, FS_CardinalityType
<1> QED
  BY <1>1, <1>3, <1>5, <1>7 DEF q, W

\* Memory a is m with another counter for id, or id created or deleted.
Recount(m, a, id) ==
  /\ a.fault = m.fault /\ a.state = m.state /\ a.prio = m.prio
  /\ a.alarm_time = m.alarm_time /\ a.clock_ticks = m.clock_ticks
  /\ a.sem_blocked = m.sem_blocked /\ SemQueue(a) = SemQueue(m)
  /\ a.cur_pid = m.cur_pid
  /\ \A s \in Sem : s # id =>
       (s \in a.sem_used <=> s \in m.sem_used) /\ a.value[s] = m.value[s]

\* The other semaphores keep their credit.
LEMMA EnoughOthers ==
  ASSUME NEW m \in Memory, NEW a, NEW x, NEW id \in Sem, NEW s \in Sem, s # id,
         Recount(m, a, id), Leaves(a, x, id), Rest(a, x), ~x.fault, Enough(m, s)
  PROVE  Enough(x, s)
<1>1. \A p \in Pid : x.sem_blocked[p] \in {a.sem_blocked[p], -1}
  BY Zenon DEF Leaves
<1>2. Waits(x, s) \subseteq Waits(m, s)
  BY Zenon, <1>1, SemNotNone DEF Waits, Recount
<1>3. (s \in x.sem_used <=> s \in m.sem_used) /\ x.value[s] = m.value[s]
  BY DEF Recount, Rest
<1>4. m.value[s] \in Int
  BY SizeAssumption DEF Memory, SHRT_MIN
<1> QED
  BY <1>2, <1>3, <1>4, EnoughFewer

\* Unblocking keeps the queue sorted.
LEMMA LeavesSorted ==
  ASSUME NEW m, NEW x, NEW id, Leaves(m, x, id), ~x.fault,
         SemQueue(x) \in Seq(Pid), SortedBy(SemQueue(m), m.prio)
  PROVE  SortedBy(SemQueue(x), x.prio)
<1> DEFINE q == SemQueue(m)
           r == SemQueue(x)
<1>1. \A p, s \in Pid : Above(r, p, s) => Above(q, p, s)
  BY Zenon DEF Leaves
<1>2. x.prio = m.prio
  BY DEF Leaves
<1>3. r \in Seq(Pid) /\ SortedBy(q, m.prio)
  OBVIOUS
<1> HIDE DEF q, r
<1>4. \A i, j \in DOMAIN r : i < j => Above(q, r[j], r[i])
  <2> SUFFICES ASSUME NEW i \in DOMAIN r, NEW j \in DOMAIN r, i < j
               PROVE  Above(q, r[j], r[i])
    OBVIOUS
  <2>1. Above(r, r[j], r[i]) /\ r[i] \in Pid /\ r[j] \in Pid
    BY <1>3 DEF Above
  <2> QED
    BY <1>1, <2>1
<1>5. SortedBy(r, m.prio)
  BY <1>3, <1>4, SortedBelow
<1> QED
  BY <1>2, <1>5 DEF r

\* A call that unblocks is fine, if the semaphores have enough credit.
LEMMA LeavesFine ==
  ASSUME NEW c \in Pid, NEW m \in Entered(c), ~m.fault, Sound(m),
         NEW id \in Sem, NEW a, Recount(m, a, id),
         NEW x \in Entered(c), Leaves(a, x, id),
         x.fault \/ (Rest(a, x) /\ Enough(x, id))
  PROVE  Fine(m, x)
<1> SUFFICES ASSUME ~x.fault PROVE Fine(m, x)
  BY DEF Fine
<1>1. m \in Memory /\ x.garbage_collection_list = <<>>
  BY Zenon, HeldDef DEF Entered
<1>2. Marks(x, {})
  <2>1. Marks(a, {})
    BY Zenon DEF Marks, Sound, Recount
  <2> QED
    BY <2>1, LeavesMarks
<1>3. SortedBy(SemQueue(x), x.prio)
  <2>1. SortedBy(SemQueue(a), a.prio)
    BY Zenon DEF Sound, Recount
  <2>2. SemQueue(x) \in Seq(Pid)
    BY Zenon, SemQueueState DEF Entered
  <2> QED
    BY <2>1, <2>2, LeavesSorted
<1>4. \A s \in Sem : Enough(x, s)
  <2> SUFFICES ASSUME NEW s \in Sem, s # id PROVE Enough(x, s)
    OBVIOUS
  <2>1. Enough(m, s)
    BY DEF Sound
  <2> QED
    BY Zenon, <1>1, <2>1, EnoughOthers
<1>5. Buried(x)
  BY <1>1 DEF Buried, Range
<1>6. \A p \in Pid :
        \/ x.state[p] = m.state[p] /\ x.sem_blocked[p] = m.sem_blocked[p]
        \/ /\ m.state[p] = "sem_blocked" /\ m.sem_blocked[p] = id
           /\ x.state[p] = "actionable" /\ x.sem_blocked[p] = -1
  BY Zenon DEF Leaves, Recount
<1>7. NotEarly(m, x)
  <2>1. x.alarm_time = m.alarm_time
    BY Zenon DEF Leaves, Recount
  <2> QED
    BY <1>6, <2>1 DEF NotEarly
<1>8. InOrder(m, x)
  <2> SUFFICES ASSUME NEW p \in Pid, NEW q \in Pid,
                      m.sem_blocked[p] # -1, m.sem_blocked[q] = m.sem_blocked[p],
                      x.state[p] # "sem_blocked", x.state[q] = "sem_blocked"
               PROVE  Above(SemQueue(m), p, q)
    BY Zenon DEF InOrder
  <2>1. m.state[p] = "sem_blocked"
    BY Zenon DEF Sound, Marks
  <2>2. m.sem_blocked[p] = id /\ x.sem_blocked[p] = -1
    BY Zenon, <1>6, <2>1
  <2>3. x.sem_blocked[q] = id
    BY Zenon, <1>6, <2>2
  <2>4. \A v, w \in Pid :
          (/\ m.sem_blocked[v] = id /\ x.sem_blocked[v] = -1
           /\ x.sem_blocked[w] = id) => Above(SemQueue(m), v, w)
    BY Zenon DEF Leaves, Recount
  <2> QED
    BY Zenon, <2>2, <2>3, <2>4
<1> QED
  BY <1>2, <1>3, <1>4, <1>5, <1>7, <1>8 DEF Fine, Sound

\* The end of the unblocking loops.
LEMMA YieldToTopFine ==
  ASSUME NEW c \in Pid, NEW a \in Entered(c), NEW m, Fine(m, a)
  PROVE  Fine(m, yield_to_top(a))
<1>1. a \in Held(c, <<>>, {c}, {}) /\ a \in Memory
  BY HeldDef DEF Entered
<1>2. Fine(m, panic(a))
  BY <1>1 DEF panic, Memory, Fine
<1>3. Fine(m, scheduler(a))
  BY <1>1, SchedulerFine
<1>4. yield_to_top(a) \in {a, panic(a), scheduler(a)}
  BY DEF yield_to_top
<1> QED
  BY <1>2, <1>3, <1>4

\* The loops of unblock_n_sems and unblock_all_sem are fine.
LEMMA UnblockTimesFine ==
  ASSUME NEW c \in Pid, NEW m \in Entered(c), ~m.fault, Sound(m),
         NEW id \in Sem, NEW a \in Entered(c), Recount(m, a, id),
         NEW wake \in {0, -3, -4}, NEW n \in Nat,
         \A x \in Turned(a, {}, id, n) : x.fault \/ Enough(x, id)
  PROVE  Fine(m, yield_to_top(unblock_times(a, id, wake, n)))
<1> DEFINE x == unblock_times(a, id, wake, n)
<1>1. {c} \in SUBSET Pid /\ a \in Held(c, <<>>, {c}, {})
  BY DEF Entered
<1>2. Marks(a, {}) /\ ~a.fault
  BY DEF Marks, Sound, Recount
<1>3. x \in Turned(a, {}, id, n)
  BY <1>1, <1>2, UnblockTimesTurned
<1>4. x \in Entered(c)
  BY Zenon, <1>1, UnblockTimes DEF Entered
<1> HIDE DEF x
<1>5. Leaves(a, x, id) /\ (x.fault \/ (Rest(a, x) /\ Enough(x, id)))
  BY Zenon, <1>3 DEF Turned, Leaves
<1>6. Fine(m, x)
  BY <1>4, <1>5, LeavesFine
<1>7. Fine(m, yield_to_top(x))
  BY <1>4, <1>6, YieldToTopFine
<1> QED
  BY <1>7 DEF x

-----------------------------------------------------------------------------
(***************************************************************************)
(* sem.c.                                                                  *)
(***************************************************************************)

\* The assignment of a counter.
LEMMA RecountValue ==
  ASSUME NEW m \in Memory, NEW id \in Sem, NEW v
  PROVE  LET a == [m EXCEPT !.value[id] = v]
         IN  /\ Recount(m, a, id) /\ a.value = [m.value EXCEPT ![id] = v]
             /\ a.value[id] = v /\ a.sem_used = m.sem_used
             /\ a.garbage_collection_list = m.garbage_collection_list
<1> DEFINE w == [m.value EXCEPT ![id] = v]
           a == [m EXCEPT !.value = w]
<1>1. DOMAIN m.value = Sem
  BY DEF Memory
<1>2. w[id] = v /\ \A s \in Sem : s # id => w[s] = m.value[s]
  BY <1>1
<1> HIDE DEF w
<1>3. /\ a.fault = m.fault /\ a.state = m.state /\ a.prio = m.prio
      /\ a.alarm_time = m.alarm_time /\ a.clock_ticks = m.clock_ticks
      /\ a.sem_blocked = m.sem_blocked /\ a.queue_table = m.queue_table
      /\ a.cur_pid = m.cur_pid /\ a.value = w /\ a.sem_used = m.sem_used
      /\ a.garbage_collection_list = m.garbage_collection_list
  BY DEF Memory
<1> HIDE DEF a
<1>4. /\ Recount(m, a, id) /\ a.value = w /\ a.value[id] = v
      /\ a.sem_used = m.sem_used
      /\ a.garbage_collection_list = m.garbage_collection_list
  BY <1>2, <1>3 DEF Recount, SemQueue
<1> QED
  BY <1>4 DEF a, w

\* screate is fine: nobody waits for a semaphore that is not in use.
LEMMA ScreateFine ==
  ASSUME NEW c \in Pid, NEW m \in Entered(c), ~m.fault, Sound(m),
         NEW count \in SHRT_MIN..SHRT_MAX
  PROVE  Fine(m, screate(m, count))
<1> DEFINE id == Min(Sem \ m.sem_used)
           v == [m.value EXCEPT ![id] = count]
           u == m.sem_used \cup {id}
           r == [m EXCEPT !.value = v, !.sem_used = u]
<1>1. screate(m, count) = IF count < 0 \/ m.sem_used = Sem THEN m ELSE r
  BY DEF screate, obtain_id
<1>2. CASE count < 0 \/ m.sem_used = Sem
  BY <1>1, <1>2, StayFine
<1>3. CASE ~(count < 0 \/ m.sem_used = Sem)
  <2>1. m.sem_used \in SUBSET Sem /\ m \in Memory /\ m.garbage_collection_list = <<>>
    BY HeldSems, HeldDef DEF Entered
  <2>2. Sem \ m.sem_used \in SUBSET Nat /\ Sem \ m.sem_used # {}
    <3>1. Sem \subseteq Nat
      BY SizeAssumption DEF Sem
    <3> QED
      BY Zenon, <1>3, <2>1, <3>1
  <2>3. id \in Sem \ m.sem_used
    BY <2>2, MinNat
  <2> HIDE DEF id
  <2>4. Waits(m, id) = {}
    BY <2>3 DEF Sound, Enough
  <2>5. \A s \in Sem : s # id => (s \in u <=> s \in m.sem_used)
    OBVIOUS
  <2> DEFINE w == [m.value EXCEPT ![id] = count]
  <2> HIDE DEF v, u
  <2>6. /\ r.state = m.state /\ r.alarm_time = m.alarm_time /\ r.prio = m.prio
        /\ r.sem_blocked = m.sem_blocked /\ r.queue_table = m.queue_table
        /\ r.garbage_collection_list = <<>> /\ r.value = v /\ r.sem_used = u
    BY <2>1 DEF Memory
  <2> HIDE DEF r
  <2>7. count \in Int /\ r.value = [m.value EXCEPT ![id] = count]
    BY <2>6, SizeAssumption DEF v, SHRT_MIN
  <2>8. Fine(m, r)
    BY Zenon, <2>3, <2>4, <2>5, <2>6, <2>7, CounterFine DEF SemQueue
  <2> QED
    BY <1>1, <1>3, <2>8
<1> QED
  BY <1>2, <1>3

\* After unblock_all_sem nobody waits.
LEMMA UnblockAllFine ==
  ASSUME NEW c \in Pid, NEW m \in Entered(c), ~m.fault, Sound(m),
         NEW id \in Sem, NEW a \in Entered(c), Recount(m, a, id),
         NEW wake \in {0, -3, -4}
  PROVE  Fine(m, unblock_all_sem(a, id, wake))
<1> DEFINE n == Len(SemQueue(a))
<1>1. unblock_all_sem(a, id, wake) = yield_to_top(unblock_times(a, id, wake, n))
  BY DEF unblock_all_sem, unblock_times, SemQueue
<1>2. n \in Nat /\ Cardinality(Waits(a, id)) <= n
  <2>1. Marks(a, {}) /\ ~a.fault
    BY DEF Marks, Sound, Recount
  <2> QED
    BY <2>1, WaitsLen DEF Entered
<1> HIDE DEF n
<1>3. ASSUME NEW x \in Turned(a, {}, id, n), ~x.fault PROVE Enough(x, id)
  <2>1. Waits(x, id) = {} \/ Cardinality(Waits(x, id)) + n <= Cardinality(Waits(a, id))
    BY <1>3 DEF Turned
  <2>2. /\ IsFiniteSet(Waits(x, id)) /\ Cardinality(Waits(x, id)) \in Nat
        /\ Cardinality(Waits(a, id)) \in Nat
    BY WaitsFinite
  <2>3. Waits(x, id) = {} \/ Cardinality(Waits(x, id)) = 0
    BY <1>2, <2>1, <2>2
  <2>4. Waits(x, id) = {}
    BY <2>2, <2>3, FS_EmptySet
  <2> QED
    BY <2>4 DEF Enough
<1>4. Fine(m, yield_to_top(unblock_times(a, id, wake, n)))
  BY <1>2, <1>3, UnblockTimesFine
<1> QED
  BY <1>1, <1>4

\* sdelete is fine: nobody is left waiting for a semaphore that is gone.
LEMMA SdeleteFine ==
  ASSUME NEW c \in Pid, NEW m \in Entered(c), ~m.fault, Sound(m), NEW id
  PROVE  Fine(m, sdelete(m, id))
<1> DEFINE u == m.sem_used \ {id}
           a == [m EXCEPT !.sem_used = u]
<1>1. sdelete(m, id) = IF id \notin m.sem_used THEN m ELSE unblock_all_sem(a, id, -3)
  BY DEF sdelete, free_id
<1>2. CASE id \notin m.sem_used
  BY <1>1, <1>2, StayFine
<1>3. CASE id \in m.sem_used
  <2>1. /\ m.value \in [Sem -> SHRT_MIN..SHRT_MAX] /\ m.sem_used \in SUBSET Sem
        /\ m \in Memory
    BY HeldSems, HeldDef DEF Entered
  <2>2. u \in SUBSET Sem /\ id \in Sem
    BY <1>3, <2>1
  <2>3. \A s \in Sem : s # id => (s \in u <=> s \in m.sem_used)
    OBVIOUS
  <2> HIDE DEF u
  <2>4. a \in Entered(c)
    BY Zenon, <2>1, <2>2, SetSems DEF Entered
  <2>5. /\ a.fault = m.fault /\ a.state = m.state /\ a.prio = m.prio
        /\ a.alarm_time = m.alarm_time /\ a.clock_ticks = m.clock_ticks
        /\ a.sem_blocked = m.sem_blocked /\ a.queue_table = m.queue_table
        /\ a.cur_pid = m.cur_pid /\ a.value = m.value /\ a.sem_used = u
    BY <2>1 DEF Memory
  <2> HIDE DEF a
  <2>6. Recount(m, a, id)
    BY <2>3, <2>5 DEF Recount, SemQueue
  <2>7. Fine(m, unblock_all_sem(a, id, -3))
    BY <2>2, <2>4, <2>6, UnblockAllFine
  <2> QED
    BY <1>1, <1>3, <2>7
<1> QED
  BY <1>2, <1>3

\* sreset is fine: all that waited are gone when the counter is 0 or more.
LEMMA SresetFine ==
  ASSUME NEW c \in Pid, NEW m \in Entered(c), ~m.fault, Sound(m), NEW id,
         NEW count \in SHRT_MIN..SHRT_MAX
  PROVE  Fine(m, sreset(m, id, count))
<1>1. CASE id \notin m.sem_used \/ count < 0
  BY <1>1, StayFine DEF sreset
<1>2. CASE ~(id \notin m.sem_used \/ count < 0)
  <2> DEFINE a == [m EXCEPT !.value[id] = count]
  <2>1. sreset(m, id, count) = unblock_all_sem(a, id, -4)
    BY <1>2 DEF sreset
  <2>2. id \in Sem /\ m \in Memory
    BY <1>2, Values, HeldDef DEF Entered
  <2>3. a \in Entered(c)
    BY <2>2, SetValue DEF Entered
  <2>4. Recount(m, a, id)
    BY <2>2, RecountValue
  <2> HIDE DEF a
  <2> QED
    BY <2>1, <2>2, <2>3, <2>4, UnblockAllFine
<1> QED
  BY <1>1, <1>2

\* signaln is fine: it raises the counter by as much as it wakes.
LEMMA SignalnFine ==
  ASSUME NEW c \in Pid, NEW m \in Entered(c), ~m.fault, Sound(m), NEW id,
         NEW count \in SHRT_MIN..SHRT_MAX
  PROVE  Fine(m, signaln(m, id, count))
<1> DEFINE test == m.value[id] + count
           a == [m EXCEPT !.value[id] = test]
<1>1. signaln(m, id, count) =
        IF count < 0 \/ id \notin m.sem_used \/ test > SHRT_MAX THEN m
        ELSE unblock_n_sems(a, id, count)
  BY DEF signaln
<1>2. CASE count < 0 \/ id \notin m.sem_used \/ test > SHRT_MAX
  BY <1>1, <1>2, StayFine
<1>3. CASE ~(count < 0 \/ id \notin m.sem_used \/ test > SHRT_MAX)
  <2>1. /\ id \in Sem /\ m.value[id] \in SHRT_MIN..SHRT_MAX
        /\ SHRT_MIN \in Int /\ SHRT_MAX \in Nat
    BY <1>3, Values DEF Entered
  <2>2. test \in SHRT_MIN..SHRT_MAX /\ count \in Nat /\ m.value[id] = test - count
    BY <1>3, <2>1
  <2> HIDE DEF test
  <2>3. a \in Entered(c)
    BY <2>1, <2>2, SetValue DEF Entered
  <2>4. m \in Memory /\ m.garbage_collection_list = <<>>
    BY HeldDef DEF Entered
  <2>5. /\ Recount(m, a, id) /\ a.value = [m.value EXCEPT ![id] = test]
        /\ a.value[id] = test /\ a.sem_used = m.sem_used
        /\ a.garbage_collection_list = m.garbage_collection_list
    <3>1. m \in Memory /\ id \in Sem
      BY <2>1, <2>4
    <3> QED
      BY ONLY <3>1, RecountValue
  <2> HIDE DEF a
  <2>6. CASE count = 0
    <3>1. unblock_n_sems(a, id, count) = a
      BY <2>6 DEF unblock_n_sems
    <3>2. test \in Int /\ test <= m.value[id]
      BY <2>1, <2>2, <2>6
    <3>3. Fine(m, a)
      BY <2>1, <2>4, <2>5, <3>2, CounterFine DEF Recount
    <3> QED
      BY <1>1, <1>3, <3>1, <3>3
  <2>7. CASE count # 0
    <3>1. unblock_n_sems(a, id, count) = yield_to_top(unblock_times(a, id, 0, count))
      BY <2>2, <2>7 DEF unblock_n_sems, unblock_times
    <3>2. ASSUME NEW x \in Turned(a, {}, id, count), ~x.fault PROVE Enough(x, id)
      <4>1. /\ Waits(x, id) = {}
               \/ Cardinality(Waits(x, id)) + count <= Cardinality(Waits(a, id))
            /\ Rest(a, x) /\ Leaves(a, x, id)
        BY <3>2 DEF Turned
      <4>2. Cardinality(Waits(x, id)) \in Nat /\ Cardinality(Waits(m, id)) \in Nat
        BY WaitsFinite
      <4>3. Waits(a, id) = Waits(m, id) /\ Enough(m, id)
        BY Zenon, <2>1, <2>5 DEF Waits, Recount, Sound
      <4>4. x.value[id] = test /\ (id \in x.sem_used <=> id \in m.sem_used)
        BY Zenon, <2>5, <4>1 DEF Rest
      <4>5. Waits(x, id) # {} => Waits(m, id) # {}
        <5>1. \A p \in Pid : x.sem_blocked[p] \in {m.sem_blocked[p], -1}
          BY Zenon, <2>5, <3>2, <4>1 DEF Leaves, Recount
        <5> QED
          BY <2>1, <5>1, SemNotNone DEF Waits
      <4> QED
        BY <2>1, <2>2, <4>1, <4>2, <4>3, <4>4, <4>5 DEF Enough
    <3>3. Fine(m, yield_to_top(unblock_times(a, id, 0, count)))
      BY Zenon, <2>1, <2>2, <2>3, <2>5, <3>2, UnblockTimesFine
    <3> QED
      BY <1>1, <1>3, <3>1, <3>3
  <2> QED
    BY <2>6, <2>7
<1> QED
  BY <1>2, <1>3

\* What signal_death does: nothing, or the counter goes up and the process
\* nearest to the top goes.
Signalled(m, x, id) ==
  \/ x.fault
  \/ x = m
  \/ id \in Sem /\ \E a : /\ Recount(m, a, id) /\ Leaves(a, x, id)
                          /\ Rest(a, x) /\ Enough(x, id)

\* kill of a blocked process signals its semaphore in that way.
LEMMA SignalDeathLeaves ==
  ASSUME NEW c, NEW g, NEW R \in SUBSET Pid, NEW m \in Held(c, g, R, {}),
         ~m.fault, NEW X, Marks(m, X), \A s \in Sem : Enough(m, s), NEW id
  PROVE  Signalled(m, signal_death(m, id), id)
<1> DEFINE test == m.value[id] + 1
           a == [m EXCEPT !.value[id] = test]
<1>1. signal_death(m, id) =
        IF id \notin m.sem_used \/ test > SHRT_MAX THEN m
        ELSE IF test <= 0 THEN unblock_one(a, id, 0) ELSE a
  BY DEF signal_death, unblock_sem
<1>2. CASE id \notin m.sem_used \/ test > SHRT_MAX
  BY <1>1, <1>2 DEF Signalled
<1>3. CASE ~(id \notin m.sem_used \/ test > SHRT_MAX)
  <2>1. /\ id \in Sem /\ m.value[id] \in SHRT_MIN..SHRT_MAX
        /\ SHRT_MIN \in Int /\ SHRT_MAX \in Nat
    BY <1>3, Values
  <2>2. test \in SHRT_MIN..SHRT_MAX /\ m.value[id] = test - 1 /\ m \in Memory
    BY <1>3, <2>1, HeldDef
  <2>3. Enough(m, id)
    BY <2>1
  <2> HIDE DEF test
  <2>4. a \in Held(c, g, R, {})
    BY <2>1, <2>2, SetValue
  <2>5. /\ Recount(m, a, id) /\ a.value[id] = test /\ a.sem_used = m.sem_used
    <3>1. m \in Memory /\ id \in Sem
      BY <2>1, <2>2
    <3> QED
      BY ONLY <3>1, RecountValue
  <2> HIDE DEF a
  <2>6. /\ IsFiniteSet(Waits(m, id)) /\ Cardinality(Waits(m, id)) \in Nat
        /\ Waits(a, id) = Waits(m, id)
    <3>1. Waits(a, id) = Waits(m, id)
      BY Zenon, <2>5 DEF Waits, Recount
    <3> QED
      BY <3>1, WaitsFinite
  <2>7. CASE test > 0
    <3>1. signal_death(m, id) = a
      BY <1>1, <1>3, <2>2, <2>7
    <3>2. Waits(m, id) # {} => Cardinality(Waits(m, id)) = 0
      BY <2>2, <2>3, <2>6, <2>7 DEF Enough
    <3>3. Waits(m, id) = {}
      BY <2>6, <3>2, FS_EmptySet
    <3>4. Enough(a, id) /\ Leaves(a, a, id) /\ Rest(a, a)
      BY Zenon, <2>1, <2>6, <3>3, LeavesStay DEF Enough, Rest
    <3> QED
      BY Zenon, <2>1, <2>5, <3>1, <3>4 DEF Signalled
  <2>8. CASE ~(test > 0)
    <3> DEFINE x == unblock_one(a, id, 0)
    <3>1. signal_death(m, id) = x
      BY <1>1, <1>3, <2>2, <2>8
    <3>2. Marks(a, X) /\ ~a.fault
      BY <2>5 DEF Recount, Marks
    <3>3. Leaves(a, x, id) /\ (x.fault \/ (Rest(a, x) /\ Fewer(a, x, id)))
      BY Zenon, <2>1, <2>4, <3>2, UnblockOneLeaves
    <3> HIDE DEF x
    <3>4. ASSUME ~x.fault PROVE Enough(x, id)
      <4>1. x.value[id] = test /\ x.sem_used = m.sem_used
        BY Zenon, <2>5, <3>3, <3>4 DEF Rest
      <4>2. CASE Waits(x, id) = {}
        BY <4>2 DEF Enough
      <4>3. ASSUME NEW p \in Waits(m, id), Waits(x, id) = Waits(m, id) \ {p}
            PROVE  Enough(x, id)
        <5> DEFINE W == Waits(m, id)
        <5>1. p \in W /\ IsFiniteSet(W)
          BY <2>6, <4>3
        <5> HIDE DEF W
        <5>2. Cardinality(W \ {p}) = Cardinality(W) - 1
          BY Zenon, <5>1, FS_RemoveElement
        <5>3. Waits(m, id) # {}
          BY <4>3
        <5> QED
          BY <2>2, <2>3, <2>6, <4>1, <4>3, <5>2, <5>3 DEF W, Enough
      <4> QED
        BY <2>6, <3>3, <3>4, <4>2, <4>3 DEF Fewer
    <3> QED
      BY Zenon, <2>1, <2>5, <3>1, <3>3, <3>4 DEF Signalled
  <2> QED
    BY <2>7, <2>8
<1> QED
  BY Zenon, <1>2, <1>3

\* signal is fine.
LEMMA SignalFine ==
  ASSUME NEW c \in Pid, NEW m \in Entered(c), ~m.fault, Sound(m), NEW id
  PROVE  Fine(m, signal(m, id))
<1> DEFINE x == signal_death(m, id)
<1>1. {c} \in SUBSET Pid /\ m \in Held(c, <<>>, {c}, {}) /\ c \in Pid
  BY DEF Entered
<1>2. x \in Entered(c)
  BY <1>1, SignalDeath DEF Entered
<1>3. Signalled(m, x, id)
  BY <1>1, SignalDeathLeaves DEF Sound
<1>4. signal(m, id) \in {x, scheduler(x)}
  BY DEF signal
<1> HIDE DEF x
<1>5. Fine(m, x)
  <2>1. CASE x.fault
    BY <2>1 DEF Fine
  <2>2. CASE x = m
    BY <2>2, StayFine
  <2>3. ASSUME id \in Sem, NEW a, Recount(m, a, id), Leaves(a, x, id),
               Rest(a, x), Enough(x, id)
        PROVE  Fine(m, x)
    BY <1>2, <2>3, LeavesFine
  <2> QED
    BY <1>3, <2>1, <2>2, <2>3 DEF Signalled
<1>6. Fine(m, scheduler(x))
  BY <1>1, <1>2, <1>5, SchedulerFine DEF Entered
<1> QED
  BY <1>4, <1>5, <1>6

\* The caller goes to sleep on a semaphore whose counter is now below 0 by one
\* more.
LEMMA BlockSemFine ==
  ASSUME NEW c \in Pid, NEW m \in Entered(c), ~m.fault, Sound(m), c # 0,
         NEW id \in m.sem_used, NEW a \in Entered(c), Recount(m, a, id),
         a.sem_used = m.sem_used, a.value[id] = m.value[id] - 1, a.value[id] < 0
  PROVE  Fine(m, block_sem(a, id))
<1> DEFINE sb == [a.sem_blocked EXCEPT ![c] = id]
           d == [a EXCEPT !.sem_blocked = sb]
           b == place(d, c, "sem_blocked", a.prio)
<1>1. a \in Held(c, <<>>, {c}, {}) /\ a.cur_pid = c /\ a \in Memory
  BY HeldDef, HeldBasic DEF Entered
<1>2. block_sem(a, id) = scheduler(b)
  BY <1>1 DEF block_sem
<1>3. id \in Sem /\ id # -1 /\ m.value[id] \in Int /\ m.value \in [Sem -> Int]
  <2>1. m.value \in [Sem -> SHRT_MIN..SHRT_MAX] /\ m.sem_used \in SUBSET Sem
    BY HeldSems DEF Entered
  <2>2. SHRT_MIN \in Int /\ SHRT_MAX \in Int
    BY SizeAssumption DEF SHRT_MIN
  <2> QED
    BY <2>1, <2>2, SemNotNone
<1>4. sb[c] = id /\ \A p \in Pid : p # c => sb[p] = m.sem_blocked[p]
  <2>1. a.sem_blocked = m.sem_blocked /\ DOMAIN a.sem_blocked = Pid
    BY <1>1 DEF Recount, Memory
  <2> QED
    BY <2>1
<1>5. sb \in [Pid -> Sem \cup {-1}]
  BY <1>1, <1>3 DEF Memory
<1> HIDE DEF sb
<1>6. /\ d \in Memory /\ d.cur_pid = a.cur_pid /\ d.fault = a.fault
      /\ d.garbage_collection_list = a.garbage_collection_list
      /\ d.queue_table = a.queue_table /\ d.state = a.state
  BY Zenon, <1>1, <1>5 DEF Memory
<1>7. /\ d.sem_blocked = sb /\ d.prio = a.prio /\ d.alarm_time = a.alarm_time
      /\ d.sem_used = a.sem_used /\ d.value = a.value
  BY <1>1 DEF Memory
<1> HIDE DEF d
<1>8. d \in Held(c, <<>>, {}, {c})
  <2>1. a \in Held(c, <<>>, {}, {c})
    BY Zenon, <1>1, Release
  <2> QED
    BY <1>6, <2>1, Unmoved
<1>9. a.prio \in [Pid -> Int] /\ "sem_blocked" \in list_type
  BY <1>1, HeldKeys DEF list_type
<1>10. b \in Held(c, <<>>, {}, {})
  BY <1>8, <1>9, Place
<1>11. Placing(d, b, c, "sem_blocked", a.prio)
  BY Zenon, <1>6, PlaceFields
<1> HIDE DEF b
<1>12. Fine(m, b)
  <2> SUFFICES ASSUME ~b.fault PROVE Fine(m, b)
    BY DEF Fine
  <2>1. /\ b.state = [m.state EXCEPT ![c] = "sem_blocked"]
        /\ b.sem_blocked = sb /\ b.prio = m.prio /\ b.alarm_time = m.alarm_time
        /\ b.sem_used = m.sem_used /\ b.value = a.value
    BY Zenon, <1>6, <1>7, <1>11 DEF Placing, Quiet, Rest, Recount
  <2>2. SemQueue(b) = queue_add(c, SemQueue(m), m.prio)
    <3>1. b.queue_table = [d.queue_table EXCEPT !["sem_blocked"] =
             queue_add(c, d.queue_table["sem_blocked"], a.prio)]
      BY Zenon, <1>11 DEF Placing
    <3>2. "sem_blocked" \in DOMAIN d.queue_table
      BY Zenon, <1>6, <1>9 DEF Memory
    <3> QED
      BY Zenon, <1>6, <3>1, <3>2 DEF SemQueue, Recount
  <2>3. m.state[c] = "actionable" /\ m.state \in [Pid -> list_type]
    <3>1. m.state \in [Pid -> list_type]
      BY HeldQueues DEF Entered
    <3>2. Proper(m, {c}, {})
      BY HeldDef DEF Entered
    <3> QED
      BY <3>1, <3>2 DEF Proper
  <2>4. b.state[c] = "sem_blocked" /\ \A p \in Pid : p # c => b.state[p] = m.state[p]
    BY <2>1, <2>3
  <2>5. Marks(b, {})
    BY Zenon, <1>3, <1>4, <2>1, <2>4 DEF Marks, Sound
  <2>6. SortedBy(SemQueue(b), b.prio)
    <3>1. SemQueue(m) \in Seq(Pid) /\ SortedBy(SemQueue(m), m.prio)
      BY Zenon, SemQueueState DEF Sound, Entered
    <3>2. m.prio \in [Pid -> Int]
      BY HeldKeys DEF Entered
    <3> HIDE DEF SemQueue
    <3>3. SortedBy(queue_add(c, SemQueue(m), m.prio), m.prio)
      BY Zenon, <3>1, <3>2, QueueAddSorted
    <3> QED
      BY Zenon, <2>1, <2>2, <3>3
  <2>7. ASSUME NEW s \in Sem PROVE Enough(b, s)
    <3>1. Enough(m, s) /\ m.sem_blocked[c] = -1
      BY <2>3 DEF Sound, Marks
    <3>2. CASE s # id
      <4>1. Waits(b, s) \subseteq Waits(m, s)
        BY <1>4, <2>1, <3>2 DEF Waits
      <4>2. b.value[s] = m.value[s] /\ m.value[s] \in Int
        BY <1>3, <2>1, <3>2 DEF Recount
      <4> QED
        BY <2>1, <3>1, <4>1, <4>2, EnoughFewer
    <3>3. CASE s = id
      <4> DEFINE W == Waits(m, id)
      <4>1. Waits(b, id) = W \cup {c} /\ c \notin W
        BY Zenon, <1>3, <1>4, <2>1, <3>1 DEF Waits
      <4>2. IsFiniteSet(W) /\ Cardinality(W) \in Nat
        BY WaitsFinite
      <4>3. W # {} => Cardinality(W) <= -m.value[id]
        BY <3>1, <3>3 DEF Enough
      <4> HIDE DEF W
      <4>4. Cardinality(W \cup {c}) = Cardinality(W) + 1
        BY Zenon, <4>1, <4>2, FS_AddElement
      <4>5. W = {} => Cardinality(W) = 0
        BY FS_EmptySet
      <4>6. Cardinality(Waits(b, id)) <= -b.value[id]
        <5>1. b.value[id] = m.value[id] - 1 /\ b.value[id] < 0
          BY <2>1
        <5> QED
          BY <1>3, <4>1, <4>2, <4>3, <4>4, <4>5, <5>1
      <4> QED
        BY <2>1, <3>3, <4>6 DEF Enough
    <3> QED
      BY <3>2, <3>3
  <2>8. Buried(b)
    <3>1. b.garbage_collection_list = <<>>
      BY <1>10, HeldBasic
    <3> QED
      BY <3>1 DEF Buried, Range
  <2>9. NotEarly(m, b)
    BY <2>1, <2>3, <2>4 DEF NotEarly
  <2>10. InOrder(m, b)
    BY Zenon, <2>4 DEF InOrder, Sound, Marks
  <2> QED
    BY Zenon, <2>5, <2>6, <2>7, <2>8, <2>9, <2>10 DEF Fine, Sound
<1>13. Fine(m, scheduler(b))
  BY <1>10, <1>12, SchedulerFine
<1> QED
  BY <1>2, <1>13

\* wait and try_wait are fine.
LEMMA WaitFine ==
  ASSUME NEW c \in Pid, NEW m \in Entered(c), ~m.fault, Sound(m), c # 0, NEW id
  PROVE  Fine(m, wait(m, id)) /\ Fine(m, try_wait(m, id))
<1> DEFINE test == m.value[id] - 1
           a == [m EXCEPT !.value[id] = test]
<1>1. /\ wait(m, id) =
           IF id \notin m.sem_used \/ test < SHRT_MIN THEN m
           ELSE IF test < 0 THEN block_sem(a, id) ELSE a
      /\ try_wait(m, id) =
           IF id \notin m.sem_used \/ test < SHRT_MIN \/ test < 0 THEN m ELSE a
  BY DEF wait, try_wait
<1>2. CASE id \notin m.sem_used \/ test < SHRT_MIN
  BY <1>1, <1>2, StayFine
<1>3. CASE ~(id \notin m.sem_used \/ test < SHRT_MIN)
  <2>1. /\ id \in Sem /\ m.value[id] \in SHRT_MIN..SHRT_MAX
        /\ SHRT_MIN \in Int /\ SHRT_MAX \in Nat
    BY <1>3, Values DEF Entered
  <2>2. test \in SHRT_MIN..SHRT_MAX /\ test \in Int /\ test <= m.value[id]
    BY <1>3, <2>1
  <2>3. test = m.value[id] - 1
    OBVIOUS
  <2> HIDE DEF test
  <2>4. a \in Entered(c)
    BY Zenon, <2>1, <2>2, SetValue DEF Entered
  <2>5. m \in Memory /\ m.garbage_collection_list = <<>> /\ id \in Sem
    BY <2>1, HeldDef DEF Entered
  <2>6. /\ Recount(m, a, id) /\ a.value = [m.value EXCEPT ![id] = test]
        /\ a.value[id] = test /\ a.sem_used = m.sem_used
        /\ a.garbage_collection_list = m.garbage_collection_list
    <3>1. m \in Memory /\ id \in Sem
      BY <2>5
    <3> QED
      BY ONLY <3>1, RecountValue
  <2> HIDE DEF a
  <2>7. Fine(m, a)
    BY <2>1, <2>2, <2>5, <2>6, CounterFine DEF Recount
  <2>8. test < 0 => Fine(m, block_sem(a, id))
    BY <1>3, <2>3, <2>4, <2>6, BlockSemFine
  <2>9. Fine(m, m)
    BY StayFine
  <2> QED
    BY <1>1, <1>3, <2>7, <2>8, <2>9
<1> QED
  BY <1>2, <1>3

=============================================================================
