----------------------------- MODULE Semaphores -----------------------------
(***************************************************************************)
(* kernel/sem.c, and the part of kernel/process_handler.c that blocks and  *)
(* unblocks processes for it.  Each operator is one function: a            *)
(* transformer of the kernel memory, executed by process k.cur_pid.        *)
(***************************************************************************)
EXTENDS ProcessTable

-----------------------------------------------------------------------------
(***************************************************************************)
(* process_handler.c, "Gestion semaphores".                                *)
(***************************************************************************)

\* Mutant: the search starts at the bottom.
find_by_sem_from_bottom(k, sem) ==
  LET q == k.queue_table["sem_blocked"]
      i == FirstWhere(q, LAMBDA p : k.sem_blocked[p] = sem)
  IN  IF i = 0 THEN NULL ELSE q[i]

\* The process nearest to the top of the queue that is blocked on sem.
find_by_sem(k, sem) ==
  LET q == k.queue_table["sem_blocked"]
      i == LastWhere(q, LAMBDA p : k.sem_blocked[p] = sem)
  IN  IF i = 0 THEN NULL ELSE q[i]

block_sem(k, sem) ==
  scheduler(place([k EXCEPT !.sem_blocked[k.cur_pid] = sem],
                  k.cur_pid, "sem_blocked", k.prio))

unblock_one(k, sem, wake) ==
  LET p == find_by_sem(k, sem)
  IN  IF p = NULL THEN k
      ELSE place(unchain([k EXCEPT !.awakener[p] = wake,
                                   !.sem_blocked[p] = -1], p),
                 p, "actionable", k.prio)

unblock_sem(k, sem) == unblock_one(k, sem, 0)

\* The end of unblock_n_sems and unblock_all_sem.
yield_to_top(k) ==
  LET q == k.queue_table["actionable"]
  IN  IF queue_empty(q) THEN panic(k)
      ELSE IF k.prio[queue_top(q)] > k.prio[k.cur_pid] THEN scheduler(k)
      ELSE k

\* Mutant: one process too few.
unblock_n_sems_one_less(k, sem, n) ==
  LET turn(x) == unblock_one(x, sem, 0)
  IN  IF n <= 0 THEN k ELSE yield_to_top(Repeat(turn, k, n - 1))

unblock_n_sems(k, sem, n) ==
  LET turn(x) == unblock_one(x, sem, 0)
  IN  IF n <= 0 THEN k ELSE yield_to_top(Repeat(turn, k, n))

unblock_all_sem(k, sem, wake) ==
  LET turn(x) == unblock_one(x, sem, wake)
  IN  yield_to_top(Repeat(turn, k, Len(k.queue_table["sem_blocked"])))

-----------------------------------------------------------------------------
(***************************************************************************)
(* sem.c.                                                                  *)
(***************************************************************************)

\* The free id of least value; the id goes back to the free ones.
obtain_id(k) == Min(Sem \ k.sem_used)

free_id(k, id) == [k EXCEPT !.sem_used = @ \ {id}]

screate(k, count) ==
  LET id == obtain_id(k)
  IN  IF count < 0 \/ k.sem_used = Sem THEN k
      ELSE [k EXCEPT !.value[id] = count, !.sem_used = @ \cup {id}]

sdelete(k, id) ==
  IF id \notin k.sem_used THEN k ELSE unblock_all_sem(free_id(k, id), id, -3)

sreset(k, id, count) ==
  IF id \notin k.sem_used \/ count < 0 THEN k
  ELSE unblock_all_sem([k EXCEPT !.value[id] = count], id, -4)

\* Mutant: the last blocked process is forgotten.
signal_death_strict(k, id) ==
  LET test == k.value[id] + 1
      a    == [k EXCEPT !.value[id] = test]
  IN  IF id \notin k.sem_used \/ test > SHRT_MAX THEN k
      ELSE IF test < 0 THEN unblock_sem(a, id) ELSE a

\* The common part of signal and signal_death: V, without the preemption.
signal_death(k, id) ==
  LET test == k.value[id] + 1
      a    == [k EXCEPT !.value[id] = test]
  IN  IF id \notin k.sem_used \/ test > SHRT_MAX THEN k
      ELSE IF test <= 0 THEN unblock_sem(a, id) ELSE a

signal(k, id) ==
  LET a == signal_death(k, id)
  IN  IF /\ id \in k.sem_used /\ k.value[id] < 0
         /\ getprio(a, find_by_sem(k, id)) > getprio(a, k.cur_pid)
      THEN scheduler(a) ELSE a

signaln(k, id, count) ==
  LET test == k.value[id] + count
  IN  IF count < 0 \/ id \notin k.sem_used \/ test > SHRT_MAX THEN k
      ELSE unblock_n_sems([k EXCEPT !.value[id] = test], id, count)

\* Mutant: no check of the lower bound.
wait_unbounded(k, id) ==
  LET test == k.value[id] - 1
      a    == [k EXCEPT !.value[id] = test]
  IN  IF id \notin k.sem_used THEN k
      ELSE IF test < 0 THEN block_sem(a, id) ELSE a

wait(k, id) ==
  LET test == k.value[id] - 1
      a    == [k EXCEPT !.value[id] = test]
  IN  IF id \notin k.sem_used \/ test < SHRT_MIN THEN k
      ELSE IF test < 0 THEN block_sem(a, id) ELSE a

try_wait(k, id) ==
  LET test == k.value[id] - 1
  IN  IF id \notin k.sem_used \/ test < SHRT_MIN \/ test < 0 THEN k
      ELSE [k EXCEPT !.value[id] = test]

=============================================================================
