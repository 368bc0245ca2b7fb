CONSTANTS
  NB_PROCESS = 3
  NB_SEM = 1
  MAXPRIO = 2
  SHRT_MAX = 1
  CLOCK_MOD = 4
  SCHED_TICKS = 1
  Prios = {1, 2}
  RetVals = {1}
  Counts = {0, 1}
  Alarms = {1}
  AllocFails = TRUE
  Orphans = FALSE
  Reuse = TRUE
SPECIFICATION Spec
INVARIANTS
  TypeOK
  QueueInv
