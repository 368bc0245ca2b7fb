CONSTANTS
  NB_PROCESS = 4
  NB_SEM = 1
  MAXPRIO = 2
  SHRT_MAX = 2
  CLOCK_MOD = 1
  SCHED_TICKS = 1
  Prios = {1, 2}
  RetVals = {1}
  Counts = {0, 2}
  Alarms = {}
  AllocFails = FALSE
  Orphans = FALSE
  Reuse = TRUE
SPECIFICATION SemSpec
INVARIANTS
  NoLostWakeup
  ExactUnlessKilled
  TopRunsUnlessKilled
PROPERTIES
  WakeInOrder
