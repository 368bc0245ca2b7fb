CONSTANTS
  NB_PROCESS = 4
  NB_SEM = 0
  MAXPRIO = 2
  SHRT_MAX = 1
  CLOCK_MOD = 1
  SCHED_TICKS = 1
  Prios = {1, 2}
  RetVals = {1}
  Counts = {}
  Alarms = {}
  AllocFails = FALSE
  Orphans = TRUE
  Reuse = TRUE
SPECIFICATION LifeSpec
INVARIANTS
  Filiation
