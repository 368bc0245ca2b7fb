CONSTANTS
  NB_PROCESS = 4
  NB_SEM = 1
  MAXPRIO = 2
  SHRT_MAX = 1
  CLOCK_MOD = 14
  SCHED_TICKS = 2
  Prios = {1}
  RetVals = {1}
  Counts = {0}
  Alarms = {1, 4}
  AllocFails = FALSE
  Orphans = FALSE
  Reuse = TRUE
SPECIFICATION LiveSpec
INVARIANTS
  WokenOnTime
PROPERTIES
  NoEarlyWake
  RoundRobin
