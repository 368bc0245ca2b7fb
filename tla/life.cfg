CONSTANTS
  NB_PROCESS = 5
  NB_SEM = 0
  MAXPRIO = 2
  SHRT_MAX = 1
  CLOCK_MOD = 1
  SCHED_TICKS = 1
  Prios = {1}
  RetVals = {1}
  Counts = {}
  Alarms = {}
  AllocFails = FALSE
  Orphans = TRUE
  Reuse = FALSE
SPECIFICATION LifeSpec
INVARIANTS
  NoFault
  Filiation
  NoLostDeath
  DeadCollected
PROPERTIES
  FreePidContract
