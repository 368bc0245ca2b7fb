CONSTANTS
  NB_PROCESS = 3
  NB_SEM = 0
  MAXPRIO = 2
  SHRT_MAX = 1
  CLOCK_MOD = 1
  SCHED_TICKS = 1
  Prios = {1, 2}
  RetVals = {1}
  Counts = {}
  Alarms = {}
  AllocFails = FALSE
  Orphans = FALSE
  Reuse = TRUE
  NB_LINES = 3
  NB_COLUMNS = 3
  COL_LIMIT = 2
  TAB = 2
  CLOCKFREQ = 1
  SIXTY = 1
  UINT_MOD = 1
  CLOCK_WIDTH = 2
  TWO_DIGITS = 1
  BUFFER_SIZE = 2
  Keys = {"print", "cr", "del", "high", "nul"}
  Lengths = {0, 1, 2}
  Margins = {0, 1, 2}
  PROMPT_SIZE = 1
  SoleReader = TRUE
SPECIFICATION InputSpec
INVARIANTS
  FramesKept
  LineReady
  ClockApart
PROPERTIES
  KeepsLine
