CONSTANTS
  pagesize = 8
  max_fast = 6
  LARGE_SHIFT = 4
  LARGE_LOG = 1
  CONSOLIDATION = 20
  TRIM = 20
  ULONG_MOD = 512
  Heaps <- MCHeaps
SPECIFICATION HeapSpec
INVARIANTS
  BoundaryTags
  BestFit
  FailsOnlyWhenFull
PROPERTIES
  KeepsBlocks
