\* Two cores; a node of memAllocator's manager reads as location 0 or as none.
SPECIFICATION AppSpec
CONSTANTS
  Cores = {0, 1}
  Ebbs = {mem, alloc}
  MemEbb = mem
  AllocEbb = alloc
  Junk = {0, 9}
  None = None
  Depth = 3
  NLocalEntries = 131072
INVARIANTS
  RootTableSound
  EntriesApart
PROPERTIES
  AppCacheSpec
  AllocReturns
CHECK_DEADLOCK FALSE
