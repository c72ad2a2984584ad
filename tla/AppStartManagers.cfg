\* The same instance.
SPECIFICATION AppSpec
CONSTANTS
  Cores = {0, 1}
  Ebbs = {mem, alloc}
  MemEbb = mem
  AllocEbb = alloc
  Junk = {0, 9}
  None = None
  Depth = 3
  NLocalEntries = 131072
INVARIANT ManagersKnown
CHECK_DEADLOCK FALSE
