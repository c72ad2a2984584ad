\* Two cores, three Ebbs: memAllocator and two whose construction allocates, so
\* that two cores can hold the locks of different managers while both wait for
\* that of memAllocator's.  An uninitialised Node::location may read as core c1
\* or as no core at all.
SPECIFICATION FairSpec
CONSTANTS
  Cores = {c1, c2}
  Ebbs = {mem, alloc, other}
  MemEbb = mem
  Junk = {c1, nowhere}
  None = None
  Depth = 3
INVARIANTS
  MutualExclusion
  NoSelfDeadlock
  BuiltOnce
  BoundIsBuilt
  ListComplete
  AltstackExact
PROPERTIES
  CallCompletes
  CacheSpec
