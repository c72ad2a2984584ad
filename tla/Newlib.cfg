\* Two cores; a heap of 4 bytes, two blocks of 2; ints from -8 to 7.
SPECIFICATION Spec
CONSTANTS
  Cores = {c1, c2}
  BootCore = c1
  BannerLen = 2
  MaxBytes = 2
  Empty = Empty
  heap_size = 4
  IntMax = 7
  Increments <- MCIncrements
  MaxBlocks = 2
INVARIANTS
  ConfiguredFirst
  SerialExact
  HeapBlocksApart
  ReentReady
CHECK_DEADLOCK FALSE
