\* Three cores, regions of 51 bytes that start at odd addresses: aligning
\* always matters, a region overflows after two or three blocks.
SPECIFICATION Spec
CONSTANTS
  NCores = 3
  MemStart = 5
  RamTop = 160
  RegionSize = 2
  RepSize = 16
  Requests <- MCRequests
  MaxBlocks = 5
  NoRep = NoRep
INVARIANTS
  BlocksDisjoint
  BlocksAligned
  OvershootBounded
PROPERTY HeapSpec
CHECK_DEADLOCK FALSE
