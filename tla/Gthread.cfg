\* Three cores; two slots and one call of key_create too many.
SPECIFICATION FairSpec
CONSTANTS
  Cores = {c1, c2, c3}
  NUM_KEYS = 2
  Values = {v}
  NULL = NULL
  Beyond = Beyond
  MaxCreates = 3
INVARIANTS
  OnceExact
  HeldByOne
  ValueKept
PROPERTIES
  OnceReturns
  NeverDead
