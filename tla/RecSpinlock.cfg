\* Three cores that hold the mutex up to three times each, together more often
\* than the recursion limit allows.  A mutex locked at the limit is dead:
\* every core may end up spinning on its inner lock.
SPECIFICATION FairSpec
CONSTANTS
  Cores = {c1, c2, c3}
  MaxCount = 4
  MaxHeld = 3
INVARIANTS
  InnerExclusion
  CountExact
PROPERTY InnerGivenBack
CHECK_DEADLOCK FALSE
