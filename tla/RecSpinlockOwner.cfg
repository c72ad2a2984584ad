\* Two cores, one hold each.
SPECIFICATION Spec
CONSTANTS
  Cores = {c1, c2}
  MaxCount = 7
  MaxHeld = 1
INVARIANT OwnerExclusion
