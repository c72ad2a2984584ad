CONSTANTS
  Called = {0, 41, 255}
  Depth = 3
SPECIFICATION Spec
INVARIANTS
  ArgumentsKept
  ReturnsToCaller
  FrameAligned
