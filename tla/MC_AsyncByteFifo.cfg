CONSTANTS
  Depth = 4
  Bytes = {b0, b1}
  ZeroByte = b0
SPECIFICATION FifoFairSpec
INVARIANTS LevelIsSafe
PROPERTIES IsQueue WrittenIsShown
