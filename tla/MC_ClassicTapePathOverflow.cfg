CONSTANTS
  Formats = {"TAP"}
  Depth = 32
  PauseLevel = 16
  SectorBytes = 16
  HeaderLength = 2
  BlockLengths = {14}
  FileBytes = 48
  Loads = 1
SPECIFICATION Spec
INVARIANTS NothingRefused
