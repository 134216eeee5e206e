CONSTANTS
  Formats = {"TAP"}
  Depth = 32
  PauseLevel = 16
  SectorBytes = 16
  HeaderLength = 4
  BlockLengths = {26}
  FileBytes = 28
  Loads = 2
SPECIFICATION Spec
INVARIANTS NothingRefused
