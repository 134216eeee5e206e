CONSTANTS
  Formats = {"TZX"}
  Depth = 12
  PauseLevel = 6
  SectorBytes = 6
  HeaderLength = 2
  BlockLengths = {7}
  FileBytes = 3
  Loads = 3
SPECIFICATION Spec
INVARIANTS PlayedWhole
