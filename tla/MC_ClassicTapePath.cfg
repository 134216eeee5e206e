CONSTANTS
  Formats = {"TAP", "TZX"}
  Depth = 16
  PauseLevel = 8
  SectorBytes = 8
  HeaderLength = 4
  BlockLengths = {3, 10}
  FileBytes = 12
  Loads = 2
SPECIFICATION FairSpec
INVARIANTS TzxNeverRefused PlayedWhole
PROPERTIES PlayedInTheEnd
