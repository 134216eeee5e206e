CONSTANTS
  Lines = {0, 1}
  Lanes = {l0, l1}
  Bytes = {d0, d1}
  ZeroLane = l0
  ZeroByte = d0
  NoOperation = NoOperation
  MaxWaitCycles = 5
  WriteDrainCycles = 2
  CommitCycles = 2
SPECIFICATION Spec
INVARIANTS LayersAgree
PROPERTIES IsByteMemory
