CONSTANTS
  Addresses = {a0, a1}
  Bytes = {d0, d1}
  ZeroAddress = a0
  ZeroByte = d0
  MaxWaitCycles = 3
SPECIFICATION FairSpec
INVARIANTS WaitBounded FaultExplained
PROPERTIES OriginalSurvives NeverOpenForEver
