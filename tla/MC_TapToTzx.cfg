CONSTANTS
  HeaderLength = 10
  TapBytes = {0, 1, 2}
  MaxInput = 7
SPECIFICATION Spec
INVARIANTS OutputIsExpansion FaultMeansMalformed
