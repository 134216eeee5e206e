CONSTANTS
  Procs = {p1}
  Capability = {"comment-reply"}
  MaxGrants = 1
  MaxRotations = 0
  MaxCommands = 2
SPECIFICATION Spec
PROPERTIES RemovedWhateverTheOutcome
CHECK_DEADLOCK FALSE
