CONSTANTS
  Procs = {p1, p2}
  Capability = {"comment-reply", "banner-write"}
  MaxGrants = 2
  MaxRotations = 1
  MaxCommands = 3
SPECIFICATION Spec
INVARIANTS StoredIsWhole StoredIsVerified InterlockHolds UndisturbedIsCurrent
SYMMETRY Symmetry
CHECK_DEADLOCK FALSE
