CONSTANTS
  Total = 3
  Chunk = 2
  MaxAttempts = 3
  MaxFaults = 3
SPECIFICATION FairUpload
INVARIANTS ToldMeansReported SkipsOnlyFromNothing
PROPERTIES IsPublication UploadEnds SucceedsInTheEnd
CHECK_DEADLOCK FALSE
