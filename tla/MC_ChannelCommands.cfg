CONSTANTS
  MaxReplies = 3
  PageSize = 2
  MAX_LIMIT = 4
  MaxItems = 5
  MaxEdits = 2
SPECIFICATION Spec
INVARIANTS TruthfulReport ListedEnough NoCommentForgotten
PROPERTIES GuardedWrites NothingLost ShownIsReplaced
CHECK_DEADLOCK FALSE
