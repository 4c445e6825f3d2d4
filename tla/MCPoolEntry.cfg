SPECIFICATION Spec
CONSTANTS
  l1 = l1
  l2 = l2
  e1 = e1
  e2 = e2
  e3 = e3
  Lanes = {l1, l2}
  Episodes = {e1}
  LaneOf <- MCLaneOf
  MaxAttempts = 1
  MaxDepth = 2
  Shielded = TRUE
INVARIANT FailedEntryOwnsNothing
CHECK_DEADLOCK FALSE
