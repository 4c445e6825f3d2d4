SPECIFICATION Spec
CONSTANTS
  l1 = l1
  l2 = l2
  e1 = e1
  e2 = e2
  e3 = e3
  Lanes = {l1}
  Episodes = {e1}
  LaneOf <- MCLaneOf
  MaxAttempts = 2
  MaxDepth = 2
  Shielded = TRUE
INVARIANT ConfirmedMeansReleased
CHECK_DEADLOCK FALSE
