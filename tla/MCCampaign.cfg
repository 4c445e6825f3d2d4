CONSTANTS
  p1 = p1
  p2 = p2
  nobody = nobody
  l1 = l1
  l2 = l2
  s1 = s1
  o1 = o1
  o2 = o2
  Procs = {p1, p2}
  NoProc = nobody
  Setups = {s1}
  Outputs = {o1, o2}
  Configs <- MCConfigs
  Caps <- MCCaps
  Contingency = 10
  TotalCap = 60
  PriorSpent <- MCPriorSpent
  Lanes = {l1, l2}
  PerLane = 2
  Tolerated = 0
  MaxErrors = 1
  DeleteAttempts = 2
  MaxInterrupts = 1
SPECIFICATION Spec
INVARIANTS
  TypeOK
  WithinBudget
  ReservedBeforePaid
  ClosedInOrder
  CancelledOnce
  AcknowledgedMeansDeleted
  MeasuredAfterSoundRun
PROPERTIES
  GradesKept
  RunEnds
CHECK_DEADLOCK FALSE
