SPECIFICATION FairSpec
CONSTANTS
  s1 = s1
  s2 = s2
  t1 = t1
  t2 = t2
  t3 = t3
  Slots = {s1}
  Tasks = {t1}
  SlotOf <- MCSlotOf
  MaxCalls = 2
  MaxResubmissions = 1
  SoftRejections = FALSE
  NoRequest = NoRequest
INVARIANT FreeSlotQuiet
PROPERTIES
  KeepsPromise
  CallsEnd
  CloseEnds
  LapseCloses
CHECK_DEADLOCK FALSE
